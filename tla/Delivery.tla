------------------------------ MODULE Delivery ------------------------------
(***************************************************************************)
(* Direct messages between devices (internal/transport/libp2p.go with      *)
(* SendMessage and ProcessIncoming around it): a message is saved by its   *)
(* sender, written to a stream of its own and, if the whole of it arrives  *)
(* at a transport that has its handler, saved by its receiver.             *)
(*                                                                         *)
(* A connection may break and a process may end at any point; the tables   *)
(* are still there when it starts again.                                   *)
(*                                                                         *)
(* Bounds: every message is sent once; Size is how many pieces a payload   *)
(* travels in; MaxFaults caps the failures.                                *)
(***************************************************************************)
EXTENDS Naturals

CONSTANTS Devices, Msgs, From, To, Size, MaxFaults

ASSUME DeliveryAssumption ==
  /\ From \in [Msgs -> Devices] /\ To \in [Msgs -> Devices]
  /\ Size \in Nat \ {0} /\ MaxFaults \in Nat

VARIABLES
  up,      \* up[d]: what d's process has set up
  spc,     \* spc[m]: where the goroutine that sends m is
  kept,    \* messages in their sender's table
  stream,  \* stream[m]: the stream m travels on
  arrived, \* arrived[m]: the pieces that reached the other end
  rpc,     \* rpc[m]: where the goroutine that receives m is
  inbox,   \* messages in their receiver's table, with what came of them
  faults

senders == <<spc, kept>>
wire == <<stream, arrived>>
receivers == <<rpc, inbox>>
vars == <<up, senders, wire, receivers, faults>>

Init ==
  /\ up = [d \in Devices |-> "down"]
  /\ spc = [m \in Msgs |-> "idle"]
  /\ kept = {}
  /\ stream = [m \in Msgs |-> "none"]
  /\ arrived = [m \in Msgs |-> 0]
  /\ rpc = [m \in Msgs |-> "none"]
  /\ inbox = {}
  /\ faults = 0

Fault == faults < MaxFaults /\ faults' = faults + 1

SenderGoes(m, where) == spc' = [spc EXCEPT ![m] = where]
ReceiverGoes(m, where) == rpc' = [rpc EXCEPT ![m] = where]
StreamIs(m, how) == stream' = [stream EXCEPT ![m] = how]

-----------------------------------------------------------------------------
(***************************************************************************)
(* A process.                                                              *)
(***************************************************************************)

(* NewLibp2pTransport installs the stream handler... *)
Listen(d) ==
  /\ up[d] = "down"
  /\ up' = [up EXCEPT ![d] = "listening"]
  /\ UNCHANGED <<senders, wire, receivers, faults>>

(* ... and Subscribe sets what it passes the payloads to. *)
Subscribe(d) ==
  /\ up[d] = "listening"
  /\ up' = [up EXCEPT ![d] = "ready"]
  /\ UNCHANGED <<senders, wire, receivers, faults>>

Ended == {"idle", "sent", "failed", "refused", "dead"}

(* The process ends: its goroutines are gone, and its streams are reset but
   for those the other end has to itself already. *)
Crash(d) ==
  /\ up[d] # "down" /\ Fault
  /\ up' = [up EXCEPT ![d] = "down"]
  /\ spc' = [m \in Msgs |->
               IF From[m] = d /\ spc[m] \notin Ended THEN "dead" ELSE spc[m]]
  /\ rpc' = [m \in Msgs |->
               IF To[m] = d /\ rpc[m] # "none" THEN "done" ELSE rpc[m]]
  /\ stream' = [m \in Msgs |->
                  IF d \in {From[m], To[m]} /\ stream[m] = "open"
                    THEN "reset" ELSE stream[m]]
  /\ UNCHANGED <<kept, arrived, inbox>>

(* The connection is lost under a stream, with what has not been read. *)
Break(m) ==
  /\ stream[m] \in {"open", "ended"} /\ Fault
  /\ StreamIs(m, "reset")
  /\ UNCHANGED <<up, senders, arrived, receivers>>

-----------------------------------------------------------------------------
(***************************************************************************)
(* SendMessage and Send.                                                   *)
(***************************************************************************)

(* Slip: the message is sent first and saved when that has gone well. *)
SaveLater(m) ==
  /\ spc[m] = "idle" /\ up[From[m]] = "ready"
  /\ SenderGoes(m, "open")
  /\ UNCHANGED <<up, kept, wire, receivers, faults>>

(* The sealed message is saved, or SendMessage returns. *)
Save(m) ==
  /\ spc[m] = "idle" /\ up[From[m]] = "ready"
  /\ \/ /\ kept' = kept \cup {m}
        /\ SenderGoes(m, "open")
        /\ UNCHANGED faults
     \/ /\ Fault
        /\ SenderGoes(m, "refused")
        /\ UNCHANGED kept
  /\ UNCHANGED <<up, wire, receivers>>

(* NewStream: the other end starts a handler for the stream. *)
OpenStream(m) ==
  /\ spc[m] = "open"
  /\ \/ /\ up[To[m]] # "down"
        /\ StreamIs(m, "open")
        /\ ReceiverGoes(m, "read")
        /\ SenderGoes(m, "write")
        /\ UNCHANGED faults
     \/ /\ \/ up[To[m]] = "down" /\ UNCHANGED faults
           \/ Fault
        /\ SenderGoes(m, "failed")
        /\ UNCHANGED <<stream, rpc>>
  /\ UNCHANGED <<up, kept, arrived, inbox>>

(* Slip: one piece too many. *)
WriteOnePieceMore(m) ==
  /\ spc[m] = "write" /\ stream[m] = "open"
  /\ arrived' = [arrived EXCEPT ![m] = @ + 1]
  /\ SenderGoes(m, IF arrived'[m] > Size THEN "close" ELSE "write")
  /\ UNCHANGED <<up, kept, stream, receivers, faults>>

Write(m) ==
  /\ spc[m] = "write" /\ stream[m] = "open"
  /\ arrived' = [arrived EXCEPT ![m] = @ + 1]
  /\ SenderGoes(m, IF arrived'[m] = Size THEN "close" ELSE "write")
  /\ UNCHANGED <<up, kept, stream, receivers, faults>>

(* Slip: no Reset, so that the deferred Close ends the stream properly. *)
WriteFailsQuietly(m) ==
  /\ spc[m] = "write"
  /\ \/ stream[m] = "reset" /\ UNCHANGED <<stream, faults>>
     \/ stream[m] = "open" /\ Fault /\ StreamIs(m, "ended")
  /\ SenderGoes(m, "failed")
  /\ UNCHANGED <<up, kept, arrived, receivers>>

(* Write returns an error: the stream is reset. *)
WriteFails(m) ==
  /\ spc[m] = "write"
  /\ \/ stream[m] = "reset" /\ UNCHANGED faults
     \/ stream[m] = "open" /\ Fault
  /\ StreamIs(m, "reset")
  /\ SenderGoes(m, "failed")
  /\ UNCHANGED <<up, kept, arrived, receivers>>

(* Slip: the stream is not closed. *)
LeaveOpen(m) ==
  /\ spc[m] = "close"
  /\ SenderGoes(m, "sent")
  /\ UNCHANGED <<up, kept, wire, receivers, faults>>

(* The deferred Close, whose error nobody sees; Send has returned nil. *)
Close(m) ==
  /\ spc[m] = "close"
  /\ StreamIs(m, IF stream[m] = "open" THEN "ended" ELSE stream[m])
  /\ SenderGoes(m, "sent")
  /\ UNCHANGED <<up, kept, arrived, receivers, faults>>

-----------------------------------------------------------------------------
(***************************************************************************)
(* handleIncomingStream and ProcessIncoming.                               *)
(***************************************************************************)

(* Slip: what was read before the error is passed on. *)
ReadWhatCame(m) ==
  /\ rpc[m] = "read" /\ stream[m] \in {"ended", "reset"}
  /\ IF up[To[m]] = "ready" /\ arrived[m] > 0
       THEN ReceiverGoes(m, "save") ELSE ReceiverGoes(m, "done")
  /\ UNCHANGED <<up, senders, wire, inbox, faults>>

(* ReadAll returns at the end of the stream; its error, a missing handler and
   an empty payload are passed over in silence. *)
ReadAll(m) ==
  /\ rpc[m] = "read" /\ stream[m] \in {"ended", "reset"}
  /\ IF stream[m] = "ended" /\ up[To[m]] = "ready" /\ arrived[m] > 0
       THEN ReceiverGoes(m, "save") ELSE ReceiverGoes(m, "done")
  /\ UNCHANGED <<up, senders, wire, inbox, faults>>

(* ProcessIncoming saves what it was given, or its error is logged. *)
SaveIncoming(m) ==
  /\ rpc[m] = "save"
  /\ \/ /\ inbox' = inbox \cup {[msg |-> m, pieces |-> arrived[m]]}
        /\ UNCHANGED faults
     \/ Fault /\ UNCHANGED inbox
  /\ ReceiverGoes(m, "done")
  /\ UNCHANGED <<up, senders, wire>>

Send(m) ==
  \/ Save(m) \/ OpenStream(m) \/ Write(m) \/ WriteFails(m) \/ Close(m)

Receive(m) == ReadAll(m) \/ SaveIncoming(m)

Next ==
  \/ \E d \in Devices : Listen(d) \/ Subscribe(d) \/ Crash(d)
  \/ \E m \in Msgs : Send(m) \/ Receive(m) \/ Break(m)

Spec == Init /\ [][Next]_vars

(* A started process subscribes, and goroutines go on as long as they can. *)
FairSpec ==
  /\ Spec
  /\ \A d \in Devices : WF_vars(Subscribe(d))
  /\ \A m \in Msgs : WF_vars(Send(m)) /\ WF_vars(Receive(m))

-----------------------------------------------------------------------------
(***************************************************************************)
(* Properties.                                                             *)
(***************************************************************************)

(* The type invariant: every variable holds a value the code could hold. *)
TypeOK ==
  /\ up \in [Devices -> {"down", "listening", "ready"}]
  /\ spc \in [Msgs -> Ended \cup {"open", "write", "close"}]
  /\ kept \in SUBSET Msgs
  /\ stream \in [Msgs -> {"none", "open", "ended", "reset"}]
  /\ arrived \in [Msgs -> 0..Size]
  /\ rpc \in [Msgs -> {"none", "read", "save", "done"}]
  /\ inbox \in SUBSET [msg : Msgs, pieces : 1..Size]
  /\ faults \in 0..MaxFaults

Received == {r.msg : r \in inbox}

Failed == {m \in Msgs : spc[m] = "failed"}

(* Nothing is saved of a message but the whole of it: a stream that breaks
   off is no message, however much of it has been read. *)
WholeOnly == \A r \in inbox : r.pieces = Size

(* A message whose Send returned an error is never received, neither before
   nor after: it is safe to send it again. *)
FailedIsNotReceived == Received \cap Failed = {}

(* The detailed system keeps the promise of a direct message. *)
Promise == INSTANCE DirectPromise WITH received <- Received, failed <- Failed
PromiseKept == Promise!Spec

(* A saved message for a device that is ready comes to be received, unless
   something fails. *)
Arrives ==
  \A m \in Msgs :
    (spc[m] = "open" /\ up[To[m]] = "ready" /\ faults = 0)
      ~> (m \in Received \/ faults > 0)

-----------------------------------------------------------------------------
(* Not so in the code (see README.md): a message shown as "sent" comes to be
   received, if nothing fails. *)
SentArrives ==
  \A m \in Msgs : (spc[m] = "sent" /\ faults = 0)
                    ~> (m \in Received \/ faults > 0)

(* Nor is a message that was kept "for retry" sent again. *)
KeptIsRetried == \A m \in Msgs : (m \in Failed) ~> (m \notin Failed)
=============================================================================
