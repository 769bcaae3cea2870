--------------------------- MODULE DeliveryProofs ---------------------------
(***************************************************************************)
(* What TLAPS proves of Delivery, for all devices, messages, sizes and     *)
(* numbers of failures.                                                    *)
(***************************************************************************)
EXTENDS Delivery, TLAPS

(* What a sender, its stream and its receiver know of each other. *)
Linked(m) ==
  /\ spc[m] \in {"idle", "open", "refused"} => stream[m] = "none"
  /\ spc[m] = "idle" \/ spc[m] = "refused" \/ m \in kept
  /\ stream[m] = "none" => arrived[m] = 0 /\ rpc[m] = "none"
  /\ spc[m] = "write" => arrived[m] < Size /\ stream[m] \in {"open", "reset"}
  /\ spc[m] = "close" => arrived[m] = Size
  /\ spc[m] = "failed" => stream[m] \in {"none", "reset"}
  /\ stream[m] = "ended" => arrived[m] = Size /\ spc[m] = "sent"
  /\ rpc[m] = "save" => arrived[m] = Size /\ spc[m] = "sent"

(* A row in a receiver's table is a whole message whose Send is over. *)
Landed(r) == r.pieces = Size /\ spc[r.msg] = "sent" /\ rpc[r.msg] = "done"

LinksInv == \A m \in Msgs : Linked(m)
InboxInv == \A r \in inbox : Landed(r)

DeliveryInv == TypeOK /\ LinksInv /\ InboxInv

-----------------------------------------------------------------------------

LEMMA InitInv == Init => DeliveryInv
  BY DeliveryAssumption
     DEF Init, DeliveryInv, TypeOK, LinksInv, Linked, InboxInv, Ended

LEMMA StepType == DeliveryInv /\ [Next]_vars => TypeOK'
<1> SUFFICES ASSUME DeliveryInv, [Next]_vars PROVE TypeOK'
  OBVIOUS
<1> USE DeliveryAssumption DEF DeliveryInv, TypeOK, Ended
<1>1. ASSUME NEW d \in Devices, Listen(d) \/ Subscribe(d) PROVE TypeOK'
  BY <1>1 DEF Listen, Subscribe, senders, wire, receivers
<1>2. ASSUME NEW d \in Devices, Crash(d) PROVE TypeOK'
  <2>1. spc' \in [Msgs -> Ended \cup {"open", "write", "close"}]
    BY <1>2 DEF Crash
  <2>2. rpc' \in [Msgs -> {"none", "read", "save", "done"}]
    BY <1>2 DEF Crash
  <2>3. stream' \in [Msgs -> {"none", "open", "ended", "reset"}]
    BY <1>2 DEF Crash
  <2>4. up' \in [Devices -> {"down", "listening", "ready"}]
        /\ faults' \in 0..MaxFaults
    BY <1>2 DEF Crash, Fault
  <2> QED
    BY <1>2, <2>1, <2>2, <2>3, <2>4 DEF Crash
<1>3. ASSUME NEW m \in Msgs, Save(m) PROVE TypeOK'
  BY <1>3 DEF Save, SenderGoes, Fault, wire, receivers
<1>4. ASSUME NEW m \in Msgs, OpenStream(m) PROVE TypeOK'
  BY <1>4 DEF OpenStream, SenderGoes, ReceiverGoes, StreamIs, Fault
<1>5. ASSUME NEW m \in Msgs, Write(m) PROVE TypeOK'
  <2>1. arrived[m] \in 0..Size /\ arrived[m] < Size
    BY <1>5 DEF Write, LinksInv, Linked
  <2>2. arrived' \in [Msgs -> 0..Size]
    BY <1>5, <2>1 DEF Write
  <2> QED
    BY <1>5, <2>2 DEF Write, SenderGoes, receivers
<1>6. ASSUME NEW m \in Msgs, WriteFails(m) PROVE TypeOK'
  BY <1>6 DEF WriteFails, SenderGoes, StreamIs, Fault, receivers
<1>7. ASSUME NEW m \in Msgs, Close(m) PROVE TypeOK'
  BY <1>7 DEF Close, SenderGoes, StreamIs, receivers
<1>8. ASSUME NEW m \in Msgs, ReadAll(m) PROVE TypeOK'
  BY <1>8 DEF ReadAll, ReceiverGoes, senders, wire
<1>9. ASSUME NEW m \in Msgs, SaveIncoming(m) PROVE TypeOK'
  <2>1. arrived[m] = Size
    BY <1>9 DEF SaveIncoming, LinksInv, Linked
  <2> QED
    BY <1>9, <2>1 DEF SaveIncoming, ReceiverGoes, Fault, senders, wire
<1>10. ASSUME NEW m \in Msgs, Break(m) PROVE TypeOK'
  BY <1>10 DEF Break, StreamIs, Fault, senders, receivers
<1>11. CASE UNCHANGED vars
  BY <1>11 DEF vars, senders, wire, receivers
<1> QED
  BY <1>1, <1>2, <1>3, <1>4, <1>5, <1>6, <1>7, <1>8, <1>9, <1>10, <1>11
     DEF Next, Send, Receive

(* What each step does to the message it is about, and that it is about no
   other. *)
LEMMA StepLinks == DeliveryInv /\ [Next]_vars => LinksInv'
<1> SUFFICES ASSUME DeliveryInv, [Next]_vars, NEW n \in Msgs
             PROVE  Linked(n)'
  BY DEF LinksInv
<1> USE DeliveryAssumption DEF DeliveryInv, TypeOK, LinksInv, Linked, Ended
<1>1. ASSUME NEW d \in Devices, Listen(d) \/ Subscribe(d) PROVE Linked(n)'
  BY <1>1 DEF Listen, Subscribe, senders, wire, receivers
<1>2. ASSUME NEW d \in Devices, Crash(d) PROVE Linked(n)'
  <2>1. /\ spc'[n] \in {spc[n], "dead"}
        /\ spc[n] \in Ended => spc'[n] = spc[n]
    BY <1>2 DEF Crash
  <2>2. \/ stream'[n] = stream[n]
        \/ stream[n] = "open" /\ stream'[n] = "reset"
    BY <1>2 DEF Crash
  <2>3. \/ rpc'[n] = rpc[n]
        \/ rpc[n] # "none" /\ rpc'[n] = "done"
    BY <1>2 DEF Crash
  <2>4. kept' = kept /\ arrived' = arrived
    BY <1>2 DEF Crash
  <2> QED
    BY <2>1, <2>2, <2>3, <2>4
<1>3. ASSUME NEW m \in Msgs, Save(m) PROVE Linked(n)'
  BY <1>3 DEF Save, SenderGoes, wire, receivers
<1>4. ASSUME NEW m \in Msgs, OpenStream(m) PROVE Linked(n)'
  BY <1>4 DEF OpenStream, SenderGoes, ReceiverGoes, StreamIs
<1>5. ASSUME NEW m \in Msgs, Write(m) PROVE Linked(n)'
  <2>1. CASE n # m
    BY <1>5, <2>1 DEF Write, SenderGoes, receivers
  <2>2. CASE n = m
    BY <1>5, <2>2 DEF Write, SenderGoes, receivers
  <2> QED
    BY <2>1, <2>2
<1>6. ASSUME NEW m \in Msgs, WriteFails(m) PROVE Linked(n)'
  BY <1>6 DEF WriteFails, SenderGoes, StreamIs, receivers
<1>7. ASSUME NEW m \in Msgs, Close(m) PROVE Linked(n)'
  BY <1>7 DEF Close, SenderGoes, StreamIs, receivers
<1>8. ASSUME NEW m \in Msgs, ReadAll(m) PROVE Linked(n)'
  BY <1>8 DEF ReadAll, ReceiverGoes, senders, wire
<1>9. ASSUME NEW m \in Msgs, SaveIncoming(m) PROVE Linked(n)'
  BY <1>9 DEF SaveIncoming, ReceiverGoes, senders, wire
<1>10. ASSUME NEW m \in Msgs, Break(m) PROVE Linked(n)'
  BY <1>10 DEF Break, StreamIs, senders, receivers
<1>11. CASE UNCHANGED vars
  BY <1>11 DEF vars, senders, wire, receivers
<1> QED
  BY <1>1, <1>2, <1>3, <1>4, <1>5, <1>6, <1>7, <1>8, <1>9, <1>10, <1>11
     DEF Next, Send, Receive

(* "sent" and "done" are for good. *)
LEMMA EndsStay ==
  ASSUME DeliveryInv, [Next]_vars, NEW n \in Msgs
  PROVE  /\ spc[n] = "sent" => spc'[n] = "sent"
         /\ spc[n] = "sent" /\ rpc[n] = "done" => rpc'[n] = "done"
<1> USE DEF DeliveryInv, TypeOK, Ended
<1>1. ASSUME NEW d \in Devices, Listen(d) \/ Subscribe(d) \/ Crash(d)
      PROVE  /\ spc[n] = "sent" => spc'[n] = "sent"
             /\ spc[n] = "sent" /\ rpc[n] = "done" => rpc'[n] = "done"
  BY <1>1 DEF Listen, Subscribe, Crash, senders, receivers
<1>2. ASSUME NEW m \in Msgs, Send(m)
      PROVE  /\ spc[n] = "sent" => spc'[n] = "sent"
             /\ spc[n] = "sent" /\ rpc[n] = "done" => rpc'[n] = "done"
  BY <1>2 DEF Send, Save, OpenStream, Write, WriteFails, Close, SenderGoes,
              ReceiverGoes, receivers
<1>3. ASSUME NEW m \in Msgs, Receive(m) \/ Break(m)
      PROVE  /\ spc[n] = "sent" => spc'[n] = "sent"
             /\ spc[n] = "sent" /\ rpc[n] = "done" => rpc'[n] = "done"
  BY <1>3 DEF Receive, ReadAll, SaveIncoming, Break, ReceiverGoes, senders,
              receivers
<1>4. CASE UNCHANGED vars
  BY <1>4 DEF vars, senders, receivers
<1> QED
  BY <1>1, <1>2, <1>3, <1>4 DEF Next

LEMMA InboxStep ==
  ASSUME [Next]_vars
  PROVE  \/ inbox' = inbox
         \/ \E m \in Msgs : /\ SaveIncoming(m)
                            /\ inbox' = inbox \cup
                                 {[msg |-> m, pieces |-> arrived[m]]}
<1>1. ASSUME NEW d \in Devices, Listen(d) \/ Subscribe(d) \/ Crash(d)
      PROVE  inbox' = inbox
  BY <1>1 DEF Listen, Subscribe, Crash, receivers
<1>2. ASSUME NEW m \in Msgs, Send(m) \/ Break(m) \/ ReadAll(m)
      PROVE  inbox' = inbox
  BY <1>2 DEF Send, Save, OpenStream, Write, WriteFails, Close, Break, ReadAll,
              receivers
<1>3. ASSUME NEW m \in Msgs, SaveIncoming(m)
      PROVE  \/ inbox' = inbox
             \/ inbox' = inbox \cup {[msg |-> m, pieces |-> arrived[m]]}
  BY <1>3 DEF SaveIncoming
<1>4. CASE UNCHANGED vars
  BY <1>4 DEF vars, receivers
<1> QED
  BY <1>1, <1>2, <1>3, <1>4 DEF Next, Receive

LEMMA StepInbox == DeliveryInv /\ [Next]_vars => InboxInv'
<1> SUFFICES ASSUME DeliveryInv, [Next]_vars, NEW r \in inbox'
             PROVE  Landed(r)'
  BY DEF InboxInv
<1>1. CASE r \in inbox
  <2>1. Landed(r) /\ r.msg \in Msgs
    BY <1>1 DEF DeliveryInv, InboxInv, TypeOK
  <2> QED
    BY <2>1, EndsStay DEF Landed
<1>2. CASE r \notin inbox
  <2>1. PICK m \in Msgs : SaveIncoming(m) /\ r = [msg |-> m, pieces |-> arrived[m]]
    BY <1>2, InboxStep
  <2>2. arrived[m] = Size /\ spc[m] = "sent"
    BY <2>1 DEF SaveIncoming, DeliveryInv, LinksInv, Linked
  <2>3. rpc'[m] = "done" /\ spc' = spc
    BY <2>1 DEF SaveIncoming, ReceiverGoes, senders, DeliveryInv, TypeOK
  <2> QED
    BY <2>1, <2>2, <2>3 DEF Landed
<1> QED
  BY <1>1, <1>2

LEMMA StepInv == DeliveryInv /\ [Next]_vars => DeliveryInv'
  BY StepType, StepLinks, StepInbox DEF DeliveryInv

LEMMA InvHolds == Spec => []DeliveryInv
  BY InitInv, StepInv, PTL DEF Spec

(* Every reachable state is well typed. *)
THEOREM TypeCorrect == Spec => []TypeOK
<1>1. DeliveryInv => TypeOK
  BY DEF DeliveryInv
<1> QED
  BY <1>1, InvHolds, PTL

(* What handleIncomingStream passes on and ProcessIncoming saves is never a
   part of a message. *)
THEOREM WholeMessages == Spec => []WholeOnly
<1>1. DeliveryInv => WholeOnly
  BY DEF DeliveryInv, InboxInv, Landed, WholeOnly
<1> QED
  BY <1>1, InvHolds, PTL

(* A Send that returned an error did not deliver and will not. *)
THEOREM FailuresAreFinal == Spec => []FailedIsNotReceived
<1>1. DeliveryInv => FailedIsNotReceived
  BY DEF DeliveryInv, InboxInv, Landed, FailedIsNotReceived, Received, Failed
<1> QED
  BY <1>1, InvHolds, PTL

-----------------------------------------------------------------------------
(***************************************************************************)
(* The refinement of DirectPromise.                                        *)
(***************************************************************************)

LEMMA PromiseInit == Init => Promise!Init
  BY DEF Init, Promise!Init, Received, Failed

(* Every step keeps a message, receives one, fails to send one, or does not
   show. *)
LEMMA PromiseStep == DeliveryInv /\ [Next]_vars => [Promise!Next]_(Promise!vars)
<1> SUFFICES ASSUME DeliveryInv, [Next]_vars
             PROVE  Promise!Next \/ UNCHANGED Promise!vars
  OBVIOUS
<1> USE DEF DeliveryInv, TypeOK, Promise!vars
<1>1. inbox' = inbox => Received' = Received
  BY DEF Received
<1>2. ASSUME NEW d \in Devices, Listen(d) \/ Subscribe(d)
      PROVE  UNCHANGED Promise!vars
  BY <1>1, <1>2 DEF Listen, Subscribe, senders, receivers, Failed
<1>3. ASSUME NEW d \in Devices, Crash(d) PROVE UNCHANGED Promise!vars
  <2>1. \A m \in Msgs : spc'[m] = "failed" <=> spc[m] = "failed"
    BY <1>3 DEF Crash, Ended
  <2> QED
    BY <1>1, <1>3, <2>1 DEF Crash, Failed
<1>4. ASSUME NEW m \in Msgs, Save(m) PROVE Promise!Next \/ UNCHANGED Promise!vars
  <2>1. Failed' = Failed
    BY <1>4 DEF Save, SenderGoes, Failed
  <2> QED
    BY <1>1, <1>4, <2>1 DEF Save, receivers, Promise!Next, Promise!Keep
<1>5. ASSUME NEW m \in Msgs, OpenStream(m) \/ WriteFails(m)
      PROVE  Promise!Next \/ UNCHANGED Promise!vars
  <2>1. kept' = kept /\ Received' = Received
    BY <1>1, <1>5 DEF OpenStream, WriteFails, receivers
  <2>2. m \notin Received
    <3>1. spc[m] # "sent"
      BY <1>5 DEF OpenStream, WriteFails
    <3> QED
      BY <3>1 DEF Received, InboxInv, Landed
  <2>3. Failed' = Failed \/ Failed' = Failed \cup {m}
    BY <1>5 DEF OpenStream, WriteFails, SenderGoes, Failed
  <2> QED
    BY <2>1, <2>2, <2>3 DEF Promise!Next, Promise!Fail
<1>6. ASSUME NEW m \in Msgs, Write(m) \/ Close(m) PROVE UNCHANGED Promise!vars
  <2>1. Failed' = Failed
    BY <1>6 DEF Write, Close, SenderGoes, Failed
  <2> QED
    BY <1>1, <1>6, <2>1 DEF Write, Close, receivers
<1>7. ASSUME NEW m \in Msgs, ReadAll(m) \/ Break(m)
      PROVE  UNCHANGED Promise!vars
  BY <1>1, <1>7 DEF ReadAll, Break, senders, receivers, Failed
<1>8. ASSUME NEW m \in Msgs, SaveIncoming(m)
      PROVE  Promise!Next \/ UNCHANGED Promise!vars
  <2>1. kept' = kept /\ Failed' = Failed
    BY <1>8 DEF SaveIncoming, senders, Failed
  <2>2. spc[m] = "sent" /\ rpc[m] = "save"
    BY <1>8 DEF SaveIncoming, LinksInv, Linked
  <2>3. m \in kept \ (Received \cup Failed)
    BY <2>2 DEF LinksInv, Linked, InboxInv, Landed, Received, Failed
  <2>4. CASE inbox' = inbox
    BY <1>1, <2>1, <2>4
  <2>5. CASE inbox' = inbox \cup {[msg |-> m, pieces |-> arrived[m]]}
    <3>1. Received' = Received \cup {m}
      <4> DEFINE row == [msg |-> m, pieces |-> arrived[m]]
      <4>1. {r.msg : r \in inbox \cup {row}} = {r.msg : r \in inbox} \cup {row.msg}
        OBVIOUS
      <4>2. row.msg = m
        OBVIOUS
      <4> QED
        BY <2>5, <4>1, <4>2 DEF Received
    <3> QED
      BY <2>1, <2>3, <3>1 DEF Promise!Next, Promise!Receive
  <2> QED
    BY <1>8, <2>4, <2>5 DEF SaveIncoming
<1>9. CASE UNCHANGED vars
  BY <1>1, <1>9 DEF vars, senders, receivers, Failed
<1> QED
  BY <1>2, <1>3, <1>4, <1>5, <1>6, <1>7, <1>8, <1>9 DEF Next, Send, Receive

(* The transport with the two tables keeps the promise of a direct message:
   what is received was kept, comes once, and had not failed. *)
THEOREM DeliveryKeepsPromise == Spec => PromiseKept
<1>1. Init => Promise!Init
  BY PromiseInit
<1>2. DeliveryInv /\ [Next]_vars => [Promise!Next]_(Promise!vars)
  BY PromiseStep
<1> QED
  BY <1>1, <1>2, InvHolds, PTL DEF Spec, PromiseKept, Promise!Spec

-----------------------------------------------------------------------------
(***************************************************************************)
(* Who reads and who writes.                                               *)
(***************************************************************************)

(* A goroutine runs in a process that is up, and an open stream has one at
   each end. *)
Manned(m) ==
  /\ spc[m] \notin Ended => up[From[m]] = "ready"
  /\ rpc[m] \in {"read", "save"} => up[To[m]] # "down"
  /\ stream[m] = "open" => spc[m] \in {"write", "close"} /\ rpc[m] = "read"

MannedInv == \A m \in Msgs : Manned(m)

LEMMA StepManned == DeliveryInv /\ MannedInv /\ [Next]_vars => MannedInv'
<1> SUFFICES ASSUME DeliveryInv, MannedInv, [Next]_vars, NEW n \in Msgs
             PROVE  Manned(n)'
  BY DEF MannedInv
<1>0. From[n] \in Devices /\ To[n] \in Devices
  BY DeliveryAssumption
<1> USE DEF DeliveryInv, TypeOK, MannedInv, Manned, Ended
<1>1. ASSUME NEW d \in Devices, Listen(d) \/ Subscribe(d) PROVE Manned(n)'
  BY <1>0, <1>1 DEF Listen, Subscribe, senders, wire, receivers
<1>2. ASSUME NEW d \in Devices, Crash(d) PROVE Manned(n)'
  <2>1. CASE From[n] = d
    <3>1. spc'[n] \in Ended /\ stream'[n] # "open"
      BY <1>2, <2>1 DEF Crash
    <3>2. rpc'[n] \in {"read", "save"} => rpc[n] = rpc'[n] /\ To[n] # d
      BY <1>2 DEF Crash
    <3>3. To[n] # d => up'[To[n]] = up[To[n]]
      BY <1>0, <1>2 DEF Crash
    <3> QED
      BY <3>1, <3>2, <3>3
  <2>2. CASE From[n] # d
    <3>1. spc'[n] = spc[n] /\ up'[From[n]] = up[From[n]]
      BY <1>0, <1>2, <2>2 DEF Crash
    <3>2. CASE To[n] = d
      <4>1. rpc'[n] \notin {"read", "save"} /\ stream'[n] # "open"
        BY <1>2, <3>2 DEF Crash
      <4> QED
        BY <3>1, <4>1
    <3>3. CASE To[n] # d
      <4>1. rpc'[n] = rpc[n] /\ stream'[n] = stream[n] /\ up'[To[n]] = up[To[n]]
        BY <1>0, <1>2, <2>2, <3>3 DEF Crash
      <4> QED
        BY <3>1, <4>1
    <3> QED
      BY <3>2, <3>3
  <2> QED
    BY <2>1, <2>2
<1>3. ASSUME NEW m \in Msgs, Save(m) PROVE Manned(n)'
  BY <1>3 DEF Save, SenderGoes, wire, receivers
<1>4. ASSUME NEW m \in Msgs, OpenStream(m) PROVE Manned(n)'
  BY <1>4 DEF OpenStream, SenderGoes, ReceiverGoes, StreamIs, LinksInv, Linked
<1>5. ASSUME NEW m \in Msgs, Write(m) \/ WriteFails(m) \/ Close(m)
      PROVE  Manned(n)'
  BY <1>5 DEF Write, WriteFails, Close, SenderGoes, StreamIs, receivers
<1>6. ASSUME NEW m \in Msgs, ReadAll(m) \/ SaveIncoming(m) \/ Break(m)
      PROVE  Manned(n)'
  BY <1>6 DEF ReadAll, SaveIncoming, Break, ReceiverGoes, StreamIs, senders,
              wire, receivers
<1>7. CASE UNCHANGED vars
  BY <1>7 DEF vars, senders, wire, receivers
<1> QED
  BY <1>1, <1>2, <1>3, <1>4, <1>5, <1>6, <1>7 DEF Next, Send, Receive

(* A handler that waits in ReadAll waits for a Send that is still writing or
   about to close, in a process that runs: the others have closed or reset
   their stream. *)
ReadersHaveWriters ==
  \A m \in Msgs : rpc[m] = "read" =>
    \/ stream[m] \in {"ended", "reset"}
    \/ spc[m] \in {"write", "close"} /\ up[From[m]] = "ready"

(* No path out of Send and no end of a process leaves the goroutine of
   handleIncomingStream behind on a stream that nobody ends: the safety half
   of Arrives. *)
THEOREM NoReaderIsForgotten == Spec => []ReadersHaveWriters
<1>1. Init => MannedInv
  BY DEF Init, MannedInv, Manned, Ended
<1>2. DeliveryInv /\ MannedInv /\ [Next]_vars => MannedInv'
  BY StepManned
<1>3. DeliveryInv /\ MannedInv => ReadersHaveWriters
  BY DEF DeliveryInv, TypeOK, LinksInv, Linked, MannedInv, Manned, Ended,
         ReadersHaveWriters
<1> QED
  BY <1>1, <1>2, <1>3, InvHolds, PTL DEF Spec
=============================================================================
