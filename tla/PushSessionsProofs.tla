------------------------- MODULE PushSessionsProofs -------------------------
(***************************************************************************)
(* What TLAPS proves of PushSessions, for all devices, streams, calls and  *)
(* capacities.                                                             *)
(***************************************************************************)
EXTENDS PushSessions, TLAPS

(* What a call in its loop has still to write to, or cannot. *)
LoopsCover ==
  \A m \in Calls : ppc[m] = "loop" =>
    /\ \A d \in left[m] : sessions[d] # NoStream
    /\ \A s \in listed[m] : \/ s \in sent[m] \/ broken[s]
                            \/ \E d \in left[m] : sessions[d] = s

SessionsInv == TypeOK /\ SessionsAreServed /\ LoopsCover /\ PushReachesSessions

(* Without overlaps a device has one stream at a time. *)
OneStream ==
  \A s, t \in Streams :
    /\ DeviceOf[s] = DeviceOf[t]
    /\ hpc[s] \notin {"none", "done"} /\ hpc[t] \notin {"none", "done"}
    => s = t

SingleInv == TypeOK /\ OneStream /\ ServedAreRegistered

-----------------------------------------------------------------------------

LEMMA InitType == Init => TypeOK
  BY LimitsAssumption DEF Init, TypeOK, HandlerStates

LEMMA StepType == TypeOK /\ LoopsCover /\ [Next]_vars => TypeOK'
<1> SUFFICES ASSUME TypeOK, LoopsCover, [Next]_vars PROVE TypeOK'
  OBVIOUS
<1> USE StreamsAssumption, LimitsAssumption
<1>1. ASSUME NEW s \in Streams, Open(s) PROVE TypeOK'
  BY <1>1 DEF Open, Goto, TypeOK, HandlerStates, callVars
<1>2. ASSUME NEW s \in Streams, Authenticate(s) PROVE TypeOK'
  BY <1>2 DEF Authenticate, Goto, TypeOK, HandlerStates, callVars
<1>3. ASSUME NEW s \in Streams, Lock(s) PROVE TypeOK'
  BY <1>3 DEF Lock, Goto, TypeOK, HandlerStates, callVars
<1>4. ASSUME NEW s \in Streams, Register(s) PROVE TypeOK'
  BY <1>4 DEF Register, Goto, TypeOK, HandlerStates, callVars
<1>5. ASSUME NEW s \in Streams, Break(s) \/ FetchFails(s) PROVE TypeOK'
  BY <1>5 DEF Break, FetchFails, Goto, TypeOK, HandlerStates, callVars
<1>6. ASSUME NEW s \in Streams, Unregister(s) PROVE TypeOK'
  BY <1>6 DEF Unregister, Goto, TypeOK, HandlerStates, callVars
<1>7. ASSUME NEW s \in Streams, Answer(s) PROVE TypeOK'
  BY <1>7 DEF Answer, TypeOK, callVars
<1>8. ASSUME NEW s \in Streams, Read(s) PROVE TypeOK'
  BY <1>8 DEF Read, TypeOK, callVars
<1>9. ASSUME NEW s \in Streams, Close(s) PROVE TypeOK'
  BY <1>9 DEF Close, TypeOK, callVars
<1>10. ASSUME NEW m \in Calls, Call(m) PROVE TypeOK'
  BY <1>10 DEF Call, TypeOK, streamVars
<1>11. ASSUME NEW m \in Calls, ReadLock(m) PROVE TypeOK'
  BY <1>11 DEF ReadLock, TypeOK, streamVars
<1>12. ASSUME NEW m \in Calls, Push(m) PROVE TypeOK'
  <2>1. PICK d \in left[m] :
          /\ left' = [left EXCEPT ![m] = @ \ {d}]
          /\ \/ /\ ~broken[sessions[d]] /\ unread[sessions[d]] < Cap
                /\ unread' = [unread EXCEPT ![sessions[d]] = @ + 1]
                /\ sent' = [sent EXCEPT ![m] = @ \cup {sessions[d]}]
             \/ UNCHANGED <<unread, sent>>
    BY <1>12 DEF Push
  <2>2. sessions[d] \in Streams
    BY <1>12 DEF Push, LoopsCover, TypeOK
  <2>3. unread' \in [Streams -> 0..Cap] /\ sent' \in [Calls -> SUBSET Streams]
    BY <2>1, <2>2 DEF TypeOK
  <2> QED
    BY <1>12, <2>1, <2>3 DEF Push, TypeOK
<1>13. ASSUME NEW m \in Calls, ReadUnlock(m) PROVE TypeOK'
  BY <1>13 DEF ReadUnlock, TypeOK, streamVars
<1>14. CASE UNCHANGED vars
  BY <1>14 DEF TypeOK, vars, streamVars, callVars
<1> QED
  BY <1>1, <1>2, <1>3, <1>4, <1>5, <1>6, <1>7, <1>8, <1>9, <1>10, <1>11,
     <1>12, <1>13, <1>14 DEF Next, Handler, PushNewMessage

LEMMA StepServed == TypeOK /\ SessionsAreServed /\ [Next]_vars => SessionsAreServed'
<1> SUFFICES ASSUME TypeOK, SessionsAreServed, [Next]_vars
             PROVE  SessionsAreServed'
  OBVIOUS
<1> USE StreamsAssumption DEF SessionsAreServed, Served, TypeOK
<1>1. ASSUME NEW s \in Streams, Open(s) PROVE SessionsAreServed'
  BY <1>1 DEF Open, Goto
<1>2. ASSUME NEW s \in Streams, Authenticate(s) PROVE SessionsAreServed'
  BY <1>2 DEF Authenticate, Goto
<1>3. ASSUME NEW s \in Streams, Lock(s) PROVE SessionsAreServed'
  BY <1>3 DEF Lock, Goto
<1>4. ASSUME NEW s \in Streams, Register(s) PROVE SessionsAreServed'
  BY <1>4 DEF Register, Goto
<1>5. ASSUME NEW s \in Streams, Break(s) \/ FetchFails(s)
      PROVE  SessionsAreServed'
  BY <1>5 DEF Break, FetchFails, Goto
<1>6. ASSUME NEW s \in Streams, Unregister(s) PROVE SessionsAreServed'
  BY <1>6 DEF Unregister, Goto
<1>7. CASE UNCHANGED <<hpc, sessions>>
  BY <1>7
<1>8. ASSUME NEW s \in Streams, Answer(s) \/ Read(s) \/ Close(s)
      PROVE  UNCHANGED <<hpc, sessions>>
  BY <1>8 DEF Answer, Read, Close
<1>9. ASSUME NEW m \in Calls, Call(m) \/ PushNewMessage(m)
      PROVE  UNCHANGED <<hpc, sessions>>
  BY <1>9 DEF Call, PushNewMessage, ReadLock, Push, ReadUnlock, streamVars
<1>10. CASE UNCHANGED vars
  BY <1>7, <1>10 DEF vars, streamVars
<1> QED
  BY <1>1, <1>2, <1>3, <1>4, <1>5, <1>6, <1>7, <1>8, <1>9, <1>10
     DEF Next, Handler

StreamAction(s) == Open(s) \/ Handler(s) \/ Answer(s) \/ FetchFails(s)
                     \/ Read(s) \/ Close(s)

(* A step that gives the lock to a handler finds no call in its loop. *)
LEMMA MapStep ==
  ASSUME [Next]_vars, Readers # {}
  PROVE  UNCHANGED sessions
<1>1. ASSUME NEW s \in Streams, StreamAction(s) PROVE UNCHANGED sessions
  BY <1>1 DEF StreamAction, Open, Handler, Authenticate, Lock, Register, Break,
              Unregister, Answer, FetchFails, Read, Close
<1>2. ASSUME NEW m \in Calls, Call(m) \/ PushNewMessage(m)
      PROVE  UNCHANGED sessions
  BY <1>2 DEF Call, PushNewMessage, ReadLock, Push, ReadUnlock
<1>3. CASE UNCHANGED vars
  BY <1>3 DEF vars
<1> QED
  BY <1>1, <1>2, <1>3 DEF Next, StreamAction

(* Outside the calls nothing a call has to do is taken from it or added. *)
LEMMA StreamStep ==
  ASSUME TypeOK, NEW s \in Streams, StreamAction(s)
  PROVE  /\ UNCHANGED callVars
         /\ \A t \in Streams : broken[t] => broken'[t]
<1>1. UNCHANGED callVars
  BY DEF StreamAction, Open, Handler, Authenticate, Lock, Register, Break,
         Unregister, Answer, FetchFails, Read, Close
<1>2. UNCHANGED broken \/ Close(s)
  BY DEF StreamAction, Open, Handler, Authenticate, Lock, Register, Break,
         Unregister, Answer, FetchFails, Read
<1>3. \A t \in Streams : broken[t] => broken'[t]
  BY <1>2 DEF Close, TypeOK
<1> QED
  BY <1>1, <1>3

LEMMA StepLoops ==
  TypeOK /\ LoopsCover /\ PushReachesSessions /\ [Next]_vars
    => LoopsCover' /\ PushReachesSessions'
<1> SUFFICES ASSUME TypeOK, LoopsCover, PushReachesSessions, [Next]_vars
             PROVE  LoopsCover' /\ PushReachesSessions'
  OBVIOUS
<1>1. ASSUME NEW s \in Streams, StreamAction(s)
      PROVE  LoopsCover' /\ PushReachesSessions'
  <2>1. UNCHANGED callVars /\ \A t \in Streams : broken[t] => broken'[t]
    BY <1>1, StreamStep
  <2>2. \A m \in Calls : listed[m] \subseteq Streams
    BY DEF TypeOK
  <2>3. PushReachesSessions'
    BY <2>1, <2>2 DEF PushReachesSessions, callVars
  <2>4. CASE Readers = {}
    BY <2>1, <2>3, <2>4 DEF LoopsCover, Readers, callVars
  <2>5. CASE Readers # {}
    <3>1. UNCHANGED sessions
      BY <2>5, MapStep
    <3> QED
      BY <2>1, <2>2, <2>3, <3>1 DEF LoopsCover, callVars
  <2> QED
    BY <2>4, <2>5
<1>2. ASSUME NEW m \in Calls, Call(m) PROVE LoopsCover' /\ PushReachesSessions'
  BY <1>2 DEF Call, streamVars, LoopsCover, PushReachesSessions, TypeOK
<1>3. ASSUME NEW m \in Calls, ReadLock(m)
      PROVE  LoopsCover' /\ PushReachesSessions'
  <2>1. PushReachesSessions'
    BY <1>3 DEF ReadLock, streamVars, PushReachesSessions, TypeOK
  <2>2. LoopsCover'
    BY <1>3 DEF ReadLock, streamVars, LoopsCover, TypeOK
  <2> QED
    BY <2>1, <2>2
<1>4. ASSUME NEW m \in Calls, Push(m) PROVE LoopsCover' /\ PushReachesSessions'
  <2>1. PICK d \in left[m] :
          /\ left' = [left EXCEPT ![m] = @ \ {d}]
          /\ \/ sent' = [sent EXCEPT ![m] = @ \cup {sessions[d]}]
             \/ broken[sessions[d]] /\ UNCHANGED sent
    BY <1>4 DEF Push
  <2>2. UNCHANGED <<broken, sessions, ppc, listed>>
    BY <1>4 DEF Push
  <2>3. \A n \in Calls : sent[n] \subseteq sent'[n]
    BY <2>1 DEF TypeOK
  <2>4. \A n \in Calls : n # m => left'[n] = left[n]
    BY <2>1 DEF TypeOK
  <2>5. left'[m] = left[m] \ {d}
    BY <2>1 DEF TypeOK
  <2>6. sessions[d] \in sent'[m] \/ broken[sessions[d]]
    BY <2>1 DEF TypeOK
  <2>7. PushReachesSessions'
    BY <2>2, <2>3 DEF PushReachesSessions
  <2>8. LoopsCover'
    BY <2>2, <2>3, <2>4, <2>5, <2>6 DEF LoopsCover
  <2> QED
    BY <2>7, <2>8
<1>5. ASSUME NEW m \in Calls, ReadUnlock(m)
      PROVE  LoopsCover' /\ PushReachesSessions'
  <2>1. /\ ppc[m] = "loop" /\ left[m] = {}
        /\ ppc' = [ppc EXCEPT ![m] = "done"]
        /\ UNCHANGED <<broken, sessions, left, listed, sent>>
    BY <1>5 DEF ReadUnlock, streamVars
  <2>2. \A s \in listed[m] : s \in sent[m] \/ broken[s]
    BY <2>1 DEF LoopsCover
  <2> QED
    BY <2>1, <2>2 DEF LoopsCover, PushReachesSessions, TypeOK
<1>6. CASE UNCHANGED vars
  BY <1>6 DEF vars, streamVars, callVars, LoopsCover, PushReachesSessions
<1> QED
  BY <1>1, <1>2, <1>3, <1>4, <1>5, <1>6
     DEF Next, StreamAction, PushNewMessage

LEMMA InvHolds == Spec => []SessionsInv
<1>1. Init => SessionsInv
  BY InitType DEF Init, SessionsInv, SessionsAreServed, LoopsCover,
                  PushReachesSessions
<1>2. SessionsInv /\ [Next]_vars => SessionsInv'
  BY StepType, StepServed, StepLoops DEF SessionsInv
<1> QED
  BY <1>1, <1>2, PTL DEF Spec

(* Every reachable state is well typed. *)
THEOREM TypeCorrect == Spec => []TypeOK
<1>1. SessionsInv => TypeOK
  BY DEF SessionsInv
<1> QED
  BY <1>1, InvHolds, PTL

(* The sessions map of the personal node only ever holds streams whose
   handler is still running. *)
THEOREM NoStaleSessions == Spec => []SessionsAreServed
<1>1. SessionsInv => SessionsAreServed
  BY DEF SessionsInv
<1> QED
  BY <1>1, InvHolds, PTL

(* A call of PushNewMessage that has returned has written to every session it
   found whose stream is not broken. *)
THEOREM PushIsComplete == Spec => []PushReachesSessions
<1>1. SessionsInv => PushReachesSessions
  BY DEF SessionsInv
<1> QED
  BY <1>1, InvHolds, PTL

-----------------------------------------------------------------------------
(***************************************************************************)
(* PushSessions implements PushPromise.                                    *)
(***************************************************************************)

InService == {s \in Streams : hpc[s] \in Served}
Gone == {s \in Streams : broken[s]}
Begun == {m \in Calls : ppc[m] \in {"loop", "done"}}
Returned == {m \in Calls : ppc[m] = "done"}

(* What is left to a call are sessions it found and has not written to. *)
LeftIsListed ==
  \A m \in Calls :
    /\ ppc[m] \in {"idle", "called"} => sent[m] = {} /\ listed[m] = {}
    /\ ppc[m] = "loop" => \A d \in left[m] : sessions[d] \in listed[m] \ sent[m]

LEMMA StepLeft ==
  ASSUME SessionsInv, LeftIsListed, [Next]_vars
  PROVE  LeftIsListed'
<1> USE DEF SessionsInv, TypeOK, LeftIsListed
<1>1. ASSUME NEW s \in Streams, StreamAction(s) PROVE LeftIsListed'
  <2>1. UNCHANGED callVars
    BY <1>1, StreamStep
  <2>2. CASE Readers = {}
    BY <2>1, <2>2 DEF Readers, callVars
  <2>3. CASE Readers # {}
    BY <2>1, <2>3, MapStep DEF callVars
  <2> QED
    BY <2>2, <2>3
<1>2. ASSUME NEW m \in Calls, Call(m) PROVE LeftIsListed'
  BY <1>2 DEF Call, streamVars
<1>3. ASSUME NEW m \in Calls, ReadLock(m) PROVE LeftIsListed'
  <2>1. /\ UNCHANGED <<sessions, sent>>
        /\ sent[m] = {}
        /\ listed'[m] = {sessions[d] : d \in Devices} \ {NoStream}
        /\ left'[m] = {d \in Devices : sessions[d] # NoStream}
        /\ ppc'[m] = "loop"
    BY <1>3 DEF ReadLock, streamVars
  <2>2. \A n \in Calls : n # m => /\ ppc'[n] = ppc[n] /\ left'[n] = left[n]
                                  /\ listed'[n] = listed[n]
    BY <1>3 DEF ReadLock
  <2> QED
    BY <2>1, <2>2
<1>4. ASSUME NEW m \in Calls, Push(m) PROVE LeftIsListed'
  <2>1. PICK d \in left[m] :
          /\ left' = [left EXCEPT ![m] = @ \ {d}]
          /\ \/ sent' = [sent EXCEPT ![m] = @ \cup {sessions[d]}]
             \/ UNCHANGED sent
    BY <1>4 DEF Push
  <2>2. UNCHANGED <<sessions, ppc, listed>> /\ ppc[m] = "loop"
    BY <1>4 DEF Push
  <2>3. \A e \in left[m] : e # d => sessions[e] # sessions[d]
    BY <2>2 DEF LoopsCover, SessionsAreServed
  <2>4. /\ left'[m] = left[m] \ {d}
        /\ sent'[m] \subseteq sent[m] \cup {sessions[d]}
        /\ \A n \in Calls : n # m => left'[n] = left[n] /\ sent'[n] = sent[n]
    BY <2>1
  <2> QED
    BY <2>2, <2>3, <2>4
<1>5. ASSUME NEW m \in Calls, ReadUnlock(m) PROVE LeftIsListed'
  BY <1>5 DEF ReadUnlock, streamVars
<1>6. CASE UNCHANGED vars
  BY <1>6 DEF vars, streamVars, callVars
<1> QED
  BY <1>1, <1>2, <1>3, <1>4, <1>5, <1>6 DEF Next, StreamAction, PushNewMessage

LEMMA PromiseInit == Init => Promise!Init
  BY DEF Init, Promise!Init, Served

(* The handler of a stream: registering is Serve, the deferred functions are
   Leave, the device's end is Break, and the rest is hidden. *)
LEMMA StreamKeepsPromise ==
  ASSUME SessionsInv, NEW s \in Streams, StreamAction(s)
  PROVE  [Promise!Next]_Promise!vars
<1> USE DEF SessionsInv, TypeOK
<1>0. UNCHANGED callVars
  BY StreamStep
<1>1. CASE Register(s)
  <2>1. InService' = InService \cup {s} /\ s \notin InService
    BY <1>1 DEF Register, Goto, InService, Served
  <2>2. Promise!Serve(s)
    BY <1>0, <1>1, <2>1 DEF Register, Promise!Serve, InService, callVars
  <2> QED
    BY <2>2 DEF Promise!Next
<1>2. CASE Unregister(s)
  <2>1. InService' = InService \ {s}
    BY <1>2 DEF Unregister, Goto, InService, Served
  <2>2. Begun \ Returned = {}
    BY <1>2 DEF Unregister, Readers, Begun, Returned
  <2>3. Promise!Leave(s)
    BY <1>0, <1>2, <2>1, <2>2
       DEF Unregister, Promise!Leave, InService, Begun, Returned, callVars
  <2> QED
    BY <2>3 DEF Promise!Next
<1>3. CASE Close(s)
  <2>1. Gone' = Gone \cup {s}
    BY <1>3 DEF Close, Gone
  <2>2. Promise!Break(s)
    BY <1>0, <1>3, <2>1 DEF Close, Promise!Break, Gone, callVars
  <2> QED
    BY <2>2 DEF Promise!Next
<1>4. CASE \/ Open(s) \/ Authenticate(s) \/ Lock(s) \/ Break(s) \/ Answer(s)
           \/ FetchFails(s) \/ Read(s)
  <2>1. UNCHANGED <<sessions, broken>>
    BY <1>4 DEF Open, Authenticate, Lock, Break, Answer, FetchFails, Read
  <2>2. InService' = InService
    BY <1>4 DEF Open, Authenticate, Lock, Break, Answer, FetchFails, Read, Goto,
                InService, Served
  <2> QED
    BY <1>0, <2>1, <2>2 DEF Promise!vars, InService, callVars
<1> QED
  BY <1>1, <1>2, <1>3, <1>4 DEF StreamAction, Handler

(* A call: the read lock is TakeEffect, a successful write is Write, and the
   release of the lock is Return. *)
LEMMA CallKeepsPromise ==
  ASSUME SessionsInv, LeftIsListed, NEW m \in Calls, Call(m) \/ PushNewMessage(m)
  PROVE  [Promise!Next]_Promise!vars
<1> USE DEF SessionsInv, TypeOK
<1>1. CASE Call(m)
  <2>1. Begun' = Begun /\ Returned' = Returned
    BY <1>1 DEF Call, Begun, Returned
  <2> QED
    BY <1>1, <2>1 DEF Call, streamVars, Promise!vars, Begun, Returned
<1>2. CASE ReadLock(m)
  <2>1. Begun' = Begun \cup {m} /\ Returned' = Returned /\ m \notin Begun
    BY <1>2 DEF ReadLock, Begun, Returned
  <2>2. Promise!TakeEffect(m)
    BY <1>2, <2>1 DEF ReadLock, streamVars, Promise!TakeEffect, Begun, Returned
  <2> QED
    BY <2>2 DEF Promise!Next
<1>3. CASE Push(m)
  <2>1. PICK d \in left[m] :
          \/ /\ ~broken[sessions[d]]
             /\ sent' = [sent EXCEPT ![m] = @ \cup {sessions[d]}]
          \/ UNCHANGED sent
    BY <1>3 DEF Push
  <2>2. /\ ppc[m] = "loop"
        /\ UNCHANGED <<hpc, broken, sessions, ppc, listed>>
    BY <1>3 DEF Push
  <2>3. CASE UNCHANGED sent
    BY <2>2, <2>3 DEF Promise!vars
  <2>4. CASE /\ ~broken[sessions[d]]
             /\ sent' = [sent EXCEPT ![m] = @ \cup {sessions[d]}]
    <3>1. sessions[d] \in Streams
      BY <2>2 DEF LoopsCover
    <3>2. sessions[d] \in InService
      BY <2>2, <3>1, StreamsAssumption DEF SessionsAreServed, InService
    <3>3. sessions[d] \in listed[m] \ (sent[m] \cup Gone)
      BY <2>2, <2>4 DEF LeftIsListed, Gone
    <3>4. m \in Begun \ Returned
      BY <2>2 DEF Begun, Returned
    <3>5. Promise!Write(m, sessions[d])
      BY <2>2, <2>4, <3>2, <3>3, <3>4
         DEF Promise!Write, Promise!Owed, InService, Gone, Begun, Returned
    <3> QED
      BY <3>1, <3>5 DEF Promise!Next
  <2> QED
    BY <2>1, <2>3, <2>4
<1>4. CASE ReadUnlock(m)
  <2>1. /\ ppc[m] = "loop" /\ left[m] = {}
        /\ ppc' = [ppc EXCEPT ![m] = "done"]
        /\ UNCHANGED <<hpc, broken, sessions, listed, sent>>
    BY <1>4 DEF ReadUnlock, streamVars
  <2>2. listed[m] \ (sent[m] \cup Gone) = {}
    BY <2>1 DEF LoopsCover, Gone
  <2>3. Begun' = Begun /\ Returned' = Returned \cup {m} /\ m \in Begun
    BY <2>1 DEF Begun, Returned
  <2>4. Promise!Return(m)
    BY <2>1, <2>2, <2>3 DEF Promise!Return, Promise!Owed, Gone, Begun, Returned
  <2> QED
    BY <2>4 DEF Promise!Next
<1> QED
  BY <1>1, <1>2, <1>3, <1>4 DEF PushNewMessage

(* A call of PushNewMessage takes effect at one moment, for any devices,
   streams and calls that overlap with it: it writes once to each session of
   that moment but the broken ones, to no other, and to none that the node
   has closed. *)
THEOREM PushesKeepPromise == Spec => PromiseKept
<1> DEFINE Inv == SessionsInv /\ LeftIsListed
<1>1. Init => Promise!Init
  BY PromiseInit
<1>2. Init => LeftIsListed
  BY DEF Init, LeftIsListed
<1>3. Inv /\ [Next]_vars => LeftIsListed'
  BY StepLeft
<1>4. Inv /\ [Next]_vars => [Promise!Next]_Promise!vars
  <2> SUFFICES ASSUME Inv, [Next]_vars PROVE [Promise!Next]_Promise!vars
    OBVIOUS
  <2>1. CASE UNCHANGED vars
    BY <2>1 DEF vars, streamVars, callVars, Promise!vars
  <2> QED
    BY <2>1, StreamKeepsPromise, CallKeepsPromise DEF Next, StreamAction
<1> QED
  BY <1>1, <1>2, <1>3, <1>4, InvHolds, PTL DEF Spec, PromiseKept, Promise!Spec

-----------------------------------------------------------------------------

LEMMA StepSingle ==
  ASSUME ~Overlaps
  PROVE  SessionsInv /\ SingleInv /\ [Next]_vars => SingleInv'
<1> SUFFICES ASSUME SessionsInv, SingleInv, [Next]_vars PROVE SingleInv'
  OBVIOUS
<1> USE StreamsAssumption
<1>1. TypeOK /\ TypeOK' /\ OneStream /\ ServedAreRegistered
  BY StepType DEF SessionsInv, SingleInv
<1>2. OneStream'
  <2>1. ASSUME NEW s \in Streams, Open(s) PROVE OneStream'
    BY <1>1, <2>1 DEF Open, Goto, OneStream, TypeOK
  <2>2. ASSUME NEW s \in Streams, Handler(s) PROVE OneStream'
    <3>1. /\ hpc[s] \notin {"none", "done"}
          /\ \E where \in HandlerStates : hpc' = [hpc EXCEPT ![s] = where]
      BY <2>2 DEF Handler, Authenticate, Lock, Register, Break, Unregister,
                  Goto, HandlerStates
    <3> QED
      BY <1>1, <3>1 DEF OneStream, TypeOK
  <2>7. ASSUME NEW s \in Streams, FetchFails(s) PROVE OneStream'
    BY <1>1, <2>7 DEF FetchFails, Goto, OneStream, TypeOK
  <2>3. CASE UNCHANGED hpc
    BY <1>1, <2>3 DEF OneStream
  <2>4. ASSUME NEW s \in Streams, Answer(s) \/ Read(s) \/ Close(s)
        PROVE  UNCHANGED hpc
    BY <2>4 DEF Answer, Read, Close
  <2>5. ASSUME NEW m \in Calls, Call(m) \/ PushNewMessage(m)
        PROVE  UNCHANGED hpc
    BY <2>5 DEF Call, PushNewMessage, ReadLock, Push, ReadUnlock, streamVars
  <2>6. CASE UNCHANGED vars
    BY <2>3, <2>6 DEF vars, streamVars
  <2> QED
    BY <2>1, <2>2, <2>3, <2>4, <2>5, <2>6, <2>7 DEF Next
<1>3. ServedAreRegistered'
  <2> USE DEF ServedAreRegistered, Served
  <2>1. ASSUME NEW s \in Streams, \/ Open(s) \/ Authenticate(s) \/ Lock(s)
                                   \/ Break(s) \/ FetchFails(s)
        PROVE  ServedAreRegistered'
    BY <1>1, <2>1 DEF Open, Authenticate, Lock, Break, FetchFails, Goto, TypeOK
  <2>2. ASSUME NEW s \in Streams, Register(s) PROVE ServedAreRegistered'
    BY <1>1, <2>2 DEF Register, Goto, TypeOK, OneStream
  <2>3. ASSUME NEW s \in Streams, Unregister(s) PROVE ServedAreRegistered'
    BY <1>1, <2>3 DEF Unregister, Goto, TypeOK, OneStream
  <2>4. CASE UNCHANGED <<hpc, sessions>>
    BY <1>1, <2>4
  <2>5. ASSUME NEW s \in Streams, Answer(s) \/ Read(s) \/ Close(s)
        PROVE  UNCHANGED <<hpc, sessions>>
    BY <2>5 DEF Answer, Read, Close
  <2>6. ASSUME NEW m \in Calls, Call(m) \/ PushNewMessage(m)
        PROVE  UNCHANGED <<hpc, sessions>>
    BY <2>6 DEF Call, PushNewMessage, ReadLock, Push, ReadUnlock, streamVars
  <2>7. CASE UNCHANGED vars
    BY <2>4, <2>7 DEF vars, streamVars
  <2> QED
    BY <2>1, <2>2, <2>3, <2>4, <2>5, <2>6, <2>7 DEF Next, Handler
<1> QED
  BY <1>1, <1>2, <1>3 DEF SingleInv

(* If a device opens no stream before the node has forgotten its last one,
   every stream in service is the one its device is pushed to. *)
THEOREM ServiceIsRegistered ==
  ASSUME ~Overlaps
  PROVE  Spec => []ServedAreRegistered
<1>1. Init => SingleInv
  BY InitType DEF Init, SingleInv, OneStream, ServedAreRegistered, Served
<1>2. SessionsInv /\ SingleInv /\ [Next]_vars => SingleInv'
  BY StepSingle
<1>3. SingleInv => ServedAreRegistered
  BY DEF SingleInv
<1> QED
  BY <1>1, <1>2, <1>3, InvHolds, PTL DEF Spec

-----------------------------------------------------------------------------
(***************************************************************************)
(* Who waits for whom.                                                     *)
(***************************************************************************)

InLock == {"entering", "leaving"}

(* The lock is held, or waited for in its place, by a handler that is in Lock
   and by no other: none returns with it. *)
LockInv ==
  /\ writer # NoStream => hpc[writer] \in InLock
  /\ \A s \in Streams : hpc[s] \in InLock => writer = s

LEMMA StepLock == TypeOK /\ LockInv /\ [Next]_vars => LockInv'
<1> SUFFICES ASSUME TypeOK, LockInv, [Next]_vars PROVE LockInv'
  OBVIOUS
<1> USE StreamsAssumption DEF LockInv, TypeOK, InLock
<1>1. ASSUME NEW s \in Streams, \/ Open(s) \/ Authenticate(s) \/ Lock(s)
                                \/ Break(s) \/ FetchFails(s)
      PROVE  LockInv'
  BY <1>1 DEF Open, Authenticate, Lock, Break, FetchFails, Goto
<1>2. ASSUME NEW s \in Streams, Register(s) \/ Unregister(s) PROVE LockInv'
  BY <1>2 DEF Register, Unregister, Goto
<1>3. CASE UNCHANGED <<hpc, writer>>
  BY <1>3
<1>4. ASSUME NEW s \in Streams, Answer(s) \/ Read(s) \/ Close(s)
      PROVE  UNCHANGED <<hpc, writer>>
  BY <1>4 DEF Answer, Read, Close
<1>5. ASSUME NEW m \in Calls, Call(m) \/ PushNewMessage(m)
      PROVE  UNCHANGED <<hpc, writer>>
  BY <1>5 DEF Call, PushNewMessage, ReadLock, Push, ReadUnlock, streamVars
<1>6. CASE UNCHANGED vars
  BY <1>3, <1>6 DEF vars, streamVars
<1> QED
  BY <1>1, <1>2, <1>3, <1>4, <1>5, <1>6 DEF Next, Handler

(* A goroutine of the node that is at mu or in a push. *)
Waiting == \/ \E m \in Calls : ppc[m] \in {"called", "loop"}
           \/ \E s \in Streams : hpc[s] \in {"enter", "leave"} \cup InLock

(* The lock can be given to one that asks for it. *)
LockMoves ==
  \/ /\ writer = NoStream
     /\ \/ \E m \in Calls : ppc[m] = "called"
        \/ \E s \in Streams : hpc[s] \in {"enter", "leave"}
  \/ Readers = {} /\ \E s \in Streams : hpc[s] \in InLock

(* A call can go on with any session that is left to it. *)
PushMoves ==
  \E m \in Readers : \A d \in left[m] :
    broken[sessions[d]] \/ unread[sessions[d]] < Cap

(* A call waits for the device of a stream that the node has not closed. *)
HeldUpByDevice ==
  \E m \in Readers : \E d \in left[m] :
    LET s == sessions[d]
    IN  /\ s \in Streams /\ DeviceOf[s] = d /\ hpc[s] \in Served
        /\ ~broken[s] /\ unread[s] = Cap

(* While goroutines wait, one of them can go on, unless a device does not
   read. *)
NodeWaitsForDevices == Waiting => LockMoves \/ PushMoves \/ HeldUpByDevice

(* HandleSyncStream and PushNewMessage never all wait for each other, whether
   a handler leaves because its stream broke or because a fetch failed with
   the stream intact: no path leaves the lock behind, and no push waits for a
   stream that the node itself has closed.  The safety half of NodeGoesOn. *)
THEOREM NobodyWaitsInACircle == Spec => []NodeWaitsForDevices
<1>1. Init => LockInv
  BY DEF Init, LockInv, InLock
<1>2. SessionsInv /\ LockInv /\ [Next]_vars => LockInv'
  BY StepLock DEF SessionsInv
<1>3. SessionsInv /\ LockInv => NodeWaitsForDevices
  <2> SUFFICES ASSUME TypeOK, SessionsAreServed, LoopsCover, LockInv,
                      Waiting, ~LockMoves, ~PushMoves
               PROVE  HeldUpByDevice
    BY DEF SessionsInv, NodeWaitsForDevices
  <2>1. PICK m \in Readers : TRUE
    <3>1. CASE writer = NoStream
      BY <3>1, StreamsAssumption DEF Waiting, LockMoves, LockInv, Readers, TypeOK
    <3>2. CASE writer # NoStream
      BY <3>2 DEF LockMoves, LockInv, TypeOK
    <3> QED
      BY <3>1, <3>2
  <2>2. PICK d \in left[m] : /\ ~broken[sessions[d]]
                             /\ ~(unread[sessions[d]] < Cap)
    BY <2>1 DEF PushMoves
  <2>3. m \in Calls /\ ppc[m] = "loop" /\ d \in Devices
    BY <2>1, <2>2 DEF Readers, TypeOK
  <2>4. sessions[d] \in Streams
    BY <2>2, <2>3 DEF LoopsCover, TypeOK
  <2>5. DeviceOf[sessions[d]] = d /\ hpc[sessions[d]] \in Served
    BY <2>3, <2>4, StreamsAssumption DEF SessionsAreServed
  <2>6. unread[sessions[d]] = Cap
    BY <2>2, <2>4, LimitsAssumption DEF TypeOK
  <2> QED
    BY <2>1, <2>2, <2>4, <2>5, <2>6 DEF HeldUpByDevice
<1> QED
  BY <1>1, <1>2, <1>3, InvHolds, PTL DEF Spec
=============================================================================
