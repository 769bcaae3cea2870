---------------------------- MODULE PushSessions ----------------------------
(***************************************************************************)
(* The sessions of a personal node (internal/sync/server.go): one          *)
(* HandleSyncStream goroutine for each stream a trusted device opens, the  *)
(* map from devices to the stream they are pushed to, the calls of         *)
(* PushNewMessage, and the RWMutex between them.                           *)
(*                                                                         *)
(* FetchSession follows one stream frame by frame; here a stream is what   *)
(* the map and the pushes see of it: whether it is broken and how many     *)
(* frames the device has not read yet.  A goroutine that has called Lock   *)
(* keeps new readers out while it waits for the old ones, as a Go RWMutex  *)
(* does.                                                                   *)
(*                                                                         *)
(* Bounds: every stream of Streams is opened and every call of Calls is    *)
(* made at most once; Cap frames fit into a stream.                        *)
(***************************************************************************)
EXTENDS Naturals

CONSTANTS
  Devices,   \* the trusted devices
  Streams,   \* the streams they may open
  DeviceOf,  \* DeviceOf[s]: the device that opens stream s
  NoStream,
  Calls,     \* the calls of PushNewMessage
  Cap,       \* frames the node can write ahead of the device's reads
  Overlaps   \* whether a device may open a stream while the node still
             \* serves its last one, having not noticed that it is broken

ASSUME StreamsAssumption ==
  NoStream \notin Streams /\ DeviceOf \in [Streams -> Devices]

ASSUME LimitsAssumption == Cap \in Nat \ {0} /\ Overlaps \in BOOLEAN

VARIABLES
  hpc,       \* hpc[s]: where the handler of stream s is
  broken,    \* broken[s]: the device has closed stream s, or it was reset
  unread,    \* unread[s]: frames the device has not read
  sessions,  \* PersonalNodeServer.sessions
  writer,    \* the stream whose handler is in Lock, or NoStream
  ppc,       \* ppc[m]: where call m of PushNewMessage is
  left,      \* left[m]: devices its loop over the sessions has not reached
  listed,    \* history: streams in the map when call m entered its loop
  sent       \* history: streams call m has written to

streamVars == <<hpc, broken, unread>>
callVars == <<ppc, left, listed, sent>>
vars == <<streamVars, sessions, writer, callVars>>

Readers == {m \in Calls : ppc[m] = "loop"}

Init ==
  /\ hpc = [s \in Streams |-> "none"]
  /\ broken = [s \in Streams |-> FALSE]
  /\ unread = [s \in Streams |-> 0]
  /\ sessions = [d \in Devices |-> NoStream]
  /\ writer = NoStream
  /\ ppc = [m \in Calls |-> "idle"]
  /\ left = [m \in Calls |-> {}]
  /\ listed = [m \in Calls |-> {}]
  /\ sent = [m \in Calls |-> {}]

Goto(s, where) == hpc' = [hpc EXCEPT ![s] = where]

-----------------------------------------------------------------------------
(***************************************************************************)
(* A stream and its handler.                                               *)
(***************************************************************************)

Open(s) ==
  /\ hpc[s] = "none"
  /\ Overlaps \/ \A t \in Streams :
                   DeviceOf[t] = DeviceOf[s] => hpc[t] \in {"none", "done"}
  /\ Goto(s, "auth")
  /\ UNCHANGED <<broken, unread, sessions, writer, callVars>>

(* authenticate: a positive result is written, or the handshake fails, which
   ends the handler. *)
Authenticate(s) ==
  /\ hpc[s] = "auth"
  /\ \/ /\ ~broken[s] /\ unread[s] < Cap
        /\ Goto(s, "enter")
        /\ unread' = [unread EXCEPT ![s] = @ + 1]
     \/ /\ Goto(s, "done")
        /\ UNCHANGED unread
  /\ UNCHANGED <<broken, sessions, writer, callVars>>

(* mu.Lock is called to register the stream, or by the deferred function. *)
Lock(s) ==
  /\ writer = NoStream
  /\ \/ hpc[s] = "enter" /\ Goto(s, "entering")
     \/ hpc[s] = "leave" /\ Goto(s, "leaving")
  /\ writer' = s
  /\ UNCHANGED <<broken, unread, sessions, callVars>>

(* Slip: the registration does not wait for the readers. *)
RegisterAtOnce(s) ==
  /\ hpc[s] = "entering"
  /\ sessions' = [sessions EXCEPT ![DeviceOf[s]] = s]
  /\ writer' = NoStream
  /\ Goto(s, "serve")
  /\ UNCHANGED <<broken, unread, callVars>>

(* Slip: the deletion is called where it should be deferred. *)
RegisterUndeferred(s) ==
  /\ hpc[s] = "entering" /\ Readers = {}
  /\ sessions' = [sessions EXCEPT ![DeviceOf[s]] = NoStream]
  /\ writer' = NoStream
  /\ Goto(s, "serve")
  /\ UNCHANGED <<broken, unread, callVars>>

(* The lock is granted, the session stored, the lock released. *)
Register(s) ==
  /\ hpc[s] = "entering" /\ Readers = {}
  /\ sessions' = [sessions EXCEPT ![DeviceOf[s]] = s]
  /\ writer' = NoStream
  /\ Goto(s, "serve")
  /\ UNCHANGED <<broken, unread, callVars>>

(* A request is served with a frame of its own. *)
Answer(s) ==
  /\ hpc[s] = "serve" /\ ~broken[s] /\ unread[s] < Cap
  /\ unread' = [unread EXCEPT ![s] = @ + 1]
  /\ UNCHANGED <<hpc, broken, sessions, writer, callVars>>

(* A read or a write fails because the stream is broken: the main loop is
   left. *)
Break(s) ==
  /\ hpc[s] = "serve" /\ broken[s]
  /\ Goto(s, "leave")
  /\ UNCHANGED <<broken, unread, sessions, writer, callVars>>

(* GetSince returns an error, or a frame is no FetchRequest: the main loop is
   left with the stream intact and a device at its end that knows nothing of
   it. *)
FetchFails(s) ==
  /\ hpc[s] = "serve"
  /\ Goto(s, "leave")
  /\ UNCHANGED <<broken, unread, sessions, writer, callVars>>

(* Slip: the handler returns without taking its session out of the map. *)
UnregisterNothing(s) ==
  /\ hpc[s] = "leaving" /\ Readers = {}
  /\ writer' = NoStream
  /\ Goto(s, "done")
  /\ UNCHANGED <<broken, unread, sessions, callVars>>

(* The deferred functions: whatever session the device has is deleted, and
   then the stream is closed.  "done" stands for a closed stream too; what is
   on it can still be read. *)
Unregister(s) ==
  /\ hpc[s] = "leaving" /\ Readers = {}
  /\ sessions' = [sessions EXCEPT ![DeviceOf[s]] = NoStream]
  /\ writer' = NoStream
  /\ Goto(s, "done")
  /\ UNCHANGED <<broken, unread, callVars>>

Handler(s) ==
  \/ Authenticate(s) \/ Lock(s) \/ Register(s) \/ Break(s) \/ Unregister(s)

-----------------------------------------------------------------------------
(***************************************************************************)
(* The device at the other end.                                            *)
(***************************************************************************)

(* The first frame it reads here is the positive AuthResult. *)
Read(s) ==
  /\ unread[s] > 0 /\ ~broken[s]
  /\ unread' = [unread EXCEPT ![s] = @ - 1]
  /\ UNCHANGED <<hpc, broken, sessions, writer, callVars>>

(* The device closes the stream, or the stream is reset. *)
Close(s) ==
  /\ hpc[s] # "none" /\ ~broken[s]
  /\ broken' = [broken EXCEPT ![s] = TRUE]
  /\ UNCHANGED <<hpc, unread, sessions, writer, callVars>>

-----------------------------------------------------------------------------
(***************************************************************************)
(* PushNewMessage.                                                         *)
(***************************************************************************)

Call(m) ==
  /\ ppc[m] = "idle"
  /\ ppc' = [ppc EXCEPT ![m] = "called"]
  /\ UNCHANGED <<streamVars, sessions, writer, left, listed, sent>>

(* mu.RLock is granted, unless a handler is in Lock. *)
ReadLock(m) ==
  /\ ppc[m] = "called" /\ writer = NoStream
  /\ ppc' = [ppc EXCEPT ![m] = "loop"]
  /\ left' = [left EXCEPT ![m] = {d \in Devices : sessions[d] # NoStream}]
  /\ listed' = [listed EXCEPT ![m] =
                  {sessions[d] : d \in Devices} \ {NoStream}]
  /\ UNCHANGED <<streamVars, sessions, writer, sent>>

(* Slip: an error ends the loop. *)
PushGivingUp(m) ==
  /\ ppc[m] = "loop"
  /\ \E d \in left[m] :
       LET s == sessions[d] IN
         \/ /\ ~broken[s] /\ unread[s] < Cap
            /\ left' = [left EXCEPT ![m] = @ \ {d}]
            /\ unread' = [unread EXCEPT ![s] = @ + 1]
            /\ sent' = [sent EXCEPT ![m] = @ \cup {s}]
         \/ /\ broken[s]
            /\ left' = [left EXCEPT ![m] = {}]
            /\ UNCHANGED <<unread, sent>>
  /\ UNCHANGED <<hpc, broken, sessions, writer, ppc, listed>>

(* Slip: a write to a broken stream does not return. *)
PushHanging(m) ==
  /\ ppc[m] = "loop"
  /\ \E d \in left[m] :
       LET s == sessions[d] IN
         /\ unread[s] < Cap
         /\ left' = [left EXCEPT ![m] = @ \ {d}]
         /\ unread' = [unread EXCEPT ![s] = @ + 1]
         /\ sent' = [sent EXCEPT ![m] = @ \cup {s}]
  /\ UNCHANGED <<hpc, broken, sessions, writer, ppc, listed>>

(* Slip: the write does not wait for room. *)
PushNotWaiting(m) ==
  /\ ppc[m] = "loop"
  /\ \E d \in left[m] :
       LET s == sessions[d] IN
         /\ left' = [left EXCEPT ![m] = @ \ {d}]
         /\ unread' = [unread EXCEPT ![s] = @ + 1]
         /\ sent' = [sent EXCEPT ![m] = @ \cup {s}]
  /\ UNCHANGED <<hpc, broken, sessions, writer, ppc, listed>>

(* One round of the loop, over the map in any order.  The write waits for
   room in the stream; its error is ignored. *)
Push(m) ==
  /\ ppc[m] = "loop"
  /\ \E d \in left[m] :
       LET s == sessions[d] IN
         /\ left' = [left EXCEPT ![m] = @ \ {d}]
         /\ \/ /\ ~broken[s] /\ unread[s] < Cap
               /\ unread' = [unread EXCEPT ![s] = @ + 1]
               /\ sent' = [sent EXCEPT ![m] = @ \cup {s}]
            \/ /\ broken[s]
               /\ UNCHANGED <<unread, sent>>
  /\ UNCHANGED <<hpc, broken, sessions, writer, ppc, listed>>

(* The loop is over; the deferred RUnlock runs. *)
ReadUnlock(m) ==
  /\ ppc[m] = "loop" /\ left[m] = {}
  /\ ppc' = [ppc EXCEPT ![m] = "done"]
  /\ UNCHANGED <<streamVars, sessions, writer, left, listed, sent>>

PushNewMessage(m) == ReadLock(m) \/ Push(m) \/ ReadUnlock(m)

Next ==
  \/ \E s \in Streams :
       \/ Open(s) \/ Handler(s) \/ Answer(s) \/ FetchFails(s)
       \/ Read(s) \/ Close(s)
  \/ \E m \in Calls : Call(m) \/ PushNewMessage(m)

Spec == Init /\ [][Next]_vars

(* The node's goroutines go on as long as they can, and a call is served in
   the end when it competes for the lock, or with the handler for the room of
   a stream: Go's RWMutex lets the waiting readers in after each writer, and
   the Mutex of a msgio writer is handed to who has waited too long. *)
NodeFairness ==
  /\ \A s \in Streams : WF_vars(Handler(s))
  /\ \A m \in Calls : SF_vars(PushNewMessage(m))

(* Devices may stop reading without closing their stream. *)
StallingSpec == Spec /\ NodeFairness

(* Every device reads what it is sent. *)
FairSpec == StallingSpec /\ \A s \in Streams : WF_vars(Read(s))

-----------------------------------------------------------------------------
(***************************************************************************)
(* Properties.                                                             *)
(***************************************************************************)

HandlerStates ==
  {"none", "auth", "enter", "entering", "serve", "leave", "leaving", "done"}

(* The type invariant: every variable holds a value the code could hold. *)
TypeOK ==
  /\ hpc \in [Streams -> HandlerStates]
  /\ broken \in [Streams -> BOOLEAN]
  /\ unread \in [Streams -> 0..Cap]
  /\ sessions \in [Devices -> Streams \cup {NoStream}]
  /\ writer \in Streams \cup {NoStream}
  /\ ppc \in [Calls -> {"idle", "called", "loop", "done"}]
  /\ left \in [Calls -> SUBSET Devices]
  /\ listed \in [Calls -> SUBSET Streams]
  /\ sent \in [Calls -> SUBSET Streams]

(* Where a handler is between its registration and its return. *)
Served == {"serve", "leave", "leaving"}

(* A session in the map is a stream of that device whose handler has not
   returned: the deferred delete of HandleSyncStream leaves none behind, so
   that nothing is pushed into the stream of a handler that is gone. *)
SessionsAreServed ==
  \A d \in Devices : sessions[d] # NoStream =>
    DeviceOf[sessions[d]] = d /\ hpc[sessions[d]] \in Served

(* A push that has returned was written to every session it found, but for
   the broken ones: a dead device does not keep it from the others. *)
PushReachesSessions ==
  \A m \in Calls : ppc[m] = "done" =>
    \A s \in listed[m] : s \in sent[m] \/ broken[s]

(* A stream whose handler is in its main loop is the one its device is
   pushed to: "we push to EVERY online linked device".  It holds as long as
   no device opens a stream before its last one is forgotten. *)
ServedAreRegistered ==
  \A s \in Streams : hpc[s] \in Served => sessions[DeviceOf[s]] = s

(* A device with a stream in its handler's main loop is pushed to, on that
   stream or on another: "we push to EVERY online linked device".  Not so in
   the code, where the handler of one stream of a device takes away the
   session of the next. *)
OnlineHaveSession ==
  \A s \in Streams :
    hpc[s] = "serve" /\ ~broken[s] => sessions[DeviceOf[s]] # NoStream

(* The stream has come to its end, from one side or the other. *)
Ended(s) == broken[s] \/ hpc[s] = "done"

(* A call reaches a device that is in the map and has room, whatever the
   other devices do, unless its stream ends first: the device goes away, or
   the node fails to answer it and closes the stream, which it will see.  A
   handler that has left its main loop but not the map is no excuse. *)
IdleDeviceIsReached ==
  \A m \in Calls, s \in Streams :
    (ppc[m] = "called" /\ sessions[DeviceOf[s]] = s /\ unread[s] = 0)
      ~> (s \in sent[m] \/ Ended(s))

(* No goroutine of the node waits for ever: a call returns, and a handler
   that wants to register or to leave gets the lock. *)
NodeGoesOn ==
  /\ \A m \in Calls : (ppc[m] = "called") ~> (ppc[m] = "done")
  /\ \A s \in Streams : (hpc[s] \in {"enter", "leave"})
                          ~> (hpc[s] \in {"serve", "done"})

(* Not so in the code, which registers a stream after it has answered it (see
   README.md): a device that has read that it is authenticated, and all that
   came after, gets the message of a call made from then on. *)
AuthenticatedArePushed ==
  \A m \in Calls, s \in Streams :
    (ppc[m] = "called" /\ hpc[s] \in {"enter", "entering", "serve"} /\ unread[s] = 0)
      ~> (s \in sent[m] \/ Ended(s))

(* PushNewMessage keeps the promise of PushPromise: it takes effect when it
   has the read lock, and the lock keeps registrations, deletions and the
   closing of streams away until it returns. *)
Promise == INSTANCE PushPromise WITH
  registered <- sessions,
  served <- {s \in Streams : hpc[s] \in Served},
  broken <- {s \in Streams : broken[s]},
  begun <- {m \in Calls : ppc[m] \in {"loop", "done"}},
  target <- listed,
  written <- sent,
  returned <- {m \in Calls : ppc[m] = "done"}
PromiseKept == Promise!Spec
=============================================================================
