---------------------------- MODULE PushPromise -----------------------------
(***************************************************************************)
(* What PushNewMessage promises: it takes effect at one moment, it writes  *)
(* to the sessions of that moment and to no others, to each at most once   *)
(* and before the node closes the stream, and it returns only when it has  *)
(* written to every one of them but the broken ones.  There are no locks,  *)
(* loops, handlers or full streams here.                                   *)
(***************************************************************************)
CONSTANTS Devices, Streams, DeviceOf, NoStream, Calls

VARIABLES
  registered,  \* registered[d]: the stream d is pushed to, or NoStream
  served,      \* streams the node has registered and not closed
  broken,      \* streams the device has closed, or that were reset
  begun,       \* calls that have taken effect
  target,      \* target[m]: the streams call m is to write to
  written,     \* written[m]: the streams it has written to
  returned     \* calls that have returned

vars == <<registered, served, broken, begun, target, written, returned>>

Init ==
  /\ registered = [d \in Devices |-> NoStream]
  /\ served = {} /\ broken = {} /\ begun = {} /\ returned = {}
  /\ target = [m \in Calls |-> {}]
  /\ written = [m \in Calls |-> {}]

(* The streams a call has still to write to. *)
Owed(m) == target[m] \ (written[m] \cup broken)

Serve(s) ==
  /\ s \notin served
  /\ registered' = [registered EXCEPT ![DeviceOf[s]] = s]
  /\ served' = served \cup {s}
  /\ UNCHANGED <<broken, begun, target, written, returned>>

(* The node closes a stream when no call in progress is owed it. *)
Leave(s) ==
  /\ \A m \in begun \ returned : s \notin Owed(m)
  /\ registered' = [registered EXCEPT ![DeviceOf[s]] = NoStream]
  /\ served' = served \ {s}
  /\ UNCHANGED <<broken, begun, target, written, returned>>

Break(s) ==
  /\ broken' = broken \cup {s}
  /\ UNCHANGED <<registered, served, begun, target, written, returned>>

TakeEffect(m) ==
  /\ m \notin begun
  /\ begun' = begun \cup {m}
  /\ target' = [target EXCEPT ![m] =
                  {registered[d] : d \in Devices} \ {NoStream}]
  /\ UNCHANGED <<registered, served, broken, written, returned>>

Write(m, s) ==
  /\ m \in begun \ returned
  /\ s \in served \cap Owed(m)
  /\ written' = [written EXCEPT ![m] = @ \cup {s}]
  /\ UNCHANGED <<registered, served, broken, begun, target, returned>>

Return(m) ==
  /\ m \in begun /\ Owed(m) = {}
  /\ returned' = returned \cup {m}
  /\ UNCHANGED <<registered, served, broken, begun, target, written>>

Next ==
  \/ \E s \in Streams : Serve(s) \/ Leave(s) \/ Break(s)
  \/ \E m \in Calls :
       TakeEffect(m) \/ Return(m) \/ \E s \in Streams : Write(m, s)

Spec == Init /\ [][Next]_vars
=============================================================================
