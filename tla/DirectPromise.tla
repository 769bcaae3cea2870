---------------------------- MODULE DirectPromise ---------------------------
(***************************************************************************)
(* What sending a direct message promises: only messages the sender keeps  *)
(* are received, each at most once, and one whose sending was reported as  *)
(* failed never is, so that it could be sent again.  There are no streams, *)
(* processes or crashes here.                                              *)
(***************************************************************************)
CONSTANT Msgs

VARIABLES kept,      \* in the sender's table
          received,  \* in the receiver's table
          failed     \* reported as failed

vars == <<kept, received, failed>>

Init == kept = {} /\ received = {} /\ failed = {}

Keep(m) == /\ kept' = kept \cup {m}
           /\ UNCHANGED <<received, failed>>

Receive(m) == /\ m \in kept \ (received \cup failed)
              /\ received' = received \cup {m}
              /\ UNCHANGED <<kept, failed>>

Fail(m) == /\ m \notin received
           /\ failed' = failed \cup {m}
           /\ UNCHANGED <<kept, received>>

Next == \E m \in Msgs : Keep(m) \/ Receive(m) \/ Fail(m)

Spec == Init /\ [][Next]_vars
=============================================================================
