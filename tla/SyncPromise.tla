---------------------------- MODULE SyncPromise -----------------------------
(***************************************************************************)
(* What a sync cycle promises: the device's table is a growing copy of     *)
(* rows some personal node holds, and a cycle that reports "completed" has *)
(* copied everything its node held when it reported "started".  There are  *)
(* no frames, pages, acknowledgements or streams here.                     *)
(***************************************************************************)
CONSTANT Nodes, Rows

VARIABLES held,    \* held[n]: the rows node n holds
          copy,    \* the device's rows
          goal,    \* what the cycle under way, or the last one, set out to copy
          status   \* the last status published

vars == <<held, copy, goal, status>>

Held == UNION {held[n] : n \in Nodes}

Init == /\ held \in [Nodes -> SUBSET (UNION {Rows[n] : n \in Nodes})]
        /\ copy = {}
        /\ goal = {}
        /\ status = "none"

Grow(n) == /\ \E r \in Rows[n] : held' = [held EXCEPT ![n] = @ \cup {r}]
           /\ UNCHANGED <<copy, goal, status>>

Begin(n) == /\ goal' = held[n]
            /\ status' = "started"
            /\ UNCHANGED <<held, copy>>

Copy == /\ \E r \in Held : copy' = copy \cup {r}
        /\ UNCHANGED <<held, goal, status>>

Complete == /\ status = "started"
            /\ goal \subseteq copy
            /\ status' = "completed"
            /\ UNCHANGED <<held, copy, goal>>

Fail == /\ status = "started"
        /\ status' = "failed"
        /\ UNCHANGED <<held, copy, goal>>

Restart == /\ status' = "none"
           /\ UNCHANGED <<held, copy, goal>>

Next == \/ \E n \in Nodes : Grow(n) \/ Begin(n)
        \/ Copy \/ Complete \/ Fail \/ Restart

Spec == Init /\ [][Next]_vars
=============================================================================
