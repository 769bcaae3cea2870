--------------------------- MODULE MCFetchSession ---------------------------
(* Small instances of FetchSession for TLC. *)
EXTENDS FetchInvariant, TLC

CONSTANTS n1, n2

(* Messages a, b, c, in the order a node numbers them. *)
Numbered(a, b, c) == {[id |-> a, seq |-> 1], [id |-> b, seq |-> 2],
                      [id |-> c, seq |-> 3]}

OneNode == (n1 :> Numbered("a", "b", "c"))

(* A second node, that does not trust the device and holds nothing. *)
TwoNodes == OneNode @@ (n2 :> {})

(* Two nodes that agree on the numbers of the messages they share. *)
AgreeingNodes == (n1 :> {[id |-> "a", seq |-> 1], [id |-> "b", seq |-> 2]})
              @@ (n2 :> {[id |-> "b", seq |-> 2], [id |-> "c", seq |-> 3]})

(* Two nodes that each number their messages from 1. *)
ClashingNodes == (n1 :> {[id |-> "a", seq |-> 1]})
              @@ (n2 :> {[id |-> "c", seq |-> 1]})
=============================================================================
