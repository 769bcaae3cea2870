--------------------------- MODULE MCPushSessions ---------------------------
(***************************************************************************)
(* Instances of PushSessions for TLC.                                      *)
(***************************************************************************)
EXTENDS PushSessions, TLC

CONSTANTS d1, d2, s1, s2, s3, m1, m2

(* The first device opens two streams, the second one. *)
ThreeStreams == s1 :> d1 @@ s2 :> d1 @@ s3 :> d2
=============================================================================
