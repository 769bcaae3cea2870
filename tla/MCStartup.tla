----------------------------- MODULE MCStartup ------------------------------
(***************************************************************************)
(* Instances of Startup for TLC.                                           *)
(***************************************************************************)
EXTENDS Startup, TLC

CONSTANTS p1, p2, k1, k2, k3, m1
=============================================================================
