----------------------------- MODULE MCDatabase -----------------------------
(* A small instance of Database for TLC. *)
EXTENDS Database

CONSTANT w1
=============================================================================
