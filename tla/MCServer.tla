------------------------------ MODULE MCServer ------------------------------
(* A small instance of Server. *)
EXTENDS Server
=============================================================================
