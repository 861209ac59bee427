------------------------------ MODULE MCSocket ------------------------------
(* A listening socket and a few client sockets. *)
EXTENDS Socket
=============================================================================
