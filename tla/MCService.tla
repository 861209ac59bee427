---------------------------- MODULE MCService ----------------------------
(* Instance of Service for model checking. *)
EXTENDS Service

MCKind == [c \in Commands |-> IF c = 1 THEN "stop" ELSE "status"]
=============================================================================
