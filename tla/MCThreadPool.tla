---------------------------- MODULE MCThreadPool ----------------------------
(***************************************************************************)
(* The pool with a few interchangeable jobs.                               *)
(***************************************************************************)
EXTENDS ThreadPool, TLC

Symmetry == Permutations(Jobs)
=============================================================================
