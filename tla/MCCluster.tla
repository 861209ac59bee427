----------------------------- MODULE MCCluster -----------------------------
(* One Mon with the object services the configuration gives.               *)
EXTENDS Cluster
=============================================================================
