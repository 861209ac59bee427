-------------------------- MODULE MCClusterMapMon --------------------------
(* Every init file up to the sizes the configuration gives.                *)
EXTENDS ClusterMapMon
=============================================================================
