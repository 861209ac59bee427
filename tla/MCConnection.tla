---------------------------- MODULE MCConnection ----------------------------
(***************************************************************************)
(* The connection with a few operations.                                   *)
(***************************************************************************)
EXTENDS Connection, TLC

\* Units per buffer, and units the kernel can move.
OneEach == [o \in Ops |-> 1]
TwoEach == [o \in Ops |-> 2]
NoUnits == [d \in Directions |-> 0]
OneUnit == [d \in Directions |-> 1]
WriteUnit == [d \in Directions |-> IF d = "write" THEN 1 ELSE 0]
ReadUnit == [d \in Directions |-> IF d = "read" THEN 1 ELSE 0]
WriteUnits == [d \in Directions |-> IF d = "write" THEN 2 ELSE 0]
WriteThree == [d \in Directions |-> IF d = "write" THEN 3 ELSE 0]

WriteSymmetry == Permutations(Writes)
=============================================================================
