--------------------------- MODULE ClusterMapMon ---------------------------
(***************************************************************************)
(* libs/cluster/ClusterMapMon.c: how Mon comes by its object service map.  *)
(* Without a map file it reads the init file, places the replicas of the   *)
(* bsets on the object services (cmmFillBSets) and writes the map file;    *)
(* with one it parses that.  It may crash at every step, also between the  *)
(* truncation of the file and its writing (fileUtilWriteAFile).            *)
(*                                                                         *)
(* cmmFillBSets is a nested loop; one action is one turn of the inner one. *)
(* Services are numbered by their place in object_service_list, which is   *)
(* the order of the init file, and bsets by their id.                      *)
(***************************************************************************)
EXTENDS Integers, Sequences, FiniteSets

CONSTANTS MaxBSets, MaxReplicas, MaxServices,   \* bounds: the sizes an init file gives
          MaxCrashes                            \* bound: crashes of Mon

ASSUME ClusterMapMonAssumption ==
    /\ {MaxBSets, MaxReplicas, MaxServices} \subseteq Nat \ {0}
    /\ MaxCrashes \in Nat

VARIABLES size,      \* [bsets, replicas, services]: what the init file says
          phase,     \* "down", "filling", "filled", "writing", "up", "failed", "aborted"
          i, j,      \* the loops of cmmFillBSets
          bset_ids,  \* ObjectService.bset_ids, by service
          bset,      \* BSet.object_service_ids, by bset
          file,      \* "none", "torn" or the map that was dumped: [bset_ids, bset]
          crashes

vars == <<size, phase, i, j, bset_ids, bset, file, crashes>>

BSets    == 0..size.bsets - 1
Services == 0..size.services - 1
Replicas == 0..size.replicas - 1

NoMap == <<>>

-----------------------------------------------------------------------------
Init == /\ size \in [bsets : 1..MaxBSets, replicas : 1..MaxReplicas, services : 1..MaxServices]
        /\ phase = "down" /\ file = [kind |-> "none"]
        /\ i = 0 /\ j = 0 /\ bset_ids = NoMap /\ bset = NoMap
        /\ crashes = 0

\* avg_bset_num: the entries allocated for each service's bset_ids.
Average == LET total == size.bsets * size.replicas
               share == total \div size.services
           IN  IF share * size.services = total THEN share ELSE share + 1

\* initClusterMapMon without a map file: cmmParseClusterMap up to the loops of
\* cmmFillBSets.
StartFromInit ==
    /\ phase = "down" /\ file.kind = "none"
    /\ phase' = "filling"
    /\ i' = 0 /\ j' = 0
    /\ bset_ids' = [k \in Services |-> <<>>]
    /\ bset' = [l \in BSets |-> <<>>]
    /\ UNCHANGED <<size, file, crashes>>

\* The init file is missing, or not what cmmParseClusterMap expects.
InitRefused ==
    /\ phase = "down" /\ file.kind = "none"
    /\ phase' = "failed"
    /\ UNCHANGED <<size, i, j, bset_ids, bset, file, crashes>>

\* Mutant: bsets are dealt out in runs.
PlaceInRuns == ((j + i) % size.bsets) \div ((size.bsets + size.services - 1) \div size.services)

\* The bset whose j-th replica is placed in this turn, and the service it is
\* placed on.
Target == (j + i) % size.bsets
Place  == Target % size.services

\* Mutant: the service is not told.
RecordOneSide == /\ bset' = [bset EXCEPT ![Target] = Append(@, Place)]
                 /\ UNCHANGED bset_ids

Record == /\ bset_ids' = [bset_ids EXCEPT ![Place] = Append(@, Target)]
          /\ bset' = [bset EXCEPT ![Target] = Append(@, Place)]

\* A turn of the inner loop; the assertion that the service's share is kept
\* follows the entry.
Fill == /\ phase = "filling" /\ j < size.replicas
        /\ Record
        /\ IF Len(bset_ids'[Place]) <= Average
           THEN /\ i' = (i + 1) % size.bsets
                /\ j' = IF i + 1 = size.bsets THEN j + 1 ELSE j
                /\ UNCHANGED phase
           ELSE /\ phase' = "aborted"
                /\ UNCHANGED <<i, j>>
        /\ UNCHANGED <<size, file, crashes>>

FillDone == /\ phase = "filling" /\ j = size.replicas
            /\ phase' = "filled"
            /\ UNCHANGED <<size, i, j, bset_ids, bset, file, crashes>>

\* fileUtilWriteAFile: open with O_TRUNC, then write.
Truncate == /\ phase = "filled"
            /\ phase' = "writing"
            /\ file' = [kind |-> "torn"]
            /\ UNCHANGED <<size, i, j, bset_ids, bset, crashes>>

\* clusterMapDumpObjectServiceMap: both indexes are dumped.
Dumped == [kind |-> "whole", bset_ids |-> bset_ids, bset |-> bset]

Write == /\ phase = "writing"
         /\ phase' = "up"
         /\ file' = Dumped
         /\ UNCHANGED <<size, i, j, bset_ids, bset, crashes>>

\* Mutant: a map that ends early is taken for what it has.
LoadAnything == /\ phase' = "up"
                /\ IF file.kind = "torn" THEN bset_ids' = NoMap /\ bset' = NoMap
                   ELSE bset_ids' = file.bset_ids /\ bset' = file.bset

\* clusterMapParseObjectServiceMap: what is too short is refused.
Load == IF file.kind = "torn"
        THEN phase' = "failed" /\ UNCHANGED <<bset_ids, bset>>
        ELSE phase' = "up" /\ bset_ids' = file.bset_ids /\ bset' = file.bset

\* initClusterMapMon with a map file.  Nothing falls back on the init file.
StartFromFile == /\ phase = "down" /\ file.kind # "none"
                 /\ Load
                 /\ UNCHANGED <<size, i, j, file, crashes>>

Crash == /\ phase \notin {"down", "failed", "aborted"} /\ crashes < MaxCrashes
         /\ phase' = "down" /\ crashes' = crashes + 1
         /\ i' = 0 /\ j' = 0 /\ bset_ids' = NoMap /\ bset' = NoMap
         /\ UNCHANGED <<size, file>>

Starting == StartFromInit \/ InitRefused \/ Fill \/ FillDone \/ Truncate \/ Write \/ StartFromFile

Next == Starting \/ Crash

Spec == Init /\ [][Next]_vars

-----------------------------------------------------------------------------
(* Properties *)

Occurrences(x, seq) == Cardinality({n \in DOMAIN seq : seq[n] = x})

\* The two indexes of the map agree: a service lists a bset as often as the bset
\* lists the service.
IndexesAgree ==
    phase \in {"filling", "filled", "writing", "up"} =>
        \A k \in Services, l \in BSets :
            Occurrences(l, bset_ids[k]) = Occurrences(k, bset[l])

\* What Mon serves is a whole map, whatever crashed before: every bset has all
\* its replicas, and a service has no more than its allocated share.
ServesWhole ==
    phase = "up" => /\ bset_ids # NoMap
                    /\ \A l \in BSets : Len(bset[l]) = size.replicas
                    /\ \A k \in Services : Len(bset_ids[k]) <= Average

\* The bsets are dealt out evenly: the services' loads differ by the replicas of
\* one bset at most, and where nothing is left over the assertion of cmmFillBSets
\* holds.
Balanced ==
    /\ phase = "up" => \A k, m \in Services :
                           Len(bset_ids[k]) <= Len(bset_ids[m]) + size.replicas
    /\ phase = "aborted" => size.bsets % size.services # 0

\* assert(os->bset_length <= avg_bset_num): the share that is allocated for a
\* service is enough for it.  The code deals all replicas of a bset to one
\* service, so it is not when the bsets cannot be dealt out evenly.
ShareIsEnough == phase # "aborted"

=============================================================================
