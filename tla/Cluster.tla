------------------------------ MODULE Cluster ------------------------------
(***************************************************************************)
(* The Mon service and its object services: libs/cluster (ClusterMap.c,    *)
(* ClusterMapMon.c, ClusterMapObjectService.c), corecode/util/             *)
(* HouseKeeping.c, services/mon/server (ClusterHandler.c,                  *)
(* ServerContextMon.c) and services/os/server/ServerContextOs.c.           *)
(*                                                                         *)
(* Every object service runs one house keeping worker that reports its     *)
(* status to Mon every Interval seconds, and goes through ReadyToJoin,     *)
(* Syncing and Online on the answers.  The threads that meet are the house *)
(* keeping thread, the pool threads that run the worker, the callback of   *)
(* its answer and the synchronisation the callback starts, the thread that *)
(* stops the service, and Mon's handlers.  They share the object service   *)
(* map, counted by references, and the worker's counter and status, which  *)
(* the callback writes without the lock.                                   *)
(*                                                                         *)
(* The connection to Mon is what Connection and Client promise: an         *)
(* accepted request is answered once, with an error when the connection    *)
(* closes; one that is refused may have been answered so too, because      *)
(* sendRequest links it before it writes it (Client.c:349-372); and a      *)
(* Client never connects again.  Messages of a process that has died may   *)
(* still reach Mon.                                                        *)
(*                                                                         *)
(* The version of a map is left out: cmmParseClusterMap sets it to 0 and   *)
(* nothing at this commit changes it (AddObjectService, RemoveObjectService*)
(* and GetObjectServiceMapChangeLog are stubs that never answer), so the   *)
(* branch of clusterMapOSKeepAliveCallback for a newer map is not taken.   *)
(***************************************************************************)
EXTENDS Integers, FiniteSets

CONSTANTS OS,            \* the object services
          Known,         \* those in Mon's map
          Mon,           \* the Mon service, a value outside OS
          Interval,      \* what addWorker is given, in ticks of the house keeping thread
          Threads,       \* the threads of work_tp
          MaxStarts,     \* bound: how often an object service is started
          MaxMonStarts,  \* bound: how often Mon is started
          MaxViews       \* bound: responses that hold Mon's map at a time

ASSUME ClusterAssumption ==
    /\ Known \subseteq OS /\ Mon \notin OS
    /\ {Interval, Threads, MaxStarts, MaxMonStarts, MaxViews} \subseteq Nat \ {0}

VARIABLES map,        \* [OS \cup {Mon} -> [state, ref]]: ClusterMapPrivate.os_map
          life,       \* [OS -> [phase, starts]]: the process of an object service
          disk,       \* [OS -> [file, status]]: its map file and the status that holds
          hk,         \* [OS -> [status, linked, counter]]: HouseKeepingWorker
          ka,         \* [OS -> [worker, late, cb, sync, req, own]]: the keep-alive
          rpc,        \* [OS -> [up, kind, status]]: the Client and its one request
          mon,        \* [phase, starts, views]: the Mon process
          monStatus,  \* [Known -> Statuses]: ObjectService.status in Mon's map
          inbox,      \* requests on their way to a handler of Mon
          handling    \* requests inside ClusterActionKeepAliveObjectService

procVars == <<life, disk, hk>>
monVars  == <<mon, monStatus, inbox, handling>>
vars     == <<map, procVars, ka, rpc, monVars>>

Statuses == {"Online", "Syncing", "Offline", "ReadyToJoin", "Error"}
Requests == [os : OS, inc : 1..MaxStarts, status : Statuses]

-----------------------------------------------------------------------------
(* The map of a process and its references *)

NoMap == [state |-> "none", ref |-> 0]

\* clusterMapGetObjectServiceMap finds the map as long as os_map is set, one
\* that is being freed included.
CanGet(p) == map[p].state \in {"live", "freeing"}
Get(p)    == map' = [map EXCEPT ![p].ref = @ + 1]

\* clusterMapPutObjectServiceMap frees the map of the last reference before it
\* takes the lock to unset os_map.
Put(p) == map' = [map EXCEPT ![p].ref = @ - 1,
                             ![p].state = IF map[p].ref = 1 /\ @ = "live" THEN "freeing" ELSE @]

Unset(p) == /\ map[p].state = "freeing"
            /\ map' = [map EXCEPT ![p].state = "none"]
            /\ UNCHANGED <<procVars, ka, rpc, monVars>>

-----------------------------------------------------------------------------
(* The client of an object service *)

\* clientOnClose answers what is waiting; an answer that has been read may
\* still be on its way to the callback, and a request that is linked and not written
\* may yet be taken back.
Failed(o) == IF rpc[o].kind \in {"asked", "fetching"} THEN {"failed"}
             ELSE IF rpc[o].kind \in {"answered", "mapped"} THEN {rpc[o].kind, "failed"}
             ELSE {rpc[o].kind}

\* The connection closes.  What it carried to Mon is handled or lost.
Disconnect(o) ==
    /\ rpc[o].up
    /\ \E k \in Failed(o) : rpc' = [rpc EXCEPT ![o].up = FALSE, ![o].kind = k]
    /\ inbox' \in {inbox, {r \in inbox : r.os # o}}
    /\ UNCHANGED <<map, procVars, ka, mon, monStatus, handling>>

-----------------------------------------------------------------------------
(* House keeping *)

NoWorker == [status |-> "none", linked |-> FALSE, counter |-> 0]

\* houseKeepingAddWorker
AddWorker(o) == hk' = [hk EXCEPT ![o] = [status |-> "Waiting", linked |-> TRUE, counter |-> Interval]]

\* houseKeepingWorkerThread, once a second under worker_list_lock: a worker
\* whose counter reaches 0 becomes a job of work_tp.  (A thread that is about to free its
\* argument a second time does so before the worker's interval is over.)
Tick(o) ==
    /\ hk[o].linked /\ hk[o].status = "Waiting" /\ ka[o].cb # "free" /\ ka[o].second # "free"
    /\ IF hk[o].counter = 1
       THEN /\ hk' = [hk EXCEPT ![o].counter = 0, ![o].status = "Busy"]
            /\ ka' = [ka EXCEPT ![o].worker = "queued"]
       ELSE /\ hk' = [hk EXCEPT ![o].counter = @ - 1]
            /\ UNCHANGED ka
    /\ UNCHANGED <<map, life, disk, rpc, monVars>>

\* houseKeepingWorkerDoCallback asserts that the worker is owed its callback, and
\* writes the counter, then the status, without the lock.
Asserted(o) == hk[o].status = "Busy" /\ hk[o].counter = 0
Rearm(o)    == hk' = [hk EXCEPT ![o].counter = Interval]
Release(o)  == hk' = [hk EXCEPT ![o].status = IF @ = "freed" THEN @ ELSE "Waiting"]

\* The threads of work_tp that are inside a job of the keep-alive.
InUse(o) == ka[o].late + ka[o].sync
            + (IF ka[o].worker \in {"idle", "queued"} THEN 0 ELSE 1)
            + (IF ka[o].cb = "idle" THEN 0 ELSE 1)
            + (IF ka[o].second \in {"none", "done"} THEN 0 ELSE 1)

-----------------------------------------------------------------------------
(* clusterMapKeepAliveHouseKeepingWorker, on a thread of work_tp *)

WorkerGet(o) == /\ ka[o].worker = "queued" /\ CanGet(o) /\ InUse(o) < Threads
                /\ Get(o)
                /\ ka' = [ka EXCEPT ![o].worker = "got"]
                /\ UNCHANGED <<procVars, rpc, monVars>>

\* sendRequest links the request ...
WorkerLink(o) == /\ ka[o].worker = "got" /\ rpc[o].up
                 /\ ka' = [ka EXCEPT ![o].worker = "linked"]
                 /\ UNCHANGED <<map, procVars, rpc, monVars>>

\* ... and writes it: it is accepted.  The thread still has to put the map: by then the
\* answer may have been handled and the worker's next run begun.
WorkerWrite(o) ==
    /\ ka[o].worker = "linked" /\ rpc[o].up
    /\ rpc' = [rpc EXCEPT ![o].kind = "asked"]
    /\ inbox' = inbox \cup {[os |-> o, inc |-> life[o].starts, status |-> ka[o].req]}
    /\ ka' = [ka EXCEPT ![o].worker = "idle", ![o].late = @ + 1]
    /\ UNCHANGED <<map, procVars, mon, monStatus, handling>>

LatePut(o) == /\ ka[o].late > 0
              /\ Put(o)
              /\ ka' = [ka EXCEPT ![o].late = @ - 1]
              /\ UNCHANGED <<procVars, rpc, monVars>>

\* There is no connection, or the write is refused: Offline, put the map, ReadyToJoin,
\* callback.
WorkerRefused(o) == /\ ka[o].worker \in {"got", "linked"} /\ ~rpc[o].up
                    /\ Put(o)
                    /\ ka' = [ka EXCEPT ![o].worker = "refused", ![o].own = "Offline"]
                    /\ UNCHANGED <<procVars, rpc, monVars>>

\* Mutant: a refused request leaves the worker without its callback.
WorkerGiveUpSilently(o) == /\ ka[o].worker = "refused"
                           /\ ka' = [ka EXCEPT ![o].worker = "idle", ![o].req = "ReadyToJoin"]
                           /\ UNCHANGED <<map, procVars, rpc, monVars>>

WorkerGiveUp(o) == /\ ka[o].worker = "refused" /\ Asserted(o)
                   /\ ka' = [ka EXCEPT ![o].worker = "rearm", ![o].req = "ReadyToJoin"]
                   /\ UNCHANGED <<map, procVars, rpc, monVars>>

WorkerRearm(o) == /\ ka[o].worker = "rearm"
                  /\ Rearm(o)
                  /\ ka' = [ka EXCEPT ![o].worker = "release"]
                  /\ UNCHANGED <<map, life, disk, rpc, monVars>>

WorkerRelease(o) == /\ ka[o].worker = "release"
                    /\ Release(o)
                    /\ ka' = [ka EXCEPT ![o].worker = "idle"]
                    /\ UNCHANGED <<map, life, disk, rpc, monVars>>

Worker(o) == \/ WorkerGet(o) \/ WorkerLink(o) \/ WorkerWrite(o) \/ WorkerRefused(o)
             \/ WorkerGiveUp(o) \/ WorkerRearm(o) \/ WorkerRelease(o)

-----------------------------------------------------------------------------
(* The thread of a request that clientOnClose has answered before sendRequest *)
(* returns: the write is refused all the same, and the worker calls back and  *)
(* frees the argument, both of which the request's callback does too          *)

\* clientOnClose finds the request linked.
DrainLinked(o) == /\ ka[o].worker = "linked" /\ ~rpc[o].up
                  /\ rpc' = [rpc EXCEPT ![o].kind = "failed"]
                  /\ ka' = [ka EXCEPT ![o].worker = "idle", ![o].second = "linked"]
                  /\ UNCHANGED <<map, procVars, monVars>>

SecondRefused(o) == /\ ka[o].second = "linked"
                    /\ Put(o)
                    /\ ka' = [ka EXCEPT ![o].second = "refused", ![o].own = "Offline"]
                    /\ UNCHANGED <<procVars, rpc, monVars>>

SecondGiveUp(o) == /\ ka[o].second = "refused" /\ Asserted(o)
                   /\ ka' = [ka EXCEPT ![o].second = "rearm", ![o].req = "ReadyToJoin"]
                   /\ UNCHANGED <<map, procVars, rpc, monVars>>

SecondRearm(o) == /\ ka[o].second = "rearm"
                  /\ Rearm(o)
                  /\ ka' = [ka EXCEPT ![o].second = "release"]
                  /\ UNCHANGED <<map, life, disk, rpc, monVars>>

\* The request's callback has come to its end, and freed the argument.
CallbackOver(o) == rpc[o].kind # "failed" /\ ka[o].cb = "idle"

\* Whoever of the two comes last frees the argument again.
SecondRelease(o) ==
    /\ ka[o].second = "release"
    /\ Release(o)
    /\ ka' = [ka EXCEPT ![o].second = IF CallbackOver(o) THEN "free" ELSE "done"]
    /\ UNCHANGED <<map, life, disk, rpc, monVars>>

Second(o) == SecondRefused(o) \/ SecondGiveUp(o) \/ SecondRearm(o) \/ SecondRelease(o)

-----------------------------------------------------------------------------
(* clusterMapOSKeepAliveCallback, on a thread of work_tp for an answer and on *)
(* a thread of the client for a failure                                       *)

CallbackGet(o) ==
    /\ ka[o].cb = "idle" /\ CanGet(o)
    /\ \/ rpc[o].kind = "answered" /\ InUse(o) < Threads
       \/ rpc[o].kind = "failed" /\ life[o].phase # "fetching"
    /\ Get(o)
    /\ ka' = [ka EXCEPT ![o].cb = IF rpc[o].kind = "answered" THEN "ok" ELSE "error"]
    /\ rpc' = [rpc EXCEPT ![o].kind = "none"]
    /\ UNCHANGED <<procVars, monVars>>

\* Mutant: the path of an error forgets to put the map.
CallbackErrorLeaking(o) ==
    /\ ka[o].cb = "error"
    /\ ka' = [ka EXCEPT ![o].cb  = "rearm",
                        ![o].own = IF ka[o].req = "Syncing" THEN @ ELSE "Offline",
                        ![o].req = IF @ = "Syncing" THEN @ ELSE "ReadyToJoin"]
    /\ UNCHANGED <<map, procVars, rpc, monVars>>

\* An error does not end a synchronisation.
CallbackError(o) ==
    /\ ka[o].cb = "error"
    /\ ka' = [ka EXCEPT ![o].cb  = "put",
                        ![o].own = IF ka[o].req = "Syncing" THEN @ ELSE "Offline",
                        ![o].req = IF @ = "Syncing" THEN @ ELSE "ReadyToJoin"]
    /\ UNCHANGED <<map, procVars, rpc, monVars>>

\* The answer's status is not looked at.
CallbackOk(o) ==
    /\ ka[o].cb = "ok" /\ (ka[o].req = "ReadyToJoin" => Asserted(o))
    /\ ka' = IF ka[o].req = "ReadyToJoin"
             THEN [ka EXCEPT ![o].cb = "rearmSync", ![o].req = "Syncing", ![o].own = "Syncing"]
             ELSE [ka EXCEPT ![o].cb = "put"]
    /\ UNCHANGED <<map, procVars, rpc, monVars>>

CallbackPut(o) == /\ ka[o].cb = "put" /\ Asserted(o)
                  /\ Put(o)
                  /\ ka' = [ka EXCEPT ![o].cb = "rearm"]
                  /\ UNCHANGED <<procVars, rpc, monVars>>

CallbackRearm(o) ==
    /\ ka[o].cb \in {"rearm", "rearmSync"}
    /\ Rearm(o)
    /\ ka' = [ka EXCEPT ![o].cb = IF @ = "rearm" THEN "release" ELSE "releaseSync"]
    /\ UNCHANGED <<map, life, disk, rpc, monVars>>

\* With the worker released the thread goes on to syncMasterNode, with its
\* reference; the next keep-alive may run meanwhile.
CallbackRelease(o) ==
    /\ ka[o].cb \in {"release", "releaseSync"}
    /\ Release(o)
    /\ ka' = [ka EXCEPT ![o].cb   = IF ka[o].second = "done" THEN "free" ELSE "idle",
                        ![o].sync = IF ka[o].cb = "releaseSync" THEN @ + 1 ELSE @]
    /\ UNCHANGED <<map, life, disk, rpc, monVars>>

Callback(o) == \/ CallbackGet(o) \/ CallbackError(o) \/ CallbackOk(o)
               \/ CallbackPut(o) \/ CallbackRearm(o) \/ CallbackRelease(o)

\* Mutant: the end of the synchronisation is noted in the map alone.
SyncDoneUnreported(o) ==
    /\ ka[o].sync > 0
    /\ Put(o)
    /\ ka' = [ka EXCEPT ![o].sync = @ - 1, ![o].own = "Online"]
    /\ UNCHANGED <<procVars, rpc, monVars>>

\* clusterMapSyncMasterNodeCallback: the synchronisation is done.
SyncDone(o) == /\ ka[o].sync > 0
               /\ Put(o)
               /\ ka' = [ka EXCEPT ![o].sync = @ - 1, ![o].own = "Online", ![o].req = "Online"]
               /\ UNCHANGED <<procVars, rpc, monVars>>

-----------------------------------------------------------------------------
(* The process of an object service *)

Idle == [worker |-> "idle", late |-> 0, cb |-> "idle", sync |-> 0,
         second |-> "none", req |-> "ReadyToJoin", own |-> "Offline"]
NoClient == [up |-> FALSE, kind |-> "none", status |-> "Offline"]

\* The end of initClusterMapObjectService: reference, req_status, addWorker.
Joined(o, own) ==
    /\ map' = [map EXCEPT ![o] = [state |-> "live", ref |-> 1]]
    /\ ka' = [ka EXCEPT ![o] = [Idle EXCEPT !.own = own]]
    /\ AddWorker(o)

\* initServerContextOs with a map file that can be parsed.
Start(o) == /\ life[o].phase = "down" /\ life[o].starts < MaxStarts /\ mon.phase = "up"
            /\ disk[o].file = "whole"
            /\ life' = [life EXCEPT ![o] = [phase |-> "inited", starts |-> @.starts + 1]]
            /\ rpc' = [rpc EXCEPT ![o].up = TRUE]
            /\ Joined(o, disk[o].status)
            /\ UNCHANGED <<disk, monVars>>

\* With none, or one that ends within its header, the map is asked of Mon.
StartFetch(o) ==
    /\ life[o].phase = "down" /\ life[o].starts < MaxStarts /\ mon.phase = "up"
    /\ disk[o].file \in {"none", "stub"}
    /\ life' = [life EXCEPT ![o] = [phase |-> "fetching", starts |-> @.starts + 1]]
    /\ rpc' = [rpc EXCEPT ![o].up = TRUE, ![o].kind = "fetching"]
    /\ UNCHANGED <<map, disk, hk, ka, monVars>>

\* One that ends later has its bsets freed twice (ClusterMap.c:215, then 292).
StartTorn(o) == /\ life[o].phase = "down" /\ life[o].starts < MaxStarts /\ mon.phase = "up"
                /\ disk[o].file = "torn"
                /\ life' = [life EXCEPT ![o].starts = @ + 1]
                /\ UNCHANGED <<map, disk, hk, ka, rpc, monVars>>

\* clusterMapFetchOSMapCallback: the map of the response, with reference 0.
Fetched(o) ==
    /\ life[o].phase = "fetching" /\ rpc[o].kind = "mapped"
    /\ life' = [life EXCEPT ![o].phase = "fetched"]
    /\ map' = [map EXCEPT ![o] = [state |-> "live", ref |-> 0]]
    /\ ka' = [ka EXCEPT ![o].own = rpc[o].status]
    /\ rpc' = [rpc EXCEPT ![o].kind = "none"]
    /\ UNCHANGED <<disk, hk, monVars>>

\* fileUtilWriteAFile truncates the file and then writes it, perhaps in parts.
SaveTruncate(o) ==
    /\ life[o].phase = "fetched"
    /\ life' = [life EXCEPT ![o].phase = IF disk[o].file = "stub" THEN "resaving" ELSE "saving"]
    /\ disk' = [disk EXCEPT ![o].file = "stub"]
    /\ UNCHANGED <<map, hk, ka, rpc, monVars>>

SavePart(o) ==
    /\ life[o].phase \in {"saving", "resaving"} /\ disk[o].file = "stub"
    /\ disk' = [disk EXCEPT ![o].file = "torn"]
    /\ UNCHANGED <<map, life, hk, ka, rpc, monVars>>

\* After such a file initClusterMapObjectService returns at once, with no
\* reference and no worker.
SaveRest(o) ==
    /\ life[o].phase \in {"saving", "resaving"}
    /\ life' = [life EXCEPT ![o].phase = "inited"]
    /\ disk' = [disk EXCEPT ![o] = [file |-> "whole", status |-> ka[o].own]]
    /\ IF life[o].phase = "saving" THEN Joined(o, ka[o].own) ELSE UNCHANGED <<map, ka, hk>>
    /\ UNCHANGED <<rpc, monVars>>

\* initServerContextOs gets the map for the service's own host and port.
InitGet(o) == /\ life[o].phase = "inited" /\ CanGet(o)
              /\ Get(o)
              /\ life' = [life EXCEPT ![o].phase = "checked"]
              /\ UNCHANGED <<disk, hk, ka, rpc, monVars>>

InitPut(o) == /\ life[o].phase = "checked"
              /\ Put(o)
              /\ life' = [life EXCEPT ![o].phase = "up"]
              /\ UNCHANGED <<disk, hk, ka, rpc, monVars>>

Startup(o) == Fetched(o) \/ SaveTruncate(o) \/ SavePart(o) \/ SaveRest(o) \/ InitGet(o) \/ InitPut(o)

\* The process is gone; its requests may still reach Mon.
Dead(o) == /\ life' = [life EXCEPT ![o].phase = "down"]
           /\ map' = [map EXCEPT ![o] = NoMap]
           /\ hk' = [hk EXCEPT ![o] = NoWorker]
           /\ ka' = [ka EXCEPT ![o] = Idle]
           /\ rpc' = [rpc EXCEPT ![o] = NoClient]

\* A crash, or an abort at an assertion.
Crash(o) == /\ life[o].phase # "down"
            /\ Dead(o)
            /\ inbox' \in {inbox, {r \in inbox : r.os # o}}
            /\ UNCHANGED <<disk, mon, monStatus, handling>>

\* A callback that its worker does not owe fails the assertion of
\* houseKeepingWorkerDoCallback, and an argument that is freed twice is the end as well.
Dies(o) == /\ \/ /\ ~Asserted(o)
                 /\ \/ "refused" \in {ka[o].worker, ka[o].second}
                    \/ ka[o].cb = "put" \/ (ka[o].cb = "ok" /\ ka[o].req = "ReadyToJoin")
              \/ "free" \in {ka[o].cb, ka[o].second}
           /\ Dead(o)
           /\ UNCHANGED <<disk, monVars>>

\* Without a map initClusterMapObjectService dereferences NULL or the assertion
\* in ServiceOSStart fails.
FetchFailed(o) == /\ life[o].phase = "fetching" /\ rpc[o].kind = "failed"
                  /\ Dead(o)
                  /\ UNCHANGED <<disk, monVars>>

\* destroy: removeWorker unlinks the worker under the lock ...
Stop(o) == /\ life[o].phase = "up" /\ hk[o].linked
           /\ life' = [life EXCEPT ![o].phase = "stopping"]
           /\ hk' = [hk EXCEPT ![o].linked = FALSE]
           /\ UNCHANGED <<map, disk, ka, rpc, monVars>>

\* References to the map beyond the one destroy disposes of.
Holders(o) == ka[o].late + ka[o].sync
              + (IF ka[o].worker \in {"got", "linked"} THEN 1 ELSE 0)
              + (IF ka[o].second = "linked" THEN 1 ELSE 0)
              + (IF ka[o].cb \in {"ok", "error", "put", "rearmSync", "releaseSync"} THEN 1 ELSE 0)
              + (IF life[o].phase = "checked" THEN 1 ELSE 0)

\* Mutant: removeWorker does not wait.
StopFreeAtOnce(o) == /\ life[o].phase = "stopping"
                     /\ life' = [life EXCEPT ![o].phase = "stopped"]
                     /\ hk' = [hk EXCEPT ![o].status = "freed"]
                     /\ map' = [map EXCEPT ![o].state = "freed"]
                     /\ UNCHANGED <<disk, ka, rpc, monVars>>

\* ... waits for its callback and frees it; the map is freed whoever has it.
StopFree(o) == /\ life[o].phase = "stopping" /\ hk[o].status # "Busy"
               /\ life' = [life EXCEPT ![o].phase = "stopped"]
               /\ hk' = [hk EXCEPT ![o].status = "freed"]
               /\ map' = [map EXCEPT ![o].state = "freed"]
               /\ UNCHANGED <<disk, ka, rpc, monVars>>

\* The pools are destroyed, and drain; the process ends.
Exit(o) == /\ life[o].phase = "stopped" /\ ka[o].worker = "idle" /\ InUse(o) = 0
           /\ Dead(o)
           /\ UNCHANGED <<disk, monVars>>

Shutdown(o) == StopFree(o) \/ Exit(o)

-----------------------------------------------------------------------------
(* Mon *)

\* MonStatMap: the row of the status Mon has, None for a service it does not
\* know, and the column of the status reported.
StatMap(mine, reported) ==
    IF mine \in {"None", "ReadyToJoin"} \/ (mine = "Error" /\ reported # "ReadyToJoin") THEN "Error"
    ELSE IF reported = "ReadyToJoin" THEN "Syncing" ELSE reported

\* ClusterActionKeepAliveObjectService gets the map ...
MonBegin(o) == /\ mon.phase = "up" /\ CanGet(Mon)
               /\ \E r \in inbox : /\ r.os = o
                                   /\ inbox' = inbox \ {r}
                                   /\ handling' = handling \cup {r}
               /\ Get(Mon)
               /\ UNCHANGED <<procVars, ka, rpc, mon, monStatus>>

\* ... takes the new status, puts the map and answers the process that asked,
\* if that is still there.
MonEnd(o) ==
    \E r \in handling :
        LET status == StatMap(IF o \in Known THEN monStatus[o] ELSE "None", r.status)
        IN  /\ r.os = o
            /\ handling' = handling \ {r}
            /\ monStatus' = IF o \in Known THEN [monStatus EXCEPT ![o] = status] ELSE monStatus
            /\ Put(Mon)
            /\ rpc' = IF r.inc = life[o].starts /\ rpc[o].up /\ rpc[o].kind = "asked"
                      THEN [rpc EXCEPT ![o].kind = "answered", ![o].status = status] ELSE rpc
            /\ UNCHANGED <<procVars, ka, mon, inbox>>

\* ClusterActionGetLatestObjectServiceMap: the response holds the map.
MonFetch(o) == /\ mon.phase = "up" /\ CanGet(Mon) /\ mon.views < MaxViews
               /\ o \in Known /\ rpc[o].up /\ rpc[o].kind = "fetching"
               /\ Get(Mon)
               /\ mon' = [mon EXCEPT !.views = @ + 1]
               /\ rpc' = [rpc EXCEPT ![o].kind = "mapped", ![o].status = monStatus[o]]
               /\ UNCHANGED <<procVars, ka, monStatus, inbox, handling>>

\* ClusterActionStatus, of any client, does as well.
MonView == /\ mon.phase = "up" /\ CanGet(Mon) /\ mon.views < MaxViews
           /\ Get(Mon)
           /\ mon' = [mon EXCEPT !.views = @ + 1]
           /\ UNCHANGED <<procVars, ka, rpc, monStatus, inbox, handling>>

\* free_response, once the response has been written.
MonFreeView == /\ mon.views > 0
               /\ Put(Mon)
               /\ mon' = [mon EXCEPT !.views = @ - 1]
               /\ UNCHANGED <<procVars, ka, rpc, monStatus, inbox, handling>>

\* Every connection of Mon closes.
CloseAll == \E k \in [OS -> {"none", "asked", "fetching", "answered", "mapped", "failed"}] :
                /\ \A o \in OS : k[o] \in Failed(o)
                /\ rpc' = [o \in OS |-> [rpc[o] EXCEPT !.up = FALSE, !.kind = k[o]]]

\* ClusterActionStop posts stop_sem: server.destroy closes the connections ...
MonStop == /\ mon.phase = "up"
           /\ mon' = [mon EXCEPT !.phase = "stopping"]
           /\ CloseAll
           /\ inbox' = {}
           /\ UNCHANGED <<map, procVars, ka, monStatus, handling>>

\* ... and waits for the handlers; then clusterMapDestroy puts its reference ...
MonDestroy == /\ mon.phase = "stopping" /\ handling = {}
              /\ mon' = [mon EXCEPT !.phase = "destroying"]
              /\ Put(Mon)
              /\ UNCHANGED <<procVars, ka, rpc, monStatus, inbox, handling>>

\* ... and waits until the map is gone.
MonExit == /\ mon.phase = "destroying" /\ map[Mon].state = "none"
           /\ mon' = [mon EXCEPT !.phase = "down"]
           /\ UNCHANGED <<map, procVars, ka, rpc, monStatus, inbox, handling>>

MonCrash == /\ mon.phase # "down"
            /\ mon' = [mon EXCEPT !.phase = "down", !.views = 0]
            /\ map' = [map EXCEPT ![Mon] = NoMap]
            /\ CloseAll
            /\ inbox' = {} /\ handling' = {}
            /\ UNCHANGED <<procVars, ka, monStatus>>

\* initClusterMapMon: the file was written when every service was Offline.
MonStart == /\ mon.phase = "down" /\ mon.starts < MaxMonStarts
            /\ mon' = [mon EXCEPT !.phase = "up", !.starts = @ + 1]
            /\ map' = [map EXCEPT ![Mon] = [state |-> "live", ref |-> 1]]
            /\ monStatus' = [o \in Known |-> "Offline"]
            /\ UNCHANGED <<procVars, ka, rpc, inbox, handling>>

-----------------------------------------------------------------------------
Init == /\ map = [p \in OS \cup {Mon} |-> NoMap]
        /\ life = [o \in OS |-> [phase |-> "down", starts |-> 0]]
        /\ disk = [o \in OS |-> [file |-> IF o \in Known THEN "none" ELSE "whole",
                                 status |-> "Offline"]]
        /\ hk = [o \in OS |-> NoWorker]
        /\ ka = [o \in OS |-> Idle]
        /\ rpc = [o \in OS |-> NoClient]
        /\ mon = [phase |-> "down", starts |-> 0, views |-> 0]
        /\ monStatus = [o \in Known |-> "Offline"]
        /\ inbox = {} /\ handling = {}

MonHandler(o) == MonBegin(o) \/ MonEnd(o) \/ MonFetch(o)
MonShutdown   == MonDestroy \/ MonExit

Next == \/ \E o \in OS : \/ Tick(o) \/ Worker(o) \/ LatePut(o) \/ Callback(o) \/ SyncDone(o)
                         \/ DrainLinked(o) \/ Second(o) \/ Dies(o)
                         \/ Start(o) \/ StartFetch(o) \/ StartTorn(o) \/ Startup(o) \/ FetchFailed(o)
                         \/ Stop(o) \/ Shutdown(o) \/ Crash(o) \/ Disconnect(o)
                         \/ MonHandler(o)
        \/ MonView \/ MonFreeView \/ MonStop \/ MonShutdown \/ MonCrash \/ MonStart
        \/ \E p \in OS \cup {Mon} : Unset(p)

Spec == Init /\ [][Next]_vars

\* The threads of the services run, and a connection that stays up delivers.
\* Nobody has to start, stop, crash, disconnect or look at a service.  (Threads that do
\* not keep each other from running share a condition.)
Fairness ==
    /\ \A o \in OS : /\ WF_vars(Tick(o)) /\ WF_vars(Worker(o)) /\ WF_vars(Callback(o))
                     /\ WF_vars(LatePut(o) \/ Second(o) \/ Dies(o)) /\ WF_vars(SyncDone(o))
                     /\ WF_vars(Startup(o) \/ Shutdown(o) \/ Unset(o)) /\ WF_vars(MonHandler(o))
    /\ WF_vars(MonFreeView \/ MonShutdown \/ Unset(Mon))

FairSpec == Spec /\ Fairness

-----------------------------------------------------------------------------
(* Properties *)

TypeOK ==
    /\ map \in [OS \cup {Mon} -> [state : {"none", "live", "freeing", "freed"}, ref : Nat]]
    /\ life \in [OS -> [phase : {"down", "fetching", "fetched", "saving", "resaving", "inited",
                                 "checked", "up", "stopping", "stopped"}, starts : 0..MaxStarts]]
    /\ disk \in [OS -> [file : {"none", "stub", "torn", "whole"}, status : Statuses]]
    /\ hk \in [OS -> [status : {"none", "Waiting", "Busy", "freed"}, linked : BOOLEAN,
                      counter : 0..Interval]]
    /\ ka \in [OS -> [worker : {"idle", "queued", "got", "linked", "refused", "rearm", "release"},
                      late : 0..Threads, sync : 0..Threads,
                      cb : {"idle", "ok", "error", "put", "rearm", "release",
                            "rearmSync", "releaseSync", "free"},
                      second : {"none", "linked", "refused", "rearm", "release", "done", "free"},
                      req : Statuses, own : Statuses]]
    /\ rpc \in [OS -> [up : BOOLEAN, status : Statuses,
                       kind : {"none", "asked", "fetching", "answered", "mapped", "failed"}]]
    /\ mon \in [phase : {"up", "stopping", "destroying", "down"}, starts : 0..MaxMonStarts,
                views : 0..MaxViews]
    /\ monStatus \in [Known -> Statuses]
    /\ inbox \subseteq Requests /\ handling \subseteq Requests

\* The references of a live map are its users and the one of its owner: the
\* service once it has joined, Mon until clusterMapDestroy.  A get or a put too
\* many or too few on any path of the keep-alive breaks it.  And nobody has a reference
\* to a map that its last put is freeing, or takes one: the order in which Mon stops keeps
\* the window in clusterMapPutObjectServiceMap shut.  (Of the map an object service frees in
\* destroy this does not hold: a thread in LatePut or in a synchronisation may still use it.)
RefExact ==
    /\ TypeOK
    /\ \A p \in OS \cup {Mon} : map[p].state = "freeing" => map[p].ref = 0
    /\ \A o \in OS : map[o].state = "live" =>
           map[o].ref = Holders(o) + (IF hk[o].status = "none" THEN 0 ELSE 1)
    /\ map[Mon].state = "live" =>
           map[Mon].ref = Cardinality(handling) + mon.views
                          + (IF mon.phase \in {"up", "stopping"} THEN 1 ELSE 0)

\* Who owes the worker the callback: the job, the request, the thread that handles the
\* answer, or the thread whose request was refused after clientOnClose had answered it.
Owing(o) == {x \in {"worker", "request", "callback", "second"} :
                \/ x = "worker"   /\ ka[o].worker # "idle"
                \/ x = "request"  /\ rpc[o].kind \in {"asked", "answered", "failed"}
                                  /\ life[o].phase # "fetching"
                \/ x = "callback" /\ ka[o].cb \notin {"idle", "free"}
                \/ x = "second"   /\ ka[o].second \in {"linked", "refused", "rearm", "release"}}

\* The worker is Busy exactly while one party owes it the callback.  So the callback finds
\* what it asserts, removeWorker waits for the last one to touch the worker, and no second
\* keep-alive starts before the first is over; nor does a second synchronisation.  The one
\* exception is a connection that closes between the two halves of sendRequest: two parties
\* owe the callback then, and whoever comes second meets the assertion or frees the
\* argument again (OneCallback does not hold).  Even then a worker that is Busy is owed one,
\* so that removeWorker does not wait for ever.
CallbackOwed ==
    \A o \in OS :
        /\ hk[o].status = "Busy" => Owing(o) # {}
        /\ ka[o].sync <= 1
        /\ IF ka[o].second = "none"
           THEN /\ Cardinality(Owing(o)) = IF hk[o].status = "Busy" THEN 1 ELSE 0
                /\ hk[o].status = "Busy" => ka[o].worker = "release" \/ ka[o].cb \in {"release", "releaseSync"}
                                               \/ hk[o].counter = 0
                /\ hk[o].status = "Waiting" => hk[o].counter \in 1..Interval
           ELSE ~rpc[o].up

\* Nobody calls back a worker that is not owed it.  This does not hold (Client.c:349-372,
\* ClusterMapObjectService.c:253-260).
OneCallback == \A o \in OS : ka[o].second = "none"

\* A service that has joined and stays connected is Online in Mon's map in the
\* end, and stays so, late requests of its earlier processes notwithstanding.
EventuallyOnline ==
    \A o \in Known : <>[](hk[o].linked /\ rpc[o].up) => <>[](monStatus[o] = "Online")

\* A process that is stopped ends: removeWorker of a service returns, and
\* clusterMapDestroy of Mon, whoever still holds its map.  (Nothing but its end takes a
\* process out of these phases, so this is "stopping leads to down".)
StopsReturn == /\ \A o \in OS : []<>(life[o].phase \notin {"stopping", "stopped"})
               /\ []<>(mon.phase \notin {"stopping", "destroying"})
=============================================================================
