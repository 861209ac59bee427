--------------------------- MODULE ClusterProofs ---------------------------
(***************************************************************************)
(* Proofs about Mon and its object services, for any number of services,   *)
(* any interval and any number of threads: the references of the object    *)
(* service maps are exact, and the house keeping worker is owed one        *)
(* callback while it is Busy, or two of a request that was answered before *)
(* it was refused.                                                         *)
(***************************************************************************)
EXTENDS Cluster, FiniteSetTheorems, TLAPS

Early == {"down", "fetching", "fetched", "saving", "resaving"}

\* Its service has a worker, and with it the reference it was born with.
Owner(o) == IF hk[o].status = "none" THEN 0 ELSE 1

\* Who owes the worker its callback: the job, the request, the thread with the answer.
Asking(o) == rpc[o].kind \in {"asked", "answered", "failed"} /\ life[o].phase # "fetching"
Owed(o) ==
    ka[o].second = "none" =>
        /\ hk[o].status = "Busy" <=> ka[o].worker # "idle" \/ Asking(o) \/ ka[o].cb # "idle"
        /\ ka[o].worker # "idle" => ka[o].cb = "idle"
        /\ ka[o].worker # "idle" \/ ka[o].cb # "idle" => ~Asking(o)
        /\ ka[o].cb # "free"

\* A request that clientOnClose has answered and whose write was refused then: the thread of
\* the write and the request's callback both call the worker back.  Until the first has, the
\* worker stays Busy; the second one is the end of the process.
Calling(o) == rpc[o].kind = "failed" \/ ka[o].cb \notin {"idle", "free"}
Acting(o)  == ka[o].second \in {"linked", "refused", "rearm", "release"}
Ending(o)  == "free" \in {ka[o].cb, ka[o].second}
Doubled(o) ==
    ka[o].second # "none" =>
        /\ ~rpc[o].up /\ rpc[o].kind \in {"failed", "none"} /\ ka[o].worker # "linked"
        /\ ka[o].cb \notin {"ok", "rearmSync", "releaseSync"}
        /\ rpc[o].kind = "failed" => ka[o].cb = "idle"
        /\ hk[o].status # "none"
        /\ Calling(o) /\ Acting(o) => ka[o].worker = "idle" /\ hk[o].status = "Busy"
        /\ Calling(o) /\ (ka[o].second = "release" \/ (Acting(o) /\ ka[o].cb = "release"))
              => hk[o].counter = Interval
        /\ ka[o].second = "done" => Calling(o) \/ ka[o].cb = "free"
        /\ ka[o].second = "free" => ~Calling(o)
        /\ ka[o].cb = "free" => ka[o].second = "done"
        /\ Ending(o) => hk[o].status # "Busy"
        /\ ka[o].worker # "idle" => Ending(o) \/ hk[o].status = "Busy"
        /\ hk[o].status = "Waiting" => Ending(o) \/ hk[o].counter \in 1..Interval
        /\ ka[o].worker = "release" => hk[o].counter = Interval

\* The references of a service's map, in whichever state it is.
Exact(o) == map[o].ref = Holders(o) + Owner(o)

\* In which phases of its process a service has a map and a worker.
Phases(o) ==
    /\ life[o].phase \in {"fetched", "saving", "resaving", "inited", "checked"} => map[o].state = "live"
    /\ life[o].phase \in {"down", "fetching"} => map[o].state = "none"
    /\ life[o].phase \in Early => hk[o].status = "none"
    /\ life[o].phase = "stopping" => hk[o].status \in {"Waiting", "Busy"}
    /\ life[o].phase # "down" => life[o].starts # 0
    /\ hk[o].status \in {"Waiting", "Busy"} => map[o].state = "live"
    /\ life[o].phase = "stopped" <=> hk[o].status = "freed"
    /\ life[o].phase = "stopped" <=> map[o].state = "freed"
    /\ hk[o].linked => hk[o].status \in {"Waiting", "Busy"} /\ life[o].phase \in {"inited", "checked", "up"}
    /\ hk[o].status = "none" => ka[o].late = 0 /\ ka[o].sync = 0 /\ ka[o].second = "none"

\* The one request of a service's client.
Calls(o) ==
    /\ rpc[o].kind \in {"fetching", "mapped"} => life[o].phase = "fetching"
    /\ life[o].phase = "fetching" => rpc[o].kind \in {"fetching", "mapped", "failed"}
    /\ life[o].phase = "down" => ~rpc[o].up /\ rpc[o].kind = "none"
    /\ ka[o].worker = "refused" => ~rpc[o].up

\* The worker's counter: 0 while the callback is owed, the interval once it was rearmed.
Counters(o) ==
    LET rearmed == ka[o].worker = "release" \/ ka[o].cb \in {"release", "releaseSync"}
    IN  ka[o].second = "none" =>
            /\ hk[o].status = "Waiting" => hk[o].counter \in 1..Interval
            /\ rearmed => hk[o].counter = Interval
            /\ hk[o].status = "Busy" /\ ~rearmed => hk[o].counter = 0

\* One synchronisation; the next ReadyToJoin is accepted after it ended, or never, the
\* client being refused by then.
Syncing(o) == ka[o].sync + (IF ka[o].cb \in {"rearmSync", "releaseSync"} THEN 1 ELSE 0)
Syncs(o) ==
    /\ Syncing(o) <= 1
    /\ Syncing(o) = 1 => \/ ka[o].req = "Syncing"
                         \/ ~rpc[o].up /\ rpc[o].kind \notin {"asked", "answered"} /\ ka[o].cb # "ok"

\* The jobs of the keep-alive have a thread of work_tp each.
Pooled(o) ==
    ka[o].late + ka[o].sync + (IF ka[o].worker \in {"idle", "queued"} THEN 0 ELSE 1)
        + (IF ka[o].cb \in {"ok", "rearmSync", "releaseSync"} THEN 1 ELSE 0) <= Threads

\* A map that its last put frees has no reference.
Freed(p) == map[p].state \in {"none", "freeing"} => map[p].ref = 0

Local(o) == /\ Owed(o) /\ Exact(o) /\ Phases(o) /\ Calls(o) /\ Counters(o) /\ Syncs(o) /\ Pooled(o)
            /\ Freed(o) /\ Doubled(o)

\* Requests on their way to Mon and in its handlers: one of each process, and of a process
\* that lives only while it waits for the answer or when its connection has closed.
Sent == inbox \cup handling
OnePerProcess ==
    /\ inbox \cap handling = {} /\ IsFiniteSet(handling)
    /\ \A r, s \in Sent : r.os = s.os /\ r.inc = s.inc => r = s
    /\ \A r \in Sent : /\ r.inc <= life[r.os].starts
                       /\ r.inc = life[r.os].starts => rpc[r.os].kind = "asked" \/ ~rpc[r.os].up

\* The references of Mon's map, in whichever state it is.
MonExact ==
    /\ map[Mon].ref = Cardinality(handling) + mon.views
                      + (IF mon.phase \in {"up", "stopping"} THEN 1 ELSE 0)
    /\ Freed(Mon) /\ map[Mon].state # "freed"
    /\ mon.phase \in {"up", "stopping"} => map[Mon].state = "live"
    /\ mon.phase = "down" => map[Mon].state = "none"
    /\ mon.phase = "destroying" => handling = {}

\* TypeOK but for the bounds of counters, which the rest gives.
Maps == [state : {"none", "live", "freeing", "freed"}, ref : Int]
Lives == [phase : {"down", "fetching", "fetched", "saving", "resaving", "inited", "checked", "up",
                   "stopping", "stopped"}, starts : 0..MaxStarts]
Disks == [file : {"none", "stub", "torn", "whole"}, status : Statuses]
Workers == [status : {"none", "Waiting", "Busy", "freed"}, linked : BOOLEAN, counter : 0..Interval]
KeepAlives == [worker : {"idle", "queued", "got", "linked", "refused", "rearm", "release"},
               late : Nat, sync : Nat,
               cb : {"idle", "ok", "error", "put", "rearm", "release", "rearmSync", "releaseSync",
                     "free"},
               second : {"none", "linked", "refused", "rearm", "release", "done", "free"},
               req : Statuses, own : Statuses]
Clients == [up : BOOLEAN, status : Statuses,
            kind : {"none", "asked", "fetching", "answered", "mapped", "failed"}]
Mons == [phase : {"up", "stopping", "destroying", "down"}, starts : 0..MaxMonStarts, views : 0..MaxViews]
Types ==
    /\ map \in [OS \cup {Mon} -> Maps] /\ life \in [OS -> Lives] /\ disk \in [OS -> Disks]
    /\ hk \in [OS -> Workers] /\ ka \in [OS -> KeepAlives] /\ rpc \in [OS -> Clients]
    /\ mon \in Mons
    /\ monStatus \in [Known -> Statuses]
    /\ inbox \subseteq Requests /\ handling \subseteq Requests

Services == \A o \in OS : Local(o)
IInv == Types /\ Services /\ OnePerProcess /\ MonExact

-----------------------------------------------------------------------------
(* Functions and fields *)

LEMMA Written ==
  ASSUME NEW S, NEW T, NEW f \in [S -> T], NEW o, NEW r \in T
  PROVE  [f EXCEPT ![o] = r] \in [S -> T]
  OBVIOUS

\* What a step leaves of a service keeps its part of the invariant.
LEMMA Apart ==
  ASSUME NEW p \in OS, Local(p), map'[p] = map[p], life'[p] = life[p], hk'[p] = hk[p],
         ka'[p] = ka[p], rpc'[p] = rpc[p]
  PROVE  Local(p)'
<1>1. Owed(p)' /\ Exact(p)'
  BY DEF Local, Owed, Asking, Exact, Holders, Owner
<1>2. Phases(p)' /\ Calls(p)' /\ Counters(p)'
  BY DEF Local, Phases, Calls, Counters, Early
<1>3. Syncs(p)' /\ Pooled(p)' /\ Freed(p)'
  BY DEF Local, Syncs, Syncing, Pooled, Freed
<1>4. Doubled(p)'
  BY DEF Local, Doubled, Calling, Acting, Ending
<1>5. QED BY <1>1, <1>2, <1>3, <1>4 DEF Local

LEMMA Sizes ==
  Interval \in Nat \ {0} /\ Threads \in Nat \ {0} /\ MaxStarts \in Nat \ {0} /\ MaxMonStarts \in Nat \ {0}
  /\ MaxViews \in Nat \ {0} /\ Mon \notin OS /\ Known \subseteq OS
  BY ClusterAssumption

\* The fields that the arithmetic and the case splits below are about.
Shape(o) ==
    /\ map[o].ref \in Int /\ life[o].starts \in Nat
    /\ hk[o].linked \in BOOLEAN /\ hk[o].counter \in 0..Interval
    /\ hk[o].status \in {"none", "Waiting", "Busy", "freed"}
    /\ ka[o].late \in Nat /\ ka[o].sync \in Nat
    /\ ka[o].worker \in {"idle", "queued", "got", "linked", "refused", "rearm", "release"}
    /\ ka[o].cb \in {"idle", "ok", "error", "put", "rearm", "release", "rearmSync", "releaseSync",
                      "free"}
    /\ ka[o].second \in {"none", "linked", "refused", "rearm", "release", "done", "free"}
    /\ rpc[o].kind \in {"none", "asked", "fetching", "answered", "mapped", "failed"}
    /\ rpc[o].up \in BOOLEAN

LEMMA Shaped == ASSUME Types, NEW o \in OS PROVE Shape(o)
  BY DEF Types, Shape, Maps, Lives, Workers, KeepAlives, Clients

-----------------------------------------------------------------------------
(* The steps of a service keep its part of the invariant: each leaves a      *)
(* handful of fields changed, which its first step lists.                    *)

LEMMA WorkerKeeps ==
  ASSUME Types, NEW o \in OS, Local(o), Worker(o)
  PROVE  Local(o)'
<1>1. CASE WorkerGet(o)
  <2>1. /\ map'[o].ref = map[o].ref + 1 /\ map'[o].state = map[o].state
        /\ ka'[o].worker = "got" /\ ka'[o].late = ka[o].late /\ ka'[o].sync = ka[o].sync
        /\ ka'[o].cb = ka[o].cb /\ ka'[o].second = ka[o].second /\ ka'[o].req = ka[o].req
        /\ life'[o] = life[o] /\ hk'[o] = hk[o] /\ rpc'[o] = rpc[o]
        /\ ka[o].worker = "queued" /\ map[o].state \in {"live", "freeing"} /\ InUse(o) < Threads
    BY <1>1 DEF Types, KeepAlives, Maps, WorkerGet, Get, CanGet, procVars
  <2>2. Owed(o)' /\ Phases(o)' /\ Calls(o)' /\ Counters(o)' /\ Freed(o)'
    BY <2>1, Shaped, Sizes DEF Shape, Local, Owed, Asking, Phases, Calls, Early, Counters, Freed
  <2>3. Exact(o)' /\ Syncs(o)' /\ Pooled(o)'
    BY <2>1, Shaped, Sizes DEF Shape, Local, Owed, Exact, Holders, Owner, Syncs, Syncing, Pooled,
          InUse
  <2>4. Doubled(o)'
    BY <2>1, Shaped, Sizes DEF Shape, Local, Doubled, Calling, Acting, Ending, Owed, Asking,
          Phases, Calls, Early, Counters
  <2>5. QED BY <2>2, <2>3, <2>4 DEF Local
<1>8. CASE WorkerLink(o)
  <2>1. /\ ka'[o].worker = "linked" /\ ka'[o].late = ka[o].late /\ ka'[o].sync = ka[o].sync
        /\ ka'[o].cb = ka[o].cb /\ ka'[o].second = ka[o].second /\ ka'[o].req = ka[o].req
        /\ map'[o] = map[o] /\ life'[o] = life[o] /\ hk'[o] = hk[o] /\ rpc'[o] = rpc[o]
        /\ ka[o].worker = "got" /\ rpc[o].up
    BY <1>8 DEF Types, KeepAlives, WorkerLink, procVars
  <2>2. Owed(o)' /\ Phases(o)' /\ Calls(o)' /\ Counters(o)' /\ Freed(o)'
    BY <2>1, Shaped, Sizes DEF Shape, Local, Owed, Asking, Phases, Calls, Early, Counters, Freed
  <2>3. Exact(o)' /\ Syncs(o)' /\ Pooled(o)'
    BY <2>1, Shaped, Sizes DEF Shape, Local, Owed, Exact, Holders, Owner, Syncs, Syncing, Pooled,
          InUse
  <2>4. Doubled(o)'
    BY <2>1, Shaped, Sizes DEF Shape, Local, Doubled, Calling, Acting, Ending, Owed, Asking, Phases,
          Calls, Early, Counters
  <2>5. QED BY <2>2, <2>3, <2>4 DEF Local
<1>2. CASE WorkerWrite(o)
  <2>1. /\ ka'[o].worker = "idle" /\ ka'[o].late = ka[o].late + 1 /\ ka'[o].sync = ka[o].sync
        /\ ka'[o].cb = ka[o].cb /\ ka'[o].second = ka[o].second /\ ka'[o].req = ka[o].req
        /\ rpc'[o].up = rpc[o].up /\ rpc'[o].kind = "asked"
        /\ map'[o] = map[o] /\ life'[o] = life[o] /\ hk'[o] = hk[o]
        /\ ka[o].worker = "linked" /\ rpc[o].up
    BY <1>2 DEF Types, KeepAlives, Clients, WorkerWrite, procVars
  <2>2. Owed(o)' /\ Phases(o)' /\ Calls(o)' /\ Counters(o)' /\ Freed(o)'
    BY <2>1, Shaped, Sizes DEF Shape, Local, Owed, Asking, Phases, Calls, Early, Counters, Freed
  <2>3. Exact(o)' /\ Syncs(o)' /\ Pooled(o)'
    BY <2>1, Shaped, Sizes DEF Shape, Local, Owed, Exact, Holders, Owner, Syncs, Syncing, Pooled,
          InUse
  <2>4. Doubled(o)'
    BY <2>1, Shaped, Sizes DEF Shape, Local, Doubled, Calling, Acting, Ending, Owed, Asking,
          Phases, Calls, Early, Counters
  <2>5. QED BY <2>2, <2>3, <2>4 DEF Local
<1>3. CASE WorkerRefused(o)
  <2>1. /\ map'[o].ref = map[o].ref - 1
        /\ map'[o].state = (IF map[o].ref = 1 /\ map[o].state = "live" THEN "freeing" ELSE map[o].state)
        /\ ka'[o].worker = "refused" /\ ka'[o].late = ka[o].late /\ ka'[o].sync = ka[o].sync
        /\ ka'[o].cb = ka[o].cb /\ ka'[o].second = ka[o].second /\ ka'[o].req = ka[o].req
        /\ life'[o] = life[o] /\ hk'[o] = hk[o] /\ rpc'[o] = rpc[o]
        /\ ka[o].worker \in {"got", "linked"} /\ ~rpc[o].up
    BY <1>3 DEF Types, KeepAlives, Maps, WorkerRefused, Put, procVars
  <2>2. map[o].ref > 1 /\ hk[o].status # "none"
    BY <2>1, Shaped DEF Shape, Local, Owed, Doubled, Exact, Holders, Owner, Phases
  <2>3. Owed(o)' /\ Phases(o)' /\ Calls(o)' /\ Counters(o)' /\ Freed(o)'
    BY <2>1, <2>2, Shaped, Sizes DEF Shape, Local, Owed, Asking, Phases, Calls, Early, Counters,
          Freed
  <2>4. Exact(o)' /\ Syncs(o)' /\ Pooled(o)'
    BY <2>1, <2>2, Shaped, Sizes DEF Shape, Local, Owed, Exact, Holders, Owner, Syncs, Syncing,
          Pooled, InUse
  <2>5. Doubled(o)'
    BY <2>1, <2>2, Shaped, Sizes DEF Shape, Local, Doubled, Calling, Acting, Ending, Owed, Asking,
          Phases, Calls, Early, Counters
  <2>6. QED BY <2>3, <2>4, <2>5 DEF Local
<1>4. CASE WorkerGiveUp(o)
  <2>1. /\ ka'[o].worker = "rearm" /\ ka'[o].late = ka[o].late /\ ka'[o].sync = ka[o].sync
        /\ ka'[o].cb = ka[o].cb /\ ka'[o].second = ka[o].second /\ ka'[o].req = "ReadyToJoin"
        /\ map'[o] = map[o] /\ life'[o] = life[o] /\ hk'[o] = hk[o] /\ rpc'[o] = rpc[o]
        /\ ka[o].worker = "refused"
    BY <1>4 DEF Types, KeepAlives, WorkerGiveUp, procVars
  <2>2. Owed(o)' /\ Phases(o)' /\ Calls(o)' /\ Counters(o)' /\ Freed(o)'
    BY <2>1, Shaped, Sizes DEF Shape, Local, Owed, Asking, Phases, Calls, Early, Counters, Freed
  <2>3. Exact(o)' /\ Syncs(o)' /\ Pooled(o)'
    BY <2>1, Shaped, Sizes DEF Shape, Local, Owed, Exact, Holders, Owner, Syncs, Syncing, Pooled,
          InUse, Doubled, Calling, Acting, Ending, Calls, Asking, Phases, Early
  <2>4. Doubled(o)'
    BY <2>1, Shaped, Sizes DEF Shape, Local, Doubled, Calling, Acting, Ending, Owed, Asking,
          Phases, Calls, Early, Counters
  <2>5. QED BY <2>2, <2>3, <2>4 DEF Local
<1>5. CASE WorkerRearm(o)
  <2>1. /\ hk'[o].status = hk[o].status /\ hk'[o].linked = hk[o].linked /\ hk'[o].counter = Interval
        /\ ka'[o].worker = "release" /\ ka'[o].late = ka[o].late /\ ka'[o].sync = ka[o].sync
        /\ ka'[o].cb = ka[o].cb /\ ka'[o].second = ka[o].second /\ ka'[o].req = ka[o].req
        /\ map'[o] = map[o] /\ life'[o] = life[o] /\ rpc'[o] = rpc[o]
        /\ ka[o].worker = "rearm"
    BY <1>5 DEF Types, Workers, KeepAlives, WorkerRearm, Rearm
  <2>2. Owed(o)' /\ Phases(o)' /\ Calls(o)' /\ Counters(o)' /\ Freed(o)'
    BY <2>1, Shaped, Sizes DEF Shape, Local, Owed, Asking, Phases, Calls, Early, Counters, Freed
  <2>3. Exact(o)' /\ Syncs(o)' /\ Pooled(o)'
    BY <2>1, Shaped, Sizes DEF Shape, Local, Owed, Exact, Holders, Owner, Syncs, Syncing, Pooled,
          InUse
  <2>4. Doubled(o)'
    BY <2>1, Shaped, Sizes DEF Shape, Local, Doubled, Calling, Acting, Ending, Owed, Asking,
          Phases, Calls, Early, Counters
  <2>5. QED BY <2>2, <2>3, <2>4 DEF Local
<1>6. CASE WorkerRelease(o)
  <2>1. /\ hk'[o].status = (IF hk[o].status = "freed" THEN "freed" ELSE "Waiting")
        /\ hk'[o].linked = hk[o].linked
        /\ hk'[o].counter = hk[o].counter
        /\ ka'[o].worker = "idle" /\ ka'[o].late = ka[o].late /\ ka'[o].sync = ka[o].sync
        /\ ka'[o].cb = ka[o].cb /\ ka'[o].second = ka[o].second /\ ka'[o].req = ka[o].req
        /\ map'[o] = map[o] /\ life'[o] = life[o] /\ rpc'[o] = rpc[o]
        /\ ka[o].worker = "release"
    BY <1>6 DEF Types, Workers, KeepAlives, WorkerRelease, Release
  <2>2. Owed(o)' /\ Phases(o)' /\ Calls(o)' /\ Counters(o)' /\ Freed(o)'
    BY <2>1, Shaped, Sizes DEF Shape, Local, Owed, Asking, Phases, Calls, Early, Counters, Freed
  <2>3. Exact(o)' /\ Syncs(o)' /\ Pooled(o)'
    BY <2>1, Shaped, Sizes DEF Shape, Local, Owed, Exact, Holders, Owner, Syncs, Syncing, Pooled,
          InUse, Doubled, Calling, Acting, Ending
  <2>4. Doubled(o)'
    BY <2>1, Shaped, Sizes DEF Shape, Local, Doubled, Calling, Acting, Ending, Owed, Asking,
          Phases, Calls, Early, Counters
  <2>5. QED BY <2>2, <2>3, <2>4 DEF Local
<1>7. QED BY <1>1, <1>2, <1>3, <1>4, <1>5, <1>6, <1>8 DEF Worker

LEMMA CallbackKeeps ==
  ASSUME Types, NEW o \in OS, Local(o), Callback(o)
  PROVE  Local(o)'
<1>1. CASE CallbackGet(o)
  <2>1. /\ map'[o].ref = map[o].ref + 1 /\ map'[o].state = map[o].state
        /\ ka'[o].worker = ka[o].worker /\ ka'[o].late = ka[o].late /\ ka'[o].sync = ka[o].sync
        /\ ka'[o].cb = (IF rpc[o].kind = "answered" THEN "ok" ELSE "error")
        /\ ka'[o].second = ka[o].second /\ ka'[o].req = ka[o].req
        /\ rpc'[o].up = rpc[o].up /\ rpc'[o].kind = "none"
        /\ life'[o] = life[o] /\ hk'[o] = hk[o]
        /\ ka[o].cb = "idle"
        /\ map[o].state \in {"live", "freeing"}
        /\ rpc[o].kind = "answered" => InUse(o) < Threads
        /\ rpc[o].kind = "answered" \/ (rpc[o].kind = "failed" /\ life[o].phase # "fetching")
    BY <1>1 DEF Types, KeepAlives, Maps, Clients, CallbackGet, Get, CanGet, procVars
  <2>2. Owed(o)' /\ Phases(o)' /\ Calls(o)' /\ Counters(o)' /\ Freed(o)'
    BY <2>1, Shaped, Sizes DEF Shape, Local, Owed, Asking, Phases, Calls, Early, Counters, Freed
  <2>3. Exact(o)' /\ Syncs(o)' /\ Pooled(o)'
    BY <2>1, Shaped, Sizes DEF Shape, Local, Owed, Exact, Holders, Owner, Syncs, Syncing, Pooled,
          InUse
  <2>4. Doubled(o)'
    BY <2>1, Shaped, Sizes DEF Shape, Local, Doubled, Calling, Acting, Ending, Owed, Asking,
          Phases, Calls, Early, Counters
  <2>5. QED BY <2>2, <2>3, <2>4 DEF Local
<1>2. CASE CallbackError(o)
  <2>1. /\ ka'[o].worker = ka[o].worker /\ ka'[o].late = ka[o].late /\ ka'[o].sync = ka[o].sync
        /\ ka'[o].cb = "put" /\ ka'[o].second = ka[o].second
        /\ ka'[o].req = (IF ka[o].req = "Syncing" THEN "Syncing" ELSE "ReadyToJoin")
        /\ map'[o] = map[o] /\ life'[o] = life[o] /\ hk'[o] = hk[o] /\ rpc'[o] = rpc[o]
        /\ ka[o].cb = "error"
    BY <1>2 DEF Types, KeepAlives, CallbackError, procVars
  <2>2. Owed(o)' /\ Phases(o)' /\ Calls(o)' /\ Counters(o)' /\ Freed(o)'
    BY <2>1, Shaped, Sizes DEF Shape, Local, Owed, Asking, Phases, Calls, Early, Counters, Freed
  <2>3. Exact(o)' /\ Syncs(o)' /\ Pooled(o)'
    BY <2>1, Shaped, Sizes DEF Shape, Local, Owed, Exact, Holders, Owner, Syncs, Syncing, Pooled,
          InUse
  <2>4. Doubled(o)'
    BY <2>1, Shaped, Sizes DEF Shape, Local, Doubled, Calling, Acting, Ending, Owed, Asking,
          Phases, Calls, Early, Counters
  <2>5. QED BY <2>2, <2>3, <2>4 DEF Local
<1>3. CASE CallbackOk(o)
  <2>1. /\ ka'[o].worker = ka[o].worker /\ ka'[o].late = ka[o].late /\ ka'[o].sync = ka[o].sync
        /\ ka'[o].cb = (IF ka[o].req = "ReadyToJoin" THEN "rearmSync" ELSE "put")
        /\ ka'[o].second = ka[o].second
        /\ ka'[o].req = (IF ka[o].req = "ReadyToJoin" THEN "Syncing" ELSE ka[o].req)
        /\ map'[o] = map[o] /\ life'[o] = life[o] /\ hk'[o] = hk[o] /\ rpc'[o] = rpc[o]
        /\ ka[o].cb = "ok"
    BY <1>3 DEF Types, KeepAlives, CallbackOk, procVars
  <2>2. Owed(o)' /\ Phases(o)' /\ Calls(o)' /\ Counters(o)' /\ Freed(o)'
    BY <2>1, Shaped, Sizes DEF Shape, Local, Owed, Asking, Phases, Calls, Early, Counters, Freed
  <2>3. Exact(o)' /\ Syncs(o)' /\ Pooled(o)'
    BY <2>1, Shaped, Sizes DEF Shape, Local, Owed, Exact, Holders, Owner, Syncs, Syncing, Pooled,
          InUse
  <2>4. Doubled(o)'
    BY <2>1, Shaped, Sizes DEF Shape, Local, Doubled, Calling, Acting, Ending, Owed, Asking,
          Phases, Calls, Early, Counters
  <2>5. QED BY <2>2, <2>3, <2>4 DEF Local
<1>4. CASE CallbackPut(o)
  <2>1. /\ map'[o].ref = map[o].ref - 1
        /\ map'[o].state = (IF map[o].ref = 1 /\ map[o].state = "live" THEN "freeing" ELSE map[o].state)
        /\ ka'[o].worker = ka[o].worker /\ ka'[o].late = ka[o].late /\ ka'[o].sync = ka[o].sync
        /\ ka'[o].cb = "rearm" /\ ka'[o].second = ka[o].second /\ ka'[o].req = ka[o].req
        /\ life'[o] = life[o] /\ hk'[o] = hk[o] /\ rpc'[o] = rpc[o]
        /\ ka[o].cb = "put"
    BY <1>4 DEF Types, KeepAlives, Maps, CallbackPut, Put, procVars
  <2>2. map[o].ref > 1 /\ hk[o].status # "none"
    BY <2>1, Shaped DEF Shape, Local, Owed, Doubled, Exact, Holders, Owner, Phases
  <2>3. Owed(o)' /\ Phases(o)' /\ Calls(o)' /\ Counters(o)' /\ Freed(o)'
    BY <2>1, <2>2, Shaped, Sizes DEF Shape, Local, Owed, Asking, Phases, Calls, Early, Counters,
          Freed
  <2>4. Exact(o)' /\ Syncs(o)' /\ Pooled(o)'
    BY <2>1, <2>2, Shaped, Sizes DEF Shape, Local, Owed, Exact, Holders, Owner, Syncs, Syncing,
          Pooled, InUse
  <2>5. Doubled(o)'
    BY <2>1, <2>2, Shaped, Sizes DEF Shape, Local, Doubled, Calling, Acting, Ending, Owed, Asking,
          Phases, Calls, Early, Counters
  <2>6. QED BY <2>3, <2>4, <2>5 DEF Local
<1>5. CASE CallbackRearm(o)
  <2>1. /\ hk'[o].status = hk[o].status /\ hk'[o].linked = hk[o].linked /\ hk'[o].counter = Interval
        /\ ka'[o].worker = ka[o].worker /\ ka'[o].late = ka[o].late /\ ka'[o].sync = ka[o].sync
        /\ ka'[o].cb = (IF ka[o].cb = "rearm" THEN "release" ELSE "releaseSync")
        /\ ka'[o].second = ka[o].second
        /\ ka'[o].req = ka[o].req
        /\ map'[o] = map[o] /\ life'[o] = life[o] /\ rpc'[o] = rpc[o]
        /\ ka[o].cb \in {"rearm", "rearmSync"}
    BY <1>5 DEF Types, Workers, KeepAlives, CallbackRearm, Rearm
  <2>2. Owed(o)' /\ Phases(o)' /\ Calls(o)' /\ Counters(o)' /\ Freed(o)'
    BY <2>1, Shaped, Sizes DEF Shape, Local, Owed, Asking, Phases, Calls, Early, Counters, Freed
  <2>3. Exact(o)' /\ Syncs(o)' /\ Pooled(o)'
    BY <2>1, Shaped, Sizes DEF Shape, Local, Owed, Exact, Holders, Owner, Syncs, Syncing, Pooled,
          InUse
  <2>4. Doubled(o)'
    BY <2>1, Shaped, Sizes DEF Shape, Local, Doubled, Calling, Acting, Ending, Owed, Asking,
          Phases, Calls, Early, Counters
  <2>5. QED BY <2>2, <2>3, <2>4 DEF Local
<1>6. CASE CallbackRelease(o)
  <2>1. /\ hk'[o].status = (IF hk[o].status = "freed" THEN "freed" ELSE "Waiting")
        /\ hk'[o].linked = hk[o].linked
        /\ hk'[o].counter = hk[o].counter
        /\ ka'[o].worker = ka[o].worker /\ ka'[o].late = ka[o].late
        /\ ka'[o].sync = (IF ka[o].cb = "releaseSync" THEN ka[o].sync + 1 ELSE ka[o].sync)
        /\ ka'[o].cb = (IF ka[o].second = "done" THEN "free" ELSE "idle")
        /\ ka'[o].second = ka[o].second /\ ka'[o].req = ka[o].req
        /\ map'[o] = map[o] /\ life'[o] = life[o] /\ rpc'[o] = rpc[o]
        /\ ka[o].cb \in {"release", "releaseSync"}
    BY <1>6 DEF Types, Workers, KeepAlives, CallbackRelease, Release
  <2>2. Owed(o)' /\ Phases(o)' /\ Calls(o)' /\ Counters(o)' /\ Freed(o)'
    BY <2>1, Shaped, Sizes DEF Shape, Local, Owed, Asking, Phases, Calls, Early, Counters, Freed
  <2>3. Exact(o)' /\ Syncs(o)' /\ Pooled(o)'
    BY <2>1, Shaped, Sizes DEF Shape, Local, Owed, Exact, Holders, Owner, Syncs, Syncing, Pooled,
          InUse, Doubled, Calling, Acting, Ending
  <2>4. Doubled(o)'
    BY <2>1, Shaped, Sizes DEF Shape, Local, Doubled, Calling, Acting, Ending, Owed, Asking,
          Phases, Calls, Early, Counters
  <2>5. QED BY <2>2, <2>3, <2>4 DEF Local
<1>7. QED BY <1>1, <1>2, <1>3, <1>4, <1>5, <1>6 DEF Callback

LEMMA SecondKeeps ==
  ASSUME Types, NEW o \in OS, Local(o), DrainLinked(o) \/ Second(o)
  PROVE  Local(o)'
<1>1. CASE DrainLinked(o)
  <2>1. /\ ka'[o].worker = "idle" /\ ka'[o].late = ka[o].late /\ ka'[o].sync = ka[o].sync
        /\ ka'[o].cb = ka[o].cb /\ ka'[o].second = "linked" /\ ka'[o].req = ka[o].req
        /\ map'[o] = map[o]
        /\ life'[o] = life[o] /\ rpc'[o].up = rpc[o].up /\ rpc'[o].kind = "failed"
        /\ hk'[o] = hk[o]
        /\ ka[o].worker = "linked" /\ ~rpc[o].up
    BY <1>1 DEF Types, KeepAlives, Clients, DrainLinked, procVars
  <2>2. Owed(o)' /\ Phases(o)' /\ Calls(o)' /\ Counters(o)' /\ Freed(o)'
    BY <2>1, Shaped, Sizes DEF Shape, Local, Owed, Asking, Phases, Calls, Early, Counters, Freed
  <2>3. Exact(o)' /\ Syncs(o)' /\ Pooled(o)'
    BY <2>1, Shaped, Sizes DEF Shape, Local, Owed, Exact, Holders, Owner, Syncs, Syncing, Pooled,
          InUse, Doubled
  <2>4. Doubled(o)'
    BY <2>1, Shaped, Sizes DEF Shape, Local, Doubled, Calling, Acting, Ending, Owed, Asking, Phases,
          Calls, Early, Counters
  <2>5. QED BY <2>2, <2>3, <2>4 DEF Local
<1>2. CASE SecondRefused(o)
  <2>1. /\ ka'[o].worker = ka[o].worker /\ ka'[o].late = ka[o].late /\ ka'[o].sync = ka[o].sync
        /\ ka'[o].cb = ka[o].cb /\ ka'[o].second = "refused" /\ ka'[o].req = ka[o].req
        /\ map'[o].ref = map[o].ref - 1
        /\ map'[o].state = (IF map[o].ref = 1 /\ map[o].state = "live" THEN "freeing" ELSE map[o].state)
        /\ life'[o] = life[o] /\ rpc'[o] = rpc[o]
        /\ hk'[o] = hk[o]
        /\ ka[o].second = "linked"
    BY <1>2 DEF Types, KeepAlives, Maps, SecondRefused, Put, procVars
  <2>2. map[o].ref > 1 /\ hk[o].status # "none"
    BY <2>1, Shaped DEF Shape, Local, Doubled, Exact, Holders, Owner, Phases
  <2>3. Owed(o)' /\ Phases(o)' /\ Calls(o)' /\ Counters(o)' /\ Freed(o)'
    BY <2>1, <2>2, Shaped, Sizes DEF Shape, Local, Owed, Asking, Phases, Calls, Early, Counters, Freed
  <2>4. Exact(o)' /\ Syncs(o)' /\ Pooled(o)'
    BY <2>1, <2>2, Shaped, Sizes DEF Shape, Local, Owed, Exact, Holders, Owner, Syncs, Syncing, Pooled,
          InUse, Doubled
  <2>5. Doubled(o)'
    BY <2>1, <2>2, Shaped, Sizes DEF Shape, Local, Doubled, Calling, Acting, Ending, Owed, Asking, Phases,
          Calls, Early, Counters
  <2>6. QED BY <2>3, <2>4, <2>5 DEF Local
<1>3. CASE SecondGiveUp(o)
  <2>1. /\ ka'[o].worker = ka[o].worker /\ ka'[o].late = ka[o].late /\ ka'[o].sync = ka[o].sync
        /\ ka'[o].cb = ka[o].cb /\ ka'[o].second = "rearm" /\ ka'[o].req = "ReadyToJoin"
        /\ map'[o] = map[o]
        /\ life'[o] = life[o] /\ rpc'[o] = rpc[o]
        /\ hk'[o] = hk[o]
        /\ ka[o].second = "refused"
    BY <1>3 DEF Types, KeepAlives, SecondGiveUp, procVars
  <2>2. Owed(o)' /\ Phases(o)' /\ Calls(o)' /\ Counters(o)' /\ Freed(o)'
    BY <2>1, Shaped, Sizes DEF Shape, Local, Owed, Asking, Phases, Calls, Early, Counters, Freed
  <2>3. Exact(o)' /\ Syncs(o)' /\ Pooled(o)'
    BY <2>1, Shaped, Sizes DEF Shape, Local, Owed, Exact, Holders, Owner, Syncs, Syncing, Pooled,
          InUse, Doubled
  <2>4. Doubled(o)'
    BY <2>1, Shaped, Sizes DEF Shape, Local, Doubled, Calling, Acting, Ending, Owed, Asking, Phases,
          Calls, Early, Counters
  <2>5. QED BY <2>2, <2>3, <2>4 DEF Local
<1>4. CASE SecondRearm(o)
  <2>1. /\ ka'[o].worker = ka[o].worker /\ ka'[o].late = ka[o].late /\ ka'[o].sync = ka[o].sync
        /\ ka'[o].cb = ka[o].cb /\ ka'[o].second = "release" /\ ka'[o].req = ka[o].req
        /\ map'[o] = map[o]
        /\ life'[o] = life[o] /\ rpc'[o] = rpc[o]
        /\ hk'[o].status = hk[o].status /\ hk'[o].linked = hk[o].linked /\ hk'[o].counter = Interval
        /\ ka[o].second = "rearm"
    BY <1>4 DEF Types, Workers, KeepAlives, SecondRearm, Rearm
  <2>2. Owed(o)' /\ Phases(o)' /\ Calls(o)' /\ Counters(o)' /\ Freed(o)'
    BY <2>1, Shaped, Sizes DEF Shape, Local, Owed, Asking, Phases, Calls, Early, Counters, Freed
  <2>3. Exact(o)' /\ Syncs(o)' /\ Pooled(o)'
    BY <2>1, Shaped, Sizes DEF Shape, Local, Owed, Exact, Holders, Owner, Syncs, Syncing, Pooled,
          InUse, Doubled
  <2>4. Doubled(o)'
    BY <2>1, Shaped, Sizes DEF Shape, Local, Doubled, Calling, Acting, Ending, Owed, Asking, Phases,
          Calls, Early, Counters
  <2>5. QED BY <2>2, <2>3, <2>4 DEF Local
<1>5. CASE SecondRelease(o)
  <2>1. /\ ka'[o].worker = ka[o].worker /\ ka'[o].late = ka[o].late /\ ka'[o].sync = ka[o].sync
        /\ ka'[o].cb = ka[o].cb /\ ka'[o].req = ka[o].req
        /\ ka'[o].second = (IF rpc[o].kind # "failed" /\ ka[o].cb = "idle" THEN "free" ELSE "done")
        /\ map'[o] = map[o]
        /\ life'[o] = life[o] /\ rpc'[o] = rpc[o]
        /\ hk'[o].status = (IF hk[o].status = "freed" THEN "freed" ELSE "Waiting")
        /\ hk'[o].linked = hk[o].linked /\ hk'[o].counter = hk[o].counter
        /\ ka[o].second = "release"
    BY <1>5 DEF Types, Workers, KeepAlives, SecondRelease, Release, CallbackOver
  <2>2. Owed(o)' /\ Phases(o)' /\ Calls(o)' /\ Counters(o)' /\ Freed(o)'
    BY <2>1, Shaped, Sizes DEF Shape, Local, Owed, Asking, Phases, Calls, Early, Counters, Freed
  <2>3. Exact(o)' /\ Syncs(o)' /\ Pooled(o)'
    BY <2>1, Shaped, Sizes DEF Shape, Local, Owed, Exact, Holders, Owner, Syncs, Syncing, Pooled,
          InUse, Doubled
  <2>4. Doubled(o)'
    BY <2>1, Shaped, Sizes DEF Shape, Local, Doubled, Calling, Acting, Ending, Owed, Asking, Phases,
          Calls, Early, Counters
  <2>5. QED BY <2>2, <2>3, <2>4 DEF Local
<1>6. QED BY <1>1, <1>2, <1>3, <1>4, <1>5 DEF Second

LEMMA TickKeeps ==
  ASSUME Types, NEW o \in OS, Local(o), Tick(o) \/ LatePut(o) \/ SyncDone(o)
  PROVE  Local(o)'
<1>1. CASE Tick(o) /\ hk[o].counter = 1
  <2>1. /\ hk'[o].status = "Busy" /\ hk'[o].linked = hk[o].linked /\ hk'[o].counter = 0
        /\ ka'[o].worker = "queued" /\ ka'[o].late = ka[o].late /\ ka'[o].sync = ka[o].sync
        /\ ka'[o].cb = ka[o].cb /\ ka'[o].second = ka[o].second /\ ka'[o].req = ka[o].req
        /\ map'[o] = map[o] /\ life'[o] = life[o] /\ rpc'[o] = rpc[o]
        /\ ~Ending(o) /\ hk[o].linked /\ hk[o].status = "Waiting" /\ hk[o].counter = 1
    <3>1. /\ hk' = [hk EXCEPT ![o].counter = 0, ![o].status = "Busy"]
          /\ ka' = [ka EXCEPT ![o].worker = "queued"] /\ UNCHANGED <<map, life, rpc>>
      BY <1>1 DEF Tick
    <3>2. QED BY <1>1, <3>1 DEF Types, Workers, KeepAlives, Tick, Ending
  <2>2. Owed(o)' /\ Phases(o)' /\ Calls(o)' /\ Counters(o)' /\ Freed(o)'
    BY <2>1, Shaped, Sizes DEF Shape, Local, Owed, Asking, Phases, Calls, Early, Counters, Freed
  <2>3. Exact(o)' /\ Syncs(o)' /\ Pooled(o)'
    BY <2>1, Shaped, Sizes DEF Shape, Local, Owed, Exact, Holders, Owner, Syncs, Syncing, Pooled,
          InUse, Doubled, Calling, Acting, Ending
  <2>4. Doubled(o)'
    BY <2>1, Shaped, Sizes DEF Shape, Local, Doubled, Calling, Acting, Ending, Owed, Asking,
          Phases, Calls, Early, Counters
  <2>5. QED BY <2>2, <2>3, <2>4 DEF Local
<1>2. CASE Tick(o) /\ hk[o].counter # 1
  <2>1. /\ hk'[o].status = hk[o].status /\ hk'[o].linked = hk[o].linked
        /\ hk'[o].counter = hk[o].counter - 1
        /\ map'[o] = map[o] /\ life'[o] = life[o] /\ ka'[o] = ka[o] /\ rpc'[o] = rpc[o]
        /\ ~Ending(o) /\ hk[o].linked /\ hk[o].status = "Waiting" /\ hk[o].counter # 1
    <3>1. hk' = [hk EXCEPT ![o].counter = hk[o].counter - 1] /\ UNCHANGED <<map, life, ka, rpc>>
      BY <1>2 DEF Tick
    <3>2. QED BY <1>2, <3>1 DEF Types, Workers, Tick, Ending
  <2>2. Owed(o)' /\ Phases(o)' /\ Calls(o)' /\ Counters(o)' /\ Freed(o)'
    BY <2>1, Shaped, Sizes DEF Shape, Local, Owed, Asking, Phases, Calls, Early, Counters, Freed
  <2>3. Exact(o)' /\ Syncs(o)' /\ Pooled(o)'
    BY <2>1, Shaped, Sizes DEF Shape, Local, Owed, Exact, Holders, Owner, Syncs, Syncing, Pooled,
          InUse
  <2>4. Doubled(o)'
    BY <2>1, Shaped, Sizes DEF Shape, Local, Doubled, Calling, Acting, Ending, Owed, Asking,
          Phases, Calls, Early, Counters
  <2>5. QED BY <2>2, <2>3, <2>4 DEF Local
<1>3. CASE LatePut(o)
  <2>1. /\ map'[o].ref = map[o].ref - 1
        /\ map'[o].state = (IF map[o].ref = 1 /\ map[o].state = "live" THEN "freeing" ELSE map[o].state)
        /\ ka'[o].worker = ka[o].worker /\ ka'[o].late = ka[o].late - 1 /\ ka'[o].sync = ka[o].sync
        /\ ka'[o].cb = ka[o].cb /\ ka'[o].second = ka[o].second /\ ka'[o].req = ka[o].req
        /\ life'[o] = life[o] /\ hk'[o] = hk[o] /\ rpc'[o] = rpc[o]
        /\ ka[o].late > 0
    BY <1>3 DEF Types, KeepAlives, Maps, LatePut, Put, procVars
  <2>2. map[o].ref > 1 /\ hk[o].status # "none"
    BY <2>1, Shaped DEF Shape, Local, Owed, Doubled, Exact, Holders, Owner, Phases
  <2>3. Owed(o)' /\ Phases(o)' /\ Calls(o)' /\ Counters(o)' /\ Freed(o)'
    BY <2>1, <2>2, Shaped, Sizes DEF Shape, Local, Owed, Asking, Phases, Calls, Early, Counters,
          Freed
  <2>4. Exact(o)' /\ Syncs(o)' /\ Pooled(o)'
    BY <2>1, <2>2, Shaped, Sizes DEF Shape, Local, Owed, Exact, Holders, Owner, Syncs, Syncing,
          Pooled, InUse
  <2>5. Doubled(o)'
    BY <2>1, <2>2, Shaped, Sizes DEF Shape, Local, Doubled, Calling, Acting, Ending, Owed, Asking,
          Phases, Calls, Early, Counters
  <2>6. QED BY <2>3, <2>4, <2>5 DEF Local
<1>4. CASE SyncDone(o)
  <2>1. /\ map'[o].ref = map[o].ref - 1
        /\ map'[o].state = (IF map[o].ref = 1 /\ map[o].state = "live" THEN "freeing" ELSE map[o].state)
        /\ ka'[o].worker = ka[o].worker /\ ka'[o].late = ka[o].late /\ ka'[o].sync = ka[o].sync - 1
        /\ ka'[o].cb = ka[o].cb /\ ka'[o].second = ka[o].second /\ ka'[o].req = "Online"
        /\ life'[o] = life[o] /\ hk'[o] = hk[o] /\ rpc'[o] = rpc[o]
        /\ ka[o].sync > 0
    BY <1>4 DEF Types, KeepAlives, Maps, SyncDone, Put, procVars
  <2>2. map[o].ref > 1 /\ hk[o].status # "none"
    BY <2>1, Shaped DEF Shape, Local, Owed, Doubled, Exact, Holders, Owner, Phases
  <2>3. Owed(o)' /\ Phases(o)' /\ Calls(o)' /\ Counters(o)' /\ Freed(o)'
    BY <2>1, <2>2, Shaped, Sizes DEF Shape, Local, Owed, Asking, Phases, Calls, Early, Counters,
          Freed
  <2>4. Exact(o)' /\ Syncs(o)' /\ Pooled(o)'
    BY <2>1, <2>2, Shaped, Sizes DEF Shape, Local, Owed, Exact, Holders, Owner, Syncs, Syncing,
          Pooled, InUse
  <2>5. Doubled(o)'
    BY <2>1, <2>2, Shaped, Sizes DEF Shape, Local, Doubled, Calling, Acting, Ending, Owed, Asking,
          Phases, Calls, Early, Counters
  <2>6. QED BY <2>3, <2>4, <2>5 DEF Local
<1>5. QED BY <1>1, <1>2, <1>3, <1>4 DEF Tick

LEMMA StartKeeps ==
  ASSUME Types, NEW o \in OS, Local(o), Start(o) \/ StartFetch(o) \/ StartTorn(o) \/ Startup(o)
  PROVE  Local(o)'
<1>1. CASE Start(o)
  <2>1. /\ map'[o].ref = 1 /\ map'[o].state = "live"
        /\ life'[o].phase = "inited" /\ life'[o].starts = life[o].starts + 1
        /\ hk'[o].status = "Waiting" /\ hk'[o].linked = TRUE /\ hk'[o].counter = Interval
        /\ ka'[o].worker = "idle" /\ ka'[o].late = 0 /\ ka'[o].sync = 0
        /\ ka'[o].cb = "idle" /\ ka'[o].second = "none"
        /\ ka'[o].req = "ReadyToJoin"
        /\ rpc'[o].up = TRUE /\ rpc'[o].kind = rpc[o].kind
        /\ life[o].phase = "down"
    BY <1>1 DEF Types, Workers, KeepAlives, Lives, Maps, Clients, Start, Joined, AddWorker, Idle
  <2>2. Owed(o)' /\ Phases(o)' /\ Calls(o)' /\ Counters(o)' /\ Freed(o)'
    BY <2>1, Shaped, Sizes DEF Shape, Local, Owed, Asking, Phases, Calls, Early, Counters, Freed
  <2>3. Exact(o)' /\ Syncs(o)' /\ Pooled(o)'
    BY <2>1, Shaped, Sizes DEF Shape, Local, Owed, Exact, Holders, Owner, Syncs, Syncing, Pooled,
          InUse
  <2>4. Doubled(o)'
    BY <2>1, Shaped, Sizes DEF Shape, Local, Doubled, Calling, Acting, Ending, Owed, Asking,
          Phases, Calls, Early, Counters
  <2>5. QED BY <2>2, <2>3, <2>4 DEF Local
<1>2. CASE StartFetch(o)
  <2>1. /\ life'[o].phase = "fetching" /\ life'[o].starts = life[o].starts + 1
        /\ rpc'[o].up = TRUE /\ rpc'[o].kind = "fetching"
        /\ map'[o] = map[o] /\ hk'[o] = hk[o] /\ ka'[o] = ka[o]
        /\ life[o].phase = "down"
    BY <1>2 DEF Types, Lives, Clients, StartFetch
  <2>2. Owed(o)' /\ Phases(o)' /\ Calls(o)' /\ Counters(o)' /\ Freed(o)'
    BY <2>1, Shaped, Sizes DEF Shape, Local, Owed, Asking, Phases, Calls, Early, Counters, Freed
  <2>3. Exact(o)' /\ Syncs(o)' /\ Pooled(o)'
    BY <2>1, Shaped, Sizes DEF Shape, Local, Owed, Exact, Holders, Owner, Syncs, Syncing, Pooled,
          InUse, Phases, Early
  <2>4. Doubled(o)'
    BY <2>1, Shaped, Sizes DEF Shape, Local, Doubled, Calling, Acting, Ending, Owed, Asking,
          Phases, Calls, Early, Counters
  <2>5. QED BY <2>2, <2>3, <2>4 DEF Local
<1>3. CASE Fetched(o)
  <2>1. /\ map'[o].ref = 0 /\ map'[o].state = "live"
        /\ life'[o].phase = "fetched" /\ life'[o].starts = life[o].starts
        /\ ka'[o].worker = ka[o].worker /\ ka'[o].late = ka[o].late /\ ka'[o].sync = ka[o].sync
        /\ ka'[o].cb = ka[o].cb /\ ka'[o].second = ka[o].second /\ ka'[o].req = ka[o].req
        /\ rpc'[o].up = rpc[o].up /\ rpc'[o].kind = "none"
        /\ hk'[o] = hk[o]
        /\ life[o].phase = "fetching"
    BY <1>3 DEF Types, KeepAlives, Lives, Maps, Clients, Fetched
  <2>2. Owed(o)' /\ Phases(o)' /\ Calls(o)' /\ Counters(o)' /\ Freed(o)'
    BY <2>1, Shaped, Sizes DEF Shape, Local, Owed, Asking, Phases, Calls, Early, Counters, Freed
  <2>3. Exact(o)' /\ Syncs(o)' /\ Pooled(o)'
    BY <2>1, Shaped, Sizes DEF Shape, Local, Owed, Exact, Holders, Owner, Syncs, Syncing, Pooled,
          InUse, Phases, Early
  <2>4. Doubled(o)'
    BY <2>1, Shaped, Sizes DEF Shape, Local, Doubled, Calling, Acting, Ending, Owed, Asking,
          Phases, Calls, Early, Counters
  <2>5. QED BY <2>2, <2>3, <2>4 DEF Local
<1>4. CASE SaveTruncate(o)
  <2>1. /\ life'[o].phase = (IF disk[o].file = "stub" THEN "resaving" ELSE "saving")
        /\ life'[o].starts = life[o].starts
        /\ map'[o] = map[o] /\ hk'[o] = hk[o] /\ ka'[o] = ka[o] /\ rpc'[o] = rpc[o]
        /\ life[o].phase = "fetched"
    BY <1>4 DEF Types, Lives, SaveTruncate
  <2>2. Owed(o)' /\ Phases(o)' /\ Calls(o)' /\ Counters(o)' /\ Freed(o)'
    BY <2>1, Shaped, Sizes DEF Shape, Local, Owed, Asking, Phases, Calls, Early, Counters, Freed
  <2>3. Exact(o)' /\ Syncs(o)' /\ Pooled(o)'
    BY <2>1, Shaped, Sizes DEF Shape, Local, Owed, Exact, Holders, Owner, Syncs, Syncing, Pooled,
          InUse
  <2>4. Doubled(o)'
    BY <2>1, Shaped, Sizes DEF Shape, Local, Doubled, Calling, Acting, Ending, Owed, Asking,
          Phases, Calls, Early, Counters
  <2>5. QED BY <2>2, <2>3, <2>4 DEF Local
<1>5. CASE SaveRest(o) /\ life[o].phase = "saving"
  <2>1. /\ map'[o].ref = 1 /\ map'[o].state = "live"
        /\ life'[o].phase = "inited" /\ life'[o].starts = life[o].starts
        /\ hk'[o].status = "Waiting" /\ hk'[o].linked = TRUE /\ hk'[o].counter = Interval
        /\ ka'[o].worker = "idle" /\ ka'[o].late = 0 /\ ka'[o].sync = 0
        /\ ka'[o].cb = "idle" /\ ka'[o].second = "none"
        /\ ka'[o].req = "ReadyToJoin"
        /\ rpc'[o] = rpc[o]
        /\ life[o].phase = "saving"
    BY <1>5 DEF Types, Workers, KeepAlives, Lives, Maps, SaveRest, Joined, AddWorker, Idle
  <2>2. Owed(o)' /\ Phases(o)' /\ Calls(o)' /\ Counters(o)' /\ Freed(o)'
    BY <2>1, Shaped, Sizes DEF Shape, Local, Owed, Asking, Phases, Calls, Early, Counters, Freed
  <2>3. Exact(o)' /\ Syncs(o)' /\ Pooled(o)'
    BY <2>1, Shaped, Sizes DEF Shape, Local, Owed, Exact, Holders, Owner, Syncs, Syncing, Pooled,
          InUse
  <2>4. Doubled(o)'
    BY <2>1, Shaped, Sizes DEF Shape, Local, Doubled, Calling, Acting, Ending, Owed, Asking,
          Phases, Calls, Early, Counters
  <2>5. QED BY <2>2, <2>3, <2>4 DEF Local
<1>6. CASE SaveRest(o) /\ life[o].phase = "resaving"
  <2>1. /\ life'[o].phase = "inited" /\ life'[o].starts = life[o].starts
        /\ map'[o] = map[o] /\ hk'[o] = hk[o] /\ ka'[o] = ka[o] /\ rpc'[o] = rpc[o]
        /\ life[o].phase = "resaving"
    BY <1>6 DEF Types, Lives, SaveRest
  <2>2. Owed(o)' /\ Phases(o)' /\ Calls(o)' /\ Counters(o)' /\ Freed(o)'
    BY <2>1, Shaped, Sizes DEF Shape, Local, Owed, Asking, Phases, Calls, Early, Counters, Freed
  <2>3. Exact(o)' /\ Syncs(o)' /\ Pooled(o)'
    BY <2>1, Shaped, Sizes DEF Shape, Local, Owed, Exact, Holders, Owner, Syncs, Syncing, Pooled,
          InUse
  <2>4. Doubled(o)'
    BY <2>1, Shaped, Sizes DEF Shape, Local, Doubled, Calling, Acting, Ending, Owed, Asking,
          Phases, Calls, Early, Counters
  <2>5. QED BY <2>2, <2>3, <2>4 DEF Local
<1>7. CASE InitGet(o)
  <2>1. /\ map'[o].ref = map[o].ref + 1 /\ map'[o].state = map[o].state
        /\ life'[o].phase = "checked" /\ life'[o].starts = life[o].starts
        /\ hk'[o] = hk[o] /\ ka'[o] = ka[o] /\ rpc'[o] = rpc[o]
        /\ life[o].phase = "inited"
    BY <1>7 DEF Types, Lives, Maps, InitGet, Get
  <2>2. Owed(o)' /\ Phases(o)' /\ Calls(o)' /\ Counters(o)' /\ Freed(o)'
    BY <2>1, Shaped, Sizes DEF Shape, Local, Owed, Asking, Phases, Calls, Early, Counters, Freed
  <2>3. Exact(o)' /\ Syncs(o)' /\ Pooled(o)'
    BY <2>1, Shaped, Sizes DEF Shape, Local, Owed, Exact, Holders, Owner, Syncs, Syncing, Pooled,
          InUse
  <2>4. Doubled(o)'
    BY <2>1, Shaped, Sizes DEF Shape, Local, Doubled, Calling, Acting, Ending, Owed, Asking,
          Phases, Calls, Early, Counters
  <2>5. QED BY <2>2, <2>3, <2>4 DEF Local
<1>8. CASE InitPut(o)
  <2>1. /\ map'[o].ref = map[o].ref - 1
        /\ map'[o].state = (IF map[o].ref = 1 /\ map[o].state = "live" THEN "freeing" ELSE map[o].state)
        /\ life'[o].phase = "up" /\ life'[o].starts = life[o].starts
        /\ hk'[o] = hk[o] /\ ka'[o] = ka[o] /\ rpc'[o] = rpc[o]
        /\ life[o].phase = "checked"
    BY <1>8 DEF Types, Lives, Maps, InitPut, Put
  <2>2. map[o].ref >= 1 /\ map[o].state = "live" /\ (map[o].ref = 1 => hk[o].status = "none")
    BY <2>1, Shaped DEF Shape, Local, Owed, Doubled, Exact, Holders, Owner, Phases
  <2>3. Owed(o)' /\ Phases(o)' /\ Calls(o)' /\ Counters(o)' /\ Freed(o)'
    BY <2>1, <2>2, Shaped, Sizes DEF Shape, Local, Owed, Asking, Phases, Calls, Early, Counters,
          Freed
  <2>4. Exact(o)' /\ Syncs(o)' /\ Pooled(o)'
    BY <2>1, <2>2, Shaped, Sizes DEF Shape, Local, Owed, Exact, Holders, Owner, Syncs, Syncing,
          Pooled, InUse
  <2>5. Doubled(o)'
    BY <2>1, <2>2, Shaped, Sizes DEF Shape, Local, Doubled, Calling, Acting, Ending, Owed, Asking,
          Phases, Calls, Early, Counters
  <2>6. QED BY <2>3, <2>4, <2>5 DEF Local
<1>9. CASE StartTorn(o)
  <2>1. /\ life'[o].phase = "down" /\ life'[o].starts = life[o].starts + 1
        /\ map'[o] = map[o] /\ hk'[o] = hk[o] /\ ka'[o] = ka[o] /\ rpc'[o] = rpc[o]
        /\ life[o].phase = "down"
    BY <1>9 DEF Types, Lives, StartTorn
  <2>2. Owed(o)' /\ Phases(o)' /\ Calls(o)' /\ Counters(o)' /\ Freed(o)'
    BY <2>1, Shaped, Sizes DEF Shape, Local, Owed, Asking, Phases, Calls, Early, Counters, Freed
  <2>3. Exact(o)' /\ Syncs(o)' /\ Pooled(o)'
    BY <2>1, Shaped, Sizes DEF Shape, Local, Owed, Exact, Holders, Owner, Syncs, Syncing, Pooled,
          InUse
  <2>4. Doubled(o)'
    BY <2>1, Shaped, Sizes DEF Shape, Local, Doubled, Calling, Acting, Ending, Owed, Asking, Phases,
          Calls, Early, Counters
  <2>5. QED BY <2>2, <2>3, <2>4 DEF Local
<1>10. CASE SavePart(o)
  BY <1>10, Apart DEF SavePart
<1>11. QED BY <1>1, <1>2, <1>3, <1>4, <1>5, <1>6, <1>7, <1>8, <1>9, <1>10 DEF Startup, SaveRest

LEMMA StopKeeps ==
  ASSUME Types, NEW o \in OS, Local(o), Stop(o) \/ Shutdown(o) \/ FetchFailed(o) \/ Dies(o) \/ Crash(o)
  PROVE  Local(o)'
<1>1. CASE Stop(o)
  <2>1. /\ life'[o].phase = "stopping" /\ life'[o].starts = life[o].starts
        /\ hk'[o].status = hk[o].status /\ hk'[o].linked = FALSE /\ hk'[o].counter = hk[o].counter
        /\ map'[o] = map[o] /\ ka'[o] = ka[o] /\ rpc'[o] = rpc[o]
        /\ life[o].phase = "up" /\ hk[o].linked
    BY <1>1 DEF Types, Workers, Lives, Stop
  <2>2. Owed(o)' /\ Phases(o)' /\ Calls(o)' /\ Counters(o)' /\ Freed(o)'
    BY <2>1, Shaped, Sizes DEF Shape, Local, Owed, Asking, Phases, Calls, Early, Counters, Freed
  <2>3. Exact(o)' /\ Syncs(o)' /\ Pooled(o)'
    BY <2>1, Shaped, Sizes DEF Shape, Local, Owed, Exact, Holders, Owner, Syncs, Syncing, Pooled,
          InUse
  <2>4. Doubled(o)'
    BY <2>1, Shaped, Sizes DEF Shape, Local, Doubled, Calling, Acting, Ending, Owed, Asking,
          Phases, Calls, Early, Counters
  <2>5. QED BY <2>2, <2>3, <2>4 DEF Local
<1>2. CASE StopFree(o)
  <2>1. /\ map'[o].ref = map[o].ref /\ map'[o].state = "freed"
        /\ life'[o].phase = "stopped" /\ life'[o].starts = life[o].starts
        /\ hk'[o].status = "freed" /\ hk'[o].linked = hk[o].linked /\ hk'[o].counter = hk[o].counter
        /\ ka'[o] = ka[o] /\ rpc'[o] = rpc[o]
        /\ life[o].phase = "stopping" /\ hk[o].status # "Busy"
    BY <1>2 DEF Types, Workers, Lives, Maps, StopFree
  <2>2. Owed(o)' /\ Phases(o)' /\ Calls(o)' /\ Counters(o)' /\ Freed(o)'
    BY <2>1, Shaped, Sizes DEF Shape, Local, Owed, Asking, Phases, Calls, Early, Counters, Freed
  <2>3. Exact(o)' /\ Syncs(o)' /\ Pooled(o)'
    BY <2>1, Shaped, Sizes DEF Shape, Local, Owed, Exact, Holders, Owner, Syncs, Syncing, Pooled,
          InUse, Phases
  <2>4. Doubled(o)'
    BY <2>1, Shaped, Sizes DEF Shape, Local, Doubled, Calling, Acting, Ending, Owed, Asking,
          Phases, Calls, Early, Counters
  <2>5. QED BY <2>2, <2>3, <2>4 DEF Local
<1>3. CASE Exit(o) \/ FetchFailed(o) \/ Dies(o) \/ Crash(o)
  <2>1. /\ map'[o].ref = 0 /\ map'[o].state = "none"
        /\ life'[o].phase = "down" /\ life'[o].starts = life[o].starts
        /\ hk'[o].status = "none" /\ hk'[o].linked = FALSE /\ hk'[o].counter = 0
        /\ ka'[o].worker = "idle" /\ ka'[o].late = 0 /\ ka'[o].sync = 0
        /\ ka'[o].cb = "idle" /\ ka'[o].second = "none"
        /\ ka'[o].req = "ReadyToJoin"
        /\ rpc'[o].up = FALSE /\ rpc'[o].kind = "none"
    BY <1>3 DEF Types, Workers, KeepAlives, Lives, Maps, Clients, Exit, FetchFailed, Dies, Crash, Dead,
          NoMap, NoWorker, Idle, NoClient
  <2>2. Owed(o)' /\ Phases(o)' /\ Calls(o)' /\ Counters(o)' /\ Freed(o)'
    BY <2>1, Shaped, Sizes DEF Shape, Local, Owed, Asking, Phases, Calls, Early, Counters, Freed
  <2>3. Exact(o)' /\ Syncs(o)' /\ Pooled(o)'
    BY <2>1, Shaped, Sizes DEF Shape, Local, Owed, Exact, Holders, Owner, Syncs, Syncing, Pooled,
          InUse
  <2>4. Doubled(o)'
    BY <2>1, Shaped, Sizes DEF Shape, Local, Doubled, Calling, Acting, Ending, Owed, Asking,
          Phases, Calls, Early, Counters
  <2>5. QED BY <2>2, <2>3, <2>4 DEF Local
<1>4. QED BY <1>1, <1>2, <1>3 DEF Shutdown

LEMMA UnsetKeeps ==
  ASSUME Types, NEW o \in OS, Local(o), Unset(o)
  PROVE  Local(o)'
<1>1. /\ map'[o].ref = map[o].ref /\ map'[o].state = "none" /\ map[o].state = "freeing"
      /\ life'[o] = life[o] /\ hk'[o] = hk[o] /\ ka'[o] = ka[o] /\ rpc'[o] = rpc[o]
  BY DEF Types, Maps, Unset, procVars
<1>2. life[o].phase \notin {"stopped", "fetched", "saving", "resaving", "inited", "checked"}
      /\ hk[o].status \notin {"Waiting", "Busy", "freed"} /\ map[o].ref = 0
  BY <1>1 DEF Local, Phases, Freed
<1>3. Owed(o)' /\ Phases(o)' /\ Calls(o)' /\ Counters(o)' /\ Freed(o)'
  BY <1>1, <1>2 DEF Local, Owed, Asking, Phases, Calls, Early, Counters, Freed
<1>4. Exact(o)' /\ Syncs(o)' /\ Pooled(o)'
  BY <1>1 DEF Local, Exact, Holders, Owner, Syncs, Syncing, Pooled
<1>5. Doubled(o)'
  BY <1>1 DEF Local, Doubled, Calling, Acting, Ending
<1>6. QED BY <1>3, <1>4, <1>5 DEF Local

\* What happens to a request outside its process: the answer arrives, or the connection closes.
Replied(o) ==
    \/ rpc[o].up /\ rpc'[o].up /\ rpc[o].kind = "asked" /\ rpc'[o].kind = "answered"
    \/ rpc[o].up /\ rpc'[o].up /\ rpc[o].kind = "fetching" /\ rpc'[o].kind = "mapped"
    \/ ~rpc'[o].up /\ rpc'[o].kind \in Failed(o)

LEMMA ReplyKeeps ==
  ASSUME Types, NEW o \in OS, Local(o), Replied(o), map'[o] = map[o], life'[o] = life[o],
         hk'[o] = hk[o], ka'[o] = ka[o]
  PROVE  Local(o)'
<1>1. /\ rpc'[o].kind \in {"asked", "answered", "failed"} <=> rpc[o].kind \in {"asked", "answered", "failed"}
                                  \/ (rpc[o].kind \in {"fetching", "mapped"} /\ rpc'[o].kind = "failed")
      /\ rpc'[o].kind \in {"fetching", "mapped"} => rpc[o].kind \in {"fetching", "mapped"}
      /\ rpc[o].kind \in {"fetching", "mapped"} => rpc'[o].kind \in {"fetching", "mapped", "failed"}
      /\ rpc[o].kind = "failed" => rpc'[o].kind = "failed"
      /\ rpc[o].kind = "none" => rpc'[o].kind = "none"
  BY DEF Replied, Failed
<1>2. /\ ~rpc[o].up => ~rpc'[o].up
      /\ ~rpc[o].up /\ rpc[o].kind \notin {"asked", "answered"} => rpc'[o].kind \notin {"asked", "answered"}
  BY DEF Replied, Failed
<1>3. Owed(o)'
  BY <1>1 DEF Local, Owed, Asking, Calls
<1>4. Phases(o)' /\ Calls(o)' /\ Counters(o)' /\ Freed(o)'
  BY <1>1, <1>2 DEF Local, Phases, Calls, Early, Counters, Freed
<1>5. Exact(o)' /\ Syncs(o)' /\ Pooled(o)'
  BY <1>2 DEF Local, Exact, Holders, Owner, Syncs, Syncing, Pooled
<1>6. Doubled(o)'
  <2>1. rpc[o].kind \in {"failed", "none"} => rpc'[o].kind = rpc[o].kind
    BY DEF Replied, Failed
  <2>2. QED BY <1>2, <2>1 DEF Local, Doubled, Calling, Acting, Ending
<1>7. QED BY <1>3, <1>4, <1>5, <1>6 DEF Local

LEMMA Closed ==
  ASSUME Types, NEW o \in OS, \/ Disconnect(o)
                              \/ CloseAll
  PROVE  Replied(o)
<1>1. CASE Disconnect(o)
  <2>1. PICK k \in Failed(o) : rpc' = [rpc EXCEPT ![o].up = FALSE, ![o].kind = k]
    BY <1>1 DEF Disconnect
  <2>2. ~rpc'[o].up /\ rpc'[o].kind = k
    BY <2>1 DEF Types, Clients
  <2>3. QED BY <2>1, <2>2 DEF Replied, Failed
<1>2. CASE CloseAll
  <2>1. PICK k \in [OS -> {"none", "asked", "fetching", "answered", "mapped", "failed"}] :
           /\ k[o] \in Failed(o)
           /\ rpc' = [p \in OS |-> [rpc[p] EXCEPT !.up = FALSE, !.kind = k[p]]]
    BY <1>2 DEF CloseAll
  <2>2. rpc'[o] = [rpc[o] EXCEPT !.up = FALSE, !.kind = k[o]] /\ rpc[o] \in Clients
    BY <2>1 DEF Types
  <2>3. ~rpc'[o].up /\ rpc'[o].kind = k[o]
    BY <2>2 DEF Clients
  <2>4. QED BY <2>1, <2>3 DEF Replied, Failed
<1>3. QED BY <1>1, <1>2

-----------------------------------------------------------------------------
(* Types *)

LEMMA MapTypes ==
  ASSUME Types, NEW p \in OS \cup {Mon}, Get(p) \/ Put(p)
  PROVE  map' \in [OS \cup {Mon} -> Maps]
  BY DEF Types, Get, Put, Maps

LEMMA WorkerTypes == ASSUME Types, NEW o \in OS, Local(o), Worker(o) PROVE Types'
<1> USE DEF procVars, monVars
<1>0. ka \in [OS -> KeepAlives]
  BY DEF Types
<1>1. CASE WorkerGet(o)
  <2>1. ka' \in [OS -> KeepAlives]
    BY <1>0, <1>1 DEF WorkerGet, KeepAlives
  <2>2. QED BY <1>1, <2>1, MapTypes DEF WorkerGet, Types
<1>8. CASE WorkerLink(o)
  <2>1. ka' \in [OS -> KeepAlives]
    BY <1>0, <1>8 DEF WorkerLink, KeepAlives
  <2>2. QED BY <1>8, <2>1 DEF WorkerLink, Types
<1>2. CASE WorkerWrite(o)
  <2>1. ka' \in [OS -> KeepAlives]
    BY <1>0, <1>2 DEF WorkerWrite, KeepAlives
  <2>2. rpc' \in [OS -> Clients]
    BY <1>2 DEF WorkerWrite, Types, Clients
  <2>3. [os |-> o, inc |-> life[o].starts, status |-> ka[o].req] \in Requests
    <3>1. life[o].phase # "down"
      BY <1>2, Shaped DEF Shape, WorkerWrite, Local, Owed, Doubled, Phases, Early
    <3>2. life[o].starts \in 1..MaxStarts /\ ka[o].req \in Statuses
      BY <3>1, Sizes DEF Types, Lives, KeepAlives, Local, Phases
    <3>3. QED BY <3>2 DEF Requests
  <2>4. QED BY <1>2, <2>1, <2>2, <2>3 DEF WorkerWrite, Types
<1>3. CASE WorkerRefused(o)
  <2>1. [ka[o] EXCEPT !.worker = "refused", !.own = "Offline"] \in KeepAlives
    BY <1>0 DEF KeepAlives, Statuses
  <2>2. ka' \in [OS -> KeepAlives]
    BY <1>0, <1>3, <2>1, Written DEF WorkerRefused
  <2>3. QED BY <1>3, <2>2, MapTypes DEF WorkerRefused, Types
<1>4. CASE WorkerGiveUp(o)
  <2>1. [ka[o] EXCEPT !.worker = "rearm", !.req = "ReadyToJoin"] \in KeepAlives
    BY <1>0 DEF KeepAlives, Statuses
  <2>2. ka' \in [OS -> KeepAlives]
    BY <1>0, <1>4, <2>1, Written DEF WorkerGiveUp
  <2>3. QED BY <1>4, <2>2 DEF WorkerGiveUp, Types
<1>5. CASE WorkerRearm(o)
  <2>1. ka' \in [OS -> KeepAlives]
    BY <1>0, <1>5 DEF WorkerRearm, KeepAlives
  <2>2. hk' \in [OS -> Workers]
    BY <1>5, Sizes DEF WorkerRearm, Rearm, Types, Workers
  <2>3. QED BY <1>5, <2>1, <2>2 DEF WorkerRearm, Types
<1>6. CASE WorkerRelease(o)
  <2>1. ka' \in [OS -> KeepAlives]
    BY <1>0, <1>6 DEF WorkerRelease, KeepAlives
  <2>2. hk' \in [OS -> Workers]
    BY <1>6 DEF WorkerRelease, Release, Types, Workers
  <2>3. QED BY <1>6, <2>1, <2>2 DEF WorkerRelease, Types
<1>7. QED BY <1>1, <1>2, <1>3, <1>4, <1>5, <1>6, <1>8 DEF Worker

LEMMA CallbackTypes == ASSUME Types, NEW o \in OS, Callback(o) PROVE Types'
<1> USE DEF procVars, monVars
<1>0. ka \in [OS -> KeepAlives] /\ ka[o] \in KeepAlives
  BY DEF Types
<1>1. CASE CallbackGet(o)
  <2>1. ka' \in [OS -> KeepAlives]
    BY <1>0, <1>1 DEF CallbackGet, KeepAlives
  <2>2. rpc' \in [OS -> Clients]
    BY <1>1 DEF CallbackGet, Types, Clients
  <2>3. QED BY <1>1, <2>1, <2>2, MapTypes DEF CallbackGet, Types
<1>2. CASE CallbackError(o) \/ CallbackOk(o)
  <2>1. \A s, r \in Statuses, c \in {"put", "rearmSync"} :
           [ka[o] EXCEPT !.cb = c, !.own = s, !.req = r] \in KeepAlives
    BY <1>0 DEF KeepAlives
  <2>2. ka[o].req \in Statuses /\ ka[o].own \in Statuses
    BY <1>0 DEF KeepAlives
  <2>3. ka' \in [OS -> KeepAlives]
    <3>1. CASE CallbackError(o)
      BY <1>0, <2>1, <2>2, <3>1, Written DEF CallbackError, Statuses
    <3>2. CASE CallbackOk(o) /\ ka[o].req = "ReadyToJoin"
      <4>1. [ka[o] EXCEPT !.cb = "rearmSync", !.req = "Syncing", !.own = "Syncing"] \in KeepAlives
        BY <1>0 DEF KeepAlives, Statuses
      <4>2. QED BY <1>0, <4>1, <3>2, Written DEF CallbackOk
    <3>3. CASE CallbackOk(o) /\ ka[o].req # "ReadyToJoin"
      BY <1>0, <3>3 DEF CallbackOk, KeepAlives
    <3>4. QED BY <1>2, <3>1, <3>2, <3>3
  <2>4. QED BY <1>2, <2>3 DEF CallbackError, CallbackOk, Types
<1>3. CASE CallbackPut(o)
  <2>1. ka' \in [OS -> KeepAlives]
    BY <1>0, <1>3 DEF CallbackPut, KeepAlives
  <2>2. QED BY <1>3, <2>1, MapTypes DEF CallbackPut, Types
<1>4. CASE CallbackRearm(o)
  <2>1. ka' \in [OS -> KeepAlives]
    BY <1>0, <1>4 DEF CallbackRearm, KeepAlives
  <2>2. hk' \in [OS -> Workers]
    BY <1>4, Sizes DEF CallbackRearm, Rearm, Types, Workers
  <2>3. QED BY <1>4, <2>1, <2>2 DEF CallbackRearm, Types
<1>5. CASE CallbackRelease(o)
  <2>1. ka' \in [OS -> KeepAlives]
    <3>1. \A n \in Nat, c \in {"idle", "free"} : [ka[o] EXCEPT !.cb = c, !.sync = n] \in KeepAlives
      BY <1>0 DEF KeepAlives
    <3>2. (IF ka[o].cb = "releaseSync" THEN ka[o].sync + 1 ELSE ka[o].sync) \in Nat
      BY <1>0 DEF KeepAlives
    <3>3. (IF ka[o].second = "done" THEN "free" ELSE "idle") \in {"idle", "free"}
      OBVIOUS
    <3>4. QED BY <1>0, <1>5, <3>1, <3>2, <3>3, Written DEF CallbackRelease
  <2>2. hk' \in [OS -> Workers]
    BY <1>5 DEF CallbackRelease, Release, Types, Workers
  <2>3. QED BY <1>5, <2>1, <2>2 DEF CallbackRelease, Types
<1>6. QED BY <1>1, <1>2, <1>3, <1>4, <1>5 DEF Callback

LEMMA SecondTypes ==
  ASSUME Types, NEW o \in OS, DrainLinked(o) \/ Second(o)
  PROVE  Types'
<1> USE DEF procVars, monVars
<1>0. ka \in [OS -> KeepAlives] /\ ka[o] \in KeepAlives
  BY DEF Types
<1>1. CASE DrainLinked(o)
  <2>1. ka' \in [OS -> KeepAlives]
    BY <1>0, <1>1 DEF DrainLinked, KeepAlives
  <2>2. rpc' \in [OS -> Clients]
    BY <1>1 DEF DrainLinked, Types, Clients
  <2>3. QED BY <1>1, <2>1, <2>2 DEF DrainLinked, Types
<1>2. CASE SecondRefused(o)
  <2>1. [ka[o] EXCEPT !.second = "refused", !.own = "Offline"] \in KeepAlives
    BY <1>0 DEF KeepAlives, Statuses
  <2>2. ka' \in [OS -> KeepAlives]
    BY <1>0, <1>2, <2>1, Written DEF SecondRefused
  <2>3. QED BY <1>2, <2>2, MapTypes DEF SecondRefused, Types
<1>3. CASE SecondGiveUp(o)
  <2>1. [ka[o] EXCEPT !.second = "rearm", !.req = "ReadyToJoin"] \in KeepAlives
    BY <1>0 DEF KeepAlives, Statuses
  <2>2. ka' \in [OS -> KeepAlives]
    BY <1>0, <1>3, <2>1, Written DEF SecondGiveUp
  <2>3. QED BY <1>3, <2>2 DEF SecondGiveUp, Types
<1>4. CASE SecondRearm(o)
  <2>1. ka' \in [OS -> KeepAlives]
    BY <1>0, <1>4 DEF SecondRearm, KeepAlives
  <2>2. hk' \in [OS -> Workers]
    BY <1>4, Sizes DEF SecondRearm, Rearm, Types, Workers
  <2>3. QED BY <1>4, <2>1, <2>2 DEF SecondRearm, Types
<1>5. CASE SecondRelease(o)
  <2>1. \A f \in {"free", "done"} : [ka[o] EXCEPT !.second = f] \in KeepAlives
    BY <1>0 DEF KeepAlives
  <2>2. ka' \in [OS -> KeepAlives]
    BY <1>0, <1>5, <2>1, Written DEF SecondRelease
  <2>3. hk' \in [OS -> Workers]
    BY <1>5 DEF SecondRelease, Release, Types, Workers
  <2>4. QED BY <1>5, <2>2, <2>3 DEF SecondRelease, Types
<1>6. QED BY <1>1, <1>2, <1>3, <1>4, <1>5 DEF Second

LEMMA TickTypes ==
  ASSUME Types, NEW o \in OS, Local(o), Tick(o) \/ LatePut(o) \/ SyncDone(o)
  PROVE  Types'
<1> USE DEF procVars, monVars
<1>0. ka \in [OS -> KeepAlives] /\ ka[o] \in KeepAlives /\ hk \in [OS -> Workers] /\ hk[o] \in Workers
  BY DEF Types
<1>1. CASE Tick(o)
  <2>1. ka' \in [OS -> KeepAlives]
    BY <1>0, <1>1 DEF Tick, KeepAlives
  <2>2. hk' \in [OS -> Workers]
    <3>1. CASE hk[o].counter = 1
      <4>1. [hk[o] EXCEPT !.counter = 0, !.status = "Busy"] \in Workers
        <5>1. 0 \in 0..Interval
          BY Sizes
        <5>2. QED BY <1>0, <5>1 DEF Workers
      <4>2. QED BY <1>0, <1>1, <3>1, <4>1, Written DEF Tick
    <3>2. CASE hk[o].counter # 1
      <4>1. hk[o].counter - 1 \in 0..Interval
        <5>1. hk[o].counter \in 1..Interval
          BY <1>1, Shaped DEF Shape, Tick, Local, Counters, Doubled, Ending
        <5>2. QED BY <5>1, Sizes
      <4>2. hk' = [hk EXCEPT ![o].counter = hk[o].counter - 1]
        BY <1>1, <3>2 DEF Tick
      <4>3. QED BY <1>0, <4>1, <4>2 DEF Workers
    <3>3. QED BY <3>1, <3>2
  <2>3. QED BY <1>1, <2>1, <2>2 DEF Tick, Types
<1>2. CASE LatePut(o)
  <2>1. ka' \in [OS -> KeepAlives]
    BY <1>0, <1>2 DEF LatePut, KeepAlives
  <2>2. QED BY <1>2, <2>1, MapTypes DEF LatePut, Types
<1>3. CASE SyncDone(o)
  <2>1. ka[o].sync - 1 \in Nat
    BY <1>0, <1>3 DEF SyncDone, KeepAlives
  <2>2. [ka[o] EXCEPT !.sync = ka[o].sync - 1, !.own = "Online", !.req = "Online"] \in KeepAlives
    BY <1>0, <2>1 DEF KeepAlives, Statuses
  <2>3. ka' \in [OS -> KeepAlives]
    BY <1>0, <1>3, <2>2, Written DEF SyncDone
  <2>4. QED BY <1>3, <2>3, MapTypes DEF SyncDone, Types
<1>4. QED BY <1>1, <1>2, <1>3

LEMMA StartTypes ==
  ASSUME Types, NEW o \in OS, Start(o) \/ StartFetch(o) \/ StartTorn(o) \/ Startup(o)
  PROVE  Types'
<1> USE DEF monVars
<1>0. /\ ka \in [OS -> KeepAlives] /\ ka[o] \in KeepAlives /\ life \in [OS -> Lives] /\ life[o] \in Lives
      /\ disk \in [OS -> Disks] /\ disk[o] \in Disks /\ rpc \in [OS -> Clients] /\ rpc[o] \in Clients
      /\ map \in [OS \cup {Mon} -> Maps] /\ map[o] \in Maps /\ hk \in [OS -> Workers]
  BY DEF Types
<1>1. ASSUME NEW s \in Statuses, Joined(o, s)
      PROVE  map' \in [OS \cup {Mon} -> Maps] /\ ka' \in [OS -> KeepAlives] /\ hk' \in [OS -> Workers]
  <2>1. /\ [state |-> "live", ref |-> 1] \in Maps /\ [Idle EXCEPT !.own = s] \in KeepAlives
        /\ [status |-> "Waiting", linked |-> TRUE, counter |-> Interval] \in Workers
    BY Sizes DEF Maps, KeepAlives, Workers, Idle, Statuses
  <2>2. QED BY <1>0, <1>1, <2>1, Written DEF Joined, AddWorker
<1>2. \A f \in {"inited", "fetching", "down"} : life[o].starts < MaxStarts =>
         [phase |-> f, starts |-> life[o].starts + 1] \in Lives
  BY <1>0, Sizes DEF Lives
<1>3. \A f \in {"fetched", "saving", "resaving", "inited", "checked", "up"} :
         [life EXCEPT ![o].phase = f] \in [OS -> Lives]
  BY <1>0 DEF Lives
<1>4. disk[o].status \in Statuses /\ ka[o].own \in Statuses /\ rpc[o].status \in Statuses
  BY <1>0 DEF Disks, KeepAlives, Clients
<1>5. CASE Start(o)
  <2>1. rpc' \in [OS -> Clients]
    BY <1>0, <1>5 DEF Start, Clients
  <2>2. life' \in [OS -> Lives]
    BY <1>0, <1>2, <1>5, Written DEF Start
  <2>3. QED BY <1>1, <1>4, <1>5, <2>1, <2>2 DEF Start, Types
<1>6. CASE StartFetch(o)
  <2>1. [rpc[o] EXCEPT !.up = TRUE, !.kind = "fetching"] \in Clients
    BY <1>0 DEF Clients
  <2>2. rpc' \in [OS -> Clients]
    BY <1>0, <1>6, <2>1, Written DEF StartFetch
  <2>3. life' \in [OS -> Lives]
    BY <1>0, <1>2, <1>6, Written DEF StartFetch
  <2>4. QED BY <1>6, <2>2, <2>3 DEF StartFetch, Types
<1>7. CASE Fetched(o)
  <2>1. [state |-> "live", ref |-> 0] \in Maps
    BY DEF Maps
  <2>2. map' \in [OS \cup {Mon} -> Maps]
    BY <1>0, <1>7, <2>1, Written DEF Fetched
  <2>3. ka' \in [OS -> KeepAlives]
    BY <1>0, <1>4, <1>7 DEF Fetched, KeepAlives
  <2>4. rpc' \in [OS -> Clients]
    BY <1>0, <1>7 DEF Fetched, Clients
  <2>5. QED BY <1>3, <1>7, <2>2, <2>3, <2>4 DEF Fetched, Types
<1>8. CASE SaveTruncate(o)
  <2>1. disk' \in [OS -> Disks]
    BY <1>0, <1>8 DEF SaveTruncate, Disks
  <2>2. QED BY <1>3, <1>8, <2>1 DEF SaveTruncate, Types
<1>9. CASE SaveRest(o)
  <2>1. [file |-> "whole", status |-> ka[o].own] \in Disks
    BY <1>4 DEF Disks
  <2>2. disk' \in [OS -> Disks]
    BY <1>0, <1>9, <2>1, Written DEF SaveRest
  <2>3. map' \in [OS \cup {Mon} -> Maps] /\ ka' \in [OS -> KeepAlives] /\ hk' \in [OS -> Workers]
    BY <1>0, <1>1, <1>4, <1>9 DEF SaveRest
  <2>4. QED BY <1>3, <1>9, <2>2, <2>3 DEF SaveRest, Types
<1>10. CASE InitGet(o) \/ InitPut(o)
  BY <1>3, <1>10, MapTypes DEF InitGet, InitPut, Types
<1>11. CASE StartTorn(o)
  <2>1. life[o].phase = "down" /\ life' = [life EXCEPT ![o].starts = life[o].starts + 1]
        /\ life[o].starts < MaxStarts
    BY <1>11 DEF StartTorn
  <2>2. life[o].starts + 1 \in 0..MaxStarts
    BY <1>0, <2>1, Sizes DEF Lives
  <2>3. life' \in [OS -> Lives]
    BY <1>0, <2>1, <2>2 DEF Lives
  <2>4. QED BY <1>11, <2>3 DEF StartTorn, Types
<1>12. CASE SavePart(o)
  <2>1. disk' \in [OS -> Disks]
    BY <1>0, <1>12 DEF SavePart, Disks
  <2>2. QED BY <1>12, <2>1 DEF SavePart, Types
<1>13. QED BY <1>5, <1>6, <1>7, <1>8, <1>9, <1>10, <1>11, <1>12 DEF Startup

LEMMA StopTypes ==
  ASSUME Types, NEW o \in OS, Stop(o) \/ Shutdown(o) \/ FetchFailed(o) \/ Dies(o) \/ Crash(o)
  PROVE  Types'
<1> USE DEF monVars
<1>0. /\ life \in [OS -> Lives] /\ hk \in [OS -> Workers] /\ map \in [OS \cup {Mon} -> Maps]
      /\ ka \in [OS -> KeepAlives] /\ rpc \in [OS -> Clients]
  BY DEF Types
<1>1. CASE Stop(o)
  <2>1. life' \in [OS -> Lives] /\ hk' \in [OS -> Workers]
    BY <1>0, <1>1 DEF Stop, Lives, Workers
  <2>2. QED BY <1>1, <2>1 DEF Stop, Types
<1>2. CASE StopFree(o)
  <2>1. life' \in [OS -> Lives] /\ hk' \in [OS -> Workers]
    BY <1>0, <1>2 DEF StopFree, Lives, Workers
  <2>2. map' \in [OS \cup {Mon} -> Maps]
    BY <1>0, <1>2 DEF StopFree, Maps
  <2>3. QED BY <1>2, <2>1, <2>2 DEF StopFree, Types
<1>3. CASE Exit(o) \/ FetchFailed(o) \/ Dies(o) \/ Crash(o)
  <2>1. Dead(o)
    BY <1>3 DEF Exit, FetchFailed, Dies, Crash
  <2>2. NoMap \in Maps /\ NoWorker \in Workers /\ Idle \in KeepAlives /\ NoClient \in Clients
    BY Sizes DEF NoMap, NoWorker, Idle, NoClient, Maps, Workers, KeepAlives, Clients, Statuses
  <2>3. life' \in [OS -> Lives]
    BY <1>0, <2>1 DEF Dead, Lives
  <2>4. map' \in [OS \cup {Mon} -> Maps] /\ hk' \in [OS -> Workers]
    BY <1>0, <2>1, <2>2, Written DEF Dead
  <2>5. ka' \in [OS -> KeepAlives] /\ rpc' \in [OS -> Clients]
    BY <1>0, <2>1, <2>2, Written DEF Dead
  <2>6. UNCHANGED <<disk, mon, monStatus, handling>> /\ inbox' \subseteq inbox
    BY <1>3 DEF Exit, FetchFailed, Dies, Crash
  <2>7. QED BY <2>3, <2>4, <2>5, <2>6 DEF Types
<1>4. QED BY <1>1, <1>2, <1>3 DEF Shutdown

LEMMA LinkTypes ==
  ASSUME Types, NEW o \in OS, Disconnect(o) \/ Unset(o)
  PROVE  Types'
<1> USE DEF procVars, monVars
<1>1. CASE Disconnect(o)
  <2>1. PICK k \in Failed(o) : rpc' = [rpc EXCEPT ![o].up = FALSE, ![o].kind = k]
    BY <1>1 DEF Disconnect
  <2>2. k \in {"none", "asked", "fetching", "answered", "mapped", "failed"}
    BY DEF Failed, Types, Clients
  <2>3. [rpc[o] EXCEPT !.up = FALSE, !.kind = k] \in Clients
    BY <2>2 DEF Types, Clients
  <2>4. rpc' \in [OS -> Clients]
    BY <2>1, <2>3, Written DEF Types
  <2>5. QED BY <1>1, <2>4 DEF Disconnect, Types
<1>2. CASE Unset(o)
  BY <1>2 DEF Unset, Types, Maps
<1>3. QED BY <1>1, <1>2

LEMMA StatMapTypes == \A s \in Statuses \cup {"None"}, r \in Statuses : StatMap(s, r) \in Statuses
  BY DEF StatMap, Statuses

LEMMA HandlerTypes ==
  ASSUME Types, NEW o \in OS, MonHandler(o)
  PROVE  Types'
<1> USE DEF procVars
<1>0. Mon \in OS \cup {Mon} /\ rpc \in [OS -> Clients] /\ rpc[o] \in Clients
  BY DEF Types
<1>1. CASE MonBegin(o)
  BY <1>0, <1>1, MapTypes DEF MonBegin, Types
<1>2. CASE MonEnd(o)
  <2> DEFINE status(r) == StatMap(IF o \in Known THEN monStatus[o] ELSE "None", r.status)
  <2>1. PICK r \in handling :
           /\ handling' = handling \ {r}
           /\ monStatus' = IF o \in Known THEN [monStatus EXCEPT ![o] = status(r)] ELSE monStatus
           /\ Put(Mon)
           /\ rpc' = IF r.inc = life[o].starts /\ rpc[o].up /\ rpc[o].kind = "asked"
                     THEN [rpc EXCEPT ![o].kind = "answered", ![o].status = status(r)] ELSE rpc
           /\ UNCHANGED <<procVars, ka, mon, inbox>>
    BY <1>2 DEF MonEnd
  <2>2. status(r) \in Statuses
    <3>1. r.status \in Statuses
      BY DEF Types, Requests
    <3>2. (IF o \in Known THEN monStatus[o] ELSE "None") \in Statuses \cup {"None"}
      BY DEF Types
    <3>3. QED BY <3>1, <3>2, StatMapTypes
  <2>3. [rpc[o] EXCEPT !.kind = "answered", !.status = status(r)] \in Clients
    BY <1>0, <2>2 DEF Clients
  <2> HIDE DEF status
  <2>4. rpc' \in [OS -> Clients]
    BY <1>0, <2>1, <2>3, Written
  <2>5. monStatus' \in [Known -> Statuses]
    BY <2>1, <2>2 DEF Types
  <2>6. QED BY <1>0, <2>1, <2>4, <2>5, MapTypes DEF Types
<1>3. CASE MonFetch(o)
  <2>1. monStatus[o] \in Statuses
    BY <1>3 DEF MonFetch, Types
  <2>2. [rpc[o] EXCEPT !.kind = "mapped", !.status = monStatus[o]] \in Clients
    BY <1>0, <2>1 DEF Clients
  <2>3. rpc' \in [OS -> Clients]
    BY <1>0, <1>3, <2>2, Written DEF MonFetch
  <2>4. [mon EXCEPT !.views = @ + 1] \in Mons
    BY <1>3, Sizes DEF MonFetch, Types, Mons
  <2>5. QED BY <1>0, <1>3, <2>3, <2>4, MapTypes DEF MonFetch, Types
<1>4. QED BY <1>1, <1>2, <1>3 DEF MonHandler

LEMMA CloseTypes == ASSUME Types, CloseAll PROVE rpc' \in [OS -> Clients]
<1>1. PICK k \in [OS -> {"none", "asked", "fetching", "answered", "mapped", "failed"}] :
         rpc' = [o \in OS |-> [rpc[o] EXCEPT !.up = FALSE, !.kind = k[o]]]
  BY DEF CloseAll
<1>2. \A o \in OS : [rpc[o] EXCEPT !.up = FALSE, !.kind = k[o]] \in Clients
  BY DEF Types, Clients
<1>3. QED BY <1>1, <1>2

LEMMA MonTypes ==
  ASSUME Types, MonView \/ MonFreeView \/ MonStop \/ MonShutdown \/ MonCrash \/ MonStart \/ Unset(Mon)
  PROVE  Types'
<1> USE DEF procVars, monVars
<1>0. Mon \in OS \cup {Mon} /\ mon \in Mons /\ map \in [OS \cup {Mon} -> Maps]
  BY DEF Types, Mons
<1>1. CASE MonView
  <2>1. [mon EXCEPT !.views = @ + 1] \in Mons
    BY <1>0, <1>1, Sizes DEF MonView, Mons
  <2>2. QED BY <1>0, <1>1, <2>1, MapTypes DEF MonView, Types, Mons
<1>2. CASE MonFreeView
  <2>1. [mon EXCEPT !.views = @ - 1] \in Mons
    BY <1>0, <1>2, Sizes DEF MonFreeView, Mons
  <2>2. QED BY <1>0, <1>2, <2>1, MapTypes DEF MonFreeView, Types, Mons
<1>3. CASE MonStop
  <2>1. [mon EXCEPT !.phase = "stopping"] \in Mons
    BY <1>0 DEF Mons
  <2>2. QED BY <1>3, <2>1, CloseTypes DEF MonStop, Types, Mons
<1>4. CASE MonDestroy
  <2>1. [mon EXCEPT !.phase = "destroying"] \in Mons
    BY <1>0 DEF Mons
  <2>2. QED BY <1>0, <1>4, <2>1, MapTypes DEF MonDestroy, Types, Mons
<1>5. CASE MonExit
  <2>1. [mon EXCEPT !.phase = "down"] \in Mons
    BY <1>0 DEF Mons
  <2>2. QED BY <1>5, <2>1 DEF MonExit, Types, Mons
<1>6. CASE MonCrash
  <2>1. [mon EXCEPT !.phase = "down", !.views = 0] \in Mons
    <3>1. 0 \in 0..MaxViews
      BY Sizes
    <3>2. QED BY <1>0, <3>1 DEF Mons
  <2>2. NoMap \in Maps
    BY DEF NoMap, Maps
  <2>3. map' \in [OS \cup {Mon} -> Maps]
    BY <1>0, <1>6, <2>2, Written DEF MonCrash
  <2>4. QED BY <1>6, <2>1, <2>3, CloseTypes DEF MonCrash, Types, Mons
<1>7. CASE MonStart
  <2>1. [mon EXCEPT !.phase = "up", !.starts = @ + 1] \in Mons
    <3>1. mon.starts + 1 \in 0..MaxMonStarts
      BY <1>0, <1>7, Sizes DEF MonStart, Mons
    <3>2. QED BY <1>0, <3>1 DEF Mons
  <2>2. [state |-> "live", ref |-> 1] \in Maps
    BY DEF Maps
  <2>3. map' \in [OS \cup {Mon} -> Maps]
    BY <1>0, <1>7, <2>2, Written DEF MonStart
  <2>4. QED BY <1>7, <2>1, <2>3 DEF MonStart, Types, Mons, Statuses
<1>8. CASE Unset(Mon)
  BY <1>8 DEF Unset, Types, Maps
<1>9. QED BY <1>1, <1>2, <1>3, <1>4, <1>5, <1>6, <1>7, <1>8 DEF MonShutdown

-----------------------------------------------------------------------------
(* The steps of a service beside its own map and worker *)

\* The process of o, its threads and house keeping.
Own(o) == \/ Tick(o) \/ Worker(o) \/ LatePut(o) \/ Callback(o) \/ SyncDone(o)
          \/ DrainLinked(o) \/ Second(o) \/ Dies(o)
          \/ Start(o) \/ StartFetch(o) \/ StartTorn(o) \/ Startup(o) \/ FetchFailed(o)
          \/ Stop(o) \/ Shutdown(o) \/ Crash(o)

LEMMA OwnKeeps == ASSUME Types, NEW o \in OS, Local(o), Own(o) PROVE Local(o)' /\ Types'
  BY WorkerKeeps, CallbackKeeps, SecondKeeps, TickKeeps, StartKeeps, StopKeeps,
     WorkerTypes, CallbackTypes, SecondTypes, TickTypes, StartTypes, StopTypes DEF Own

LEMMA OwnAlone ==
  ASSUME Types, NEW o \in OS, Own(o)
  PROVE  /\ UNCHANGED <<mon, handling>> /\ map'[Mon] = map[Mon]
         /\ \A p \in OS \ {o} : /\ map'[p] = map[p] /\ life'[p] = life[p] /\ hk'[p] = hk[p]
                                /\ ka'[p] = ka[p] /\ rpc'[p] = rpc[p]
<1> USE Sizes DEF procVars, monVars, Types
<1>1. CASE Tick(o) \/ LatePut(o) \/ SyncDone(o)
  BY <1>1 DEF Tick, LatePut, SyncDone, Put
<1>2. CASE Worker(o)
  BY <1>2 DEF Worker, WorkerGet, WorkerLink, WorkerWrite, WorkerRefused, WorkerGiveUp, WorkerRearm,
        WorkerRelease,
        Get, Put, Rearm, Release
<1>3. CASE Callback(o)
  BY <1>3 DEF Callback, CallbackGet, CallbackError, CallbackOk, CallbackPut, CallbackRearm,
        CallbackRelease,
        Get, Put, Rearm, Release
<1>4. CASE Start(o) \/ StartFetch(o) \/ StartTorn(o)
  BY <1>4 DEF Start, StartFetch, StartTorn, Joined, AddWorker
<1>5. CASE Startup(o)
  BY <1>5 DEF Startup, Fetched, SaveTruncate, SavePart, SaveRest, InitGet, InitPut, Joined, AddWorker, Get,
        Put
<1>6. CASE Stop(o) \/ Shutdown(o) \/ FetchFailed(o) \/ Dies(o) \/ Crash(o)
  BY <1>6 DEF Stop, Shutdown, StopFree, Exit, FetchFailed, Dies, Crash, Dead
<1>7. CASE DrainLinked(o) \/ Second(o)
  BY <1>7 DEF DrainLinked, Second, SecondRefused, SecondGiveUp, SecondRearm, SecondRelease, Put,
        Rearm, Release
<1>8. QED BY <1>1, <1>2, <1>3, <1>4, <1>5, <1>6, <1>7 DEF Own

-----------------------------------------------------------------------------
(* The requests *)

\* The service has sent its request, or cannot send one.
Waits(o) == rpc[o].kind = "asked" \/ ~rpc[o].up

\* A process that waits goes on waiting, or another one is started.
WaitsOn(o) == \/ life'[o].starts = life[o].starts + 1
              \/ life'[o].starts = life[o].starts /\ (Waits(o) => Waits(o)')

\* Requests only go, and nobody stops waiting for one that is left.
LEMMA RequestsKept ==
  ASSUME Types, OnePerProcess, inbox' \subseteq inbox, handling' \subseteq handling,
         \A o \in OS : WaitsOn(o)
  PROVE  OnePerProcess'
<1>1. Sent' \subseteq Sent /\ inbox' \cap handling' = {}
  BY DEF OnePerProcess, Sent
<1>2. IsFiniteSet(handling')
  BY FS_Subset DEF OnePerProcess
<1>3. \A r, s \in Sent' : r.os = s.os /\ r.inc = s.inc => r = s
  BY <1>1 DEF OnePerProcess
<1>4. ASSUME NEW r \in Sent'
      PROVE  /\ r.inc <= life'[r.os].starts
             /\ r.inc = life'[r.os].starts => rpc'[r.os].kind = "asked" \/ ~rpc'[r.os].up
  <2>1. r \in Sent /\ r.os \in OS /\ r.inc \in Nat /\ life[r.os].starts \in Nat
    BY <1>1, Sizes DEF Sent, Types, Requests, Lives
  <2>2. /\ r.inc <= life[r.os].starts
        /\ r.inc = life[r.os].starts => Waits(r.os)
    BY <2>1 DEF OnePerProcess, Waits
  <2>3. WaitsOn(r.os)
    BY <2>1
  <2>4. QED BY <2>1, <2>2, <2>3 DEF WaitsOn, Waits
<1>5. QED BY <1>1, <1>2, <1>3, <1>4 DEF OnePerProcess

LEMMA OwnWaits ==
  ASSUME Types, NEW o \in OS, Local(o), Own(o), ~WorkerWrite(o)
  PROVE  inbox' \subseteq inbox /\ WaitsOn(o)
<1> USE Shaped DEF Shape, procVars, monVars, WaitsOn, Waits
<1>0. rpc \in [OS -> Clients] /\ life \in [OS -> Lives] /\ rpc[o] \in Clients /\ life[o] \in Lives
  BY DEF Types
<1>1. CASE Tick(o) \/ LatePut(o) \/ SyncDone(o)
  BY <1>1 DEF Tick, LatePut, SyncDone
<1>2. CASE Worker(o)
  BY <1>2 DEF Worker, WorkerGet, WorkerLink, WorkerRefused, WorkerGiveUp, WorkerRearm, WorkerRelease
<1>3. CASE Callback(o)
  <2>1. CASE CallbackGet(o)
    <3>1. rpc[o].kind \in {"answered", "failed"} /\ rpc'[o].up = rpc[o].up /\ UNCHANGED <<inbox, life>>
      BY <1>0, <2>1 DEF CallbackGet, Clients
    <3>2. QED BY <3>1
  <2>2. CASE ~CallbackGet(o)
    BY <1>3, <2>2 DEF Callback, CallbackError, CallbackOk, CallbackPut, CallbackRearm,
          CallbackRelease
  <2>3. QED BY <2>1, <2>2
<1>4. CASE Start(o) \/ StartFetch(o) \/ StartTorn(o)
  <2>1. life'[o].starts = life[o].starts + 1 /\ UNCHANGED inbox
    BY <1>0, <1>4 DEF Start, StartFetch, StartTorn, Lives
  <2>2. QED BY <2>1
<1>5. CASE Startup(o)
  <2>1. life'[o].starts = life[o].starts /\ UNCHANGED inbox
    BY <1>0, <1>5 DEF Startup, Fetched, SaveTruncate, SavePart, SaveRest, InitGet, InitPut, Lives
  <2>2. rpc' = rpc \/ (rpc[o].kind = "mapped" /\ rpc'[o].up = rpc[o].up)
    BY <1>0, <1>5 DEF Startup, Fetched, SaveTruncate, SavePart, SaveRest, InitGet, InitPut, Clients
  <2>3. QED BY <2>1, <2>2
<1>6. CASE Stop(o) \/ StopFree(o)
  <2>1. life'[o].starts = life[o].starts /\ UNCHANGED <<inbox, rpc>>
    BY <1>0, <1>6 DEF Stop, StopFree, Lives
  <2>2. QED BY <2>1
<1>7. CASE Exit(o) \/ FetchFailed(o) \/ Dies(o) \/ Crash(o)
  <2>1. life'[o].starts = life[o].starts /\ ~rpc'[o].up /\ inbox' \subseteq inbox
    BY <1>0, <1>7 DEF Exit, FetchFailed, Dies, Crash, Dead, NoClient, Lives
  <2>2. QED BY <2>1
<1>8. CASE DrainLinked(o) \/ Second(o)
  <2>1. UNCHANGED <<inbox, life>> /\ (rpc' = rpc \/ (~rpc[o].up /\ rpc'[o].up = rpc[o].up))
    BY <1>0, <1>8 DEF DrainLinked, Second, SecondRefused, SecondGiveUp, SecondRearm, SecondRelease,
          Clients
  <2>2. QED BY <2>1
<1>9. QED BY <1>1, <1>2, <1>3, <1>4, <1>5, <1>6, <1>7, <1>8 DEF Own, Shutdown

\* A process sends one only when it waits for none.
LEMMA SendKeeps ==
  ASSUME Types, OnePerProcess, NEW o \in OS, Local(o), WorkerWrite(o)
  PROVE  OnePerProcess'
<1> DEFINE new == [os |-> o, inc |-> life[o].starts, status |-> ka[o].req]
<1>1. /\ inbox' = inbox \cup {new} /\ UNCHANGED <<life, handling>>
      /\ rpc'[o].kind = "asked" /\ \A p \in OS \ {o} : rpc'[p] = rpc[p]
  BY DEF WorkerWrite, procVars, Types, Clients
<1>2. ~Waits(o)
  <2>1. rpc[o].up /\ ~Asking(o) /\ life[o].phase # "fetching"
    BY Shaped DEF Shape, WorkerWrite, Local, Owed, Doubled, Phases, Early
  <2>2. QED BY <2>1 DEF Waits, Asking
<1>3. \A r \in Sent : ~(r.os = o /\ r.inc = life[o].starts)
  BY <1>2 DEF OnePerProcess, Waits
<1>4. new \notin Sent /\ Sent' = Sent \cup {new}
  BY <1>1, <1>3 DEF Sent
<1>5. inbox' \cap handling' = {} /\ IsFiniteSet(handling')
  BY <1>1, <1>4 DEF OnePerProcess, Sent
<1>6. \A r, s \in Sent' : r.os = s.os /\ r.inc = s.inc => r = s
  BY <1>3, <1>4 DEF OnePerProcess
<1>7. ASSUME NEW r \in Sent'
      PROVE  /\ r.inc <= life'[r.os].starts
             /\ r.inc = life'[r.os].starts => rpc'[r.os].kind = "asked" \/ ~rpc'[r.os].up
  <2>1. CASE r = new
    <3>1. r.os = o /\ r.inc = life[o].starts /\ life[o].starts \in Nat
      BY <2>1, Shaped DEF Shape
    <3>2. QED BY <1>1, <3>1
  <2>2. CASE r # new
    <3>1. r \in Sent /\ r.os \in OS
      BY <1>4, <2>2 DEF Sent, Types, Requests
    <3>2. QED BY <1>1, <3>1 DEF OnePerProcess
  <2>3. QED BY <2>1, <2>2
<1>8. QED BY <1>5, <1>6, <1>7 DEF OnePerProcess

LEMMA BeginKeeps ==
  ASSUME Types, OnePerProcess, NEW o \in OS, MonBegin(o)
  PROVE  OnePerProcess'
<1>1. PICK r \in inbox : r.os = o /\ inbox' = inbox \ {r} /\ handling' = handling \cup {r}
  BY DEF MonBegin
<1>2. UNCHANGED <<life, rpc>>
  BY DEF MonBegin, procVars
<1>3. Sent' = Sent /\ inbox' \cap handling' = {}
  BY <1>1 DEF Sent, OnePerProcess
<1>4. IsFiniteSet(handling')
  BY <1>1, FS_AddElement DEF OnePerProcess
<1>5. QED BY <1>2, <1>3, <1>4 DEF OnePerProcess

LEMMA EndKeeps ==
  ASSUME Types, OnePerProcess, NEW o \in OS, MonEnd(o)
  PROVE  /\ OnePerProcess'
         /\ rpc' = rpc \/ (Replied(o) /\ \A p \in OS \ {o} : rpc'[p] = rpc[p])
<1>1. PICK r \in handling :
         /\ r.os = o /\ handling' = handling \ {r} /\ UNCHANGED <<life, inbox>>
         /\ \/ rpc' = rpc
            \/ /\ r.inc = life[o].starts /\ rpc[o].up /\ rpc[o].kind = "asked"
               /\ \E s : rpc' = [rpc EXCEPT ![o].kind = "answered", ![o].status = s]
  BY DEF MonEnd, procVars
<1>2. CASE rpc' = rpc
  <2>1. \A p \in OS : WaitsOn(p)
    BY <1>1, <1>2 DEF WaitsOn, Waits
  <2>2. QED BY <1>1, <1>2, <2>1, RequestsKept
<1>3. CASE rpc' # rpc
  <2>1. /\ r.inc = life[o].starts /\ rpc[o].up /\ rpc[o].kind = "asked"
        /\ rpc'[o].kind = "answered" /\ rpc'[o].up = rpc[o].up /\ \A p \in OS \ {o} : rpc'[p] = rpc[p]
    BY <1>1, <1>3 DEF Types, Clients
  <2>2. Sent' = Sent \ {r} /\ r \in Sent /\ inbox' \cap handling' = {}
    BY <1>1 DEF Sent, OnePerProcess
  <2>3. \A s \in Sent' : s \in Sent /\ s.os \in OS /\ ~(s.os = o /\ s.inc = life[o].starts)
    BY <1>1, <2>1, <2>2 DEF OnePerProcess, Sent, Types, Requests
  <2>4. \A s \in Sent' : /\ s.inc <= life'[s.os].starts
                         /\ s.inc = life'[s.os].starts => rpc'[s.os].kind = "asked" \/ ~rpc'[s.os].up
    BY <1>1, <2>1, <2>3 DEF OnePerProcess
  <2>5. IsFiniteSet(handling')
    BY <1>1, FS_Subset DEF OnePerProcess
  <2>6. OnePerProcess'
    BY <2>2, <2>4, <2>5 DEF OnePerProcess
  <2>7. QED BY <2>1, <2>6 DEF Replied
<1>4. QED BY <1>2, <1>3

-----------------------------------------------------------------------------
(* Mon's map *)

LEMMA HandlingSize ==
  ASSUME Types, OnePerProcess
  PROVE  /\ Cardinality(handling) \in Nat /\ (Cardinality(handling) = 0 <=> handling = {})
         /\ mon.views \in Nat /\ map[Mon].ref \in Int
         /\ \A r \in handling : Cardinality(handling \ {r}) = Cardinality(handling) - 1
         /\ \A r : r \notin handling => Cardinality(handling \cup {r}) = Cardinality(handling) + 1
<1>1. IsFiniteSet(handling)
  BY DEF OnePerProcess
<1>2. Cardinality(handling) \in Nat /\ (Cardinality(handling) = 0 <=> handling = {})
  BY <1>1, FS_CardinalityType, FS_EmptySet
<1>3. \A r \in handling : Cardinality(handling \ {r}) = Cardinality(handling) - 1
  BY <1>1, FS_RemoveElement
<1>4. \A r : r \notin handling => Cardinality(handling \cup {r}) = Cardinality(handling) + 1
  BY <1>1, FS_AddElement
<1>5. mon.views \in Nat /\ map[Mon].ref \in Int
  BY Sizes DEF Types, Mons, Maps
<1>6. QED BY <1>2, <1>3, <1>4, <1>5

LEMMA MonKeeps ==
  ASSUME Types, OnePerProcess, MonExact,
         \/ \E o \in OS : MonHandler(o)
         \/ MonView \/ MonFreeView \/ MonStop \/ MonShutdown \/ MonCrash \/ MonStart \/ Unset(Mon)
  PROVE  MonExact'
<1> USE HandlingSize DEF Freed
<1>0. /\ map \in [OS \cup {Mon} -> Maps] /\ map[Mon] \in Maps /\ mon \in Mons
  BY DEF Types
<1>1. Get(Mon) => map'[Mon].ref = map[Mon].ref + 1 /\ map'[Mon].state = map[Mon].state
  BY <1>0 DEF Get, Maps
<1>2. Put(Mon) => /\ map'[Mon].ref = map[Mon].ref - 1
                  /\ map'[Mon].state = IF map[Mon].ref = 1 /\ map[Mon].state = "live" THEN "freeing"
                                       ELSE map[Mon].state
  BY <1>0 DEF Put, Maps
<1>3. ASSUME NEW o \in OS, MonBegin(o) PROVE MonExact'
  <2>1. PICK r \in inbox : handling' = handling \cup {r}
    BY <1>3 DEF MonBegin
  <2>2. Cardinality(handling') = Cardinality(handling) + 1
    BY <2>1 DEF OnePerProcess
  <2>3. QED BY <1>1, <1>3, <2>2 DEF MonBegin, MonExact
<1>4. ASSUME NEW o \in OS, MonEnd(o) PROVE MonExact'
  <2>1. PICK r \in handling : handling' = handling \ {r} /\ Put(Mon) /\ UNCHANGED mon
    BY <1>4 DEF MonEnd
  <2>2. Cardinality(handling') = Cardinality(handling) - 1 /\ Cardinality(handling) > 0
    BY <2>1
  <2>3. mon.phase \in {"up", "stopping"}
    BY <1>0, <2>2 DEF MonExact, Mons
  <2>4. map[Mon].ref > 1
    BY <2>2, <2>3 DEF MonExact
  <2>5. QED BY <1>2, <2>1, <2>2, <2>3, <2>4 DEF MonExact
<1>5. ASSUME NEW o \in OS, MonFetch(o) PROVE MonExact'
  <2>1. mon'.views = mon.views + 1 /\ mon'.phase = "up" /\ mon.phase = "up"
    BY <1>0, <1>5 DEF MonFetch, Mons
  <2>2. QED BY <1>1, <1>5, <2>1 DEF MonFetch, MonExact
<1>6. CASE MonView
  <2>1. mon'.views = mon.views + 1 /\ mon'.phase = "up" /\ mon.phase = "up"
    BY <1>0, <1>6 DEF MonView, Mons
  <2>2. QED BY <1>1, <1>6, <2>1 DEF MonView, MonExact
<1>7. CASE MonFreeView
  <2>1. mon'.views = mon.views - 1 /\ mon'.phase = mon.phase /\ mon.views > 0
    BY <1>0, <1>7 DEF MonFreeView, Mons
  <2>2. map[Mon].ref > 0 /\ map[Mon].state = "live" /\ mon.phase # "down"
    BY <1>0, <2>1 DEF MonExact, Maps
  <2>3. map'[Mon].ref = Cardinality(handling) + mon'.views + (IF mon.phase \in {"up", "stopping"} THEN 1 ELSE 0)
    BY <1>2, <1>7, <2>1 DEF MonFreeView, MonExact
  <2>4. map'[Mon].state = IF map'[Mon].ref = 0 THEN "freeing" ELSE "live"
    BY <1>2, <1>7, <2>2 DEF MonFreeView
  <2>5. handling' = handling /\ mon'.views \in Nat
    BY <1>7, <2>1 DEF MonFreeView
  <2>6. mon.phase \in {"up", "stopping"} => map'[Mon].ref # 0
    BY <2>3, <2>5
  <2>7. QED BY <2>1, <2>2, <2>3, <2>4, <2>5, <2>6 DEF MonExact
<1>8. CASE MonStop
  <2>1. mon'.views = mon.views /\ mon'.phase = "stopping" /\ mon.phase = "up"
    BY <1>0, <1>8 DEF MonStop, Mons
  <2>2. QED BY <1>8, <2>1 DEF MonStop, MonExact
<1>9. CASE MonDestroy
  <2>1. mon'.views = mon.views /\ mon'.phase = "destroying" /\ mon.phase = "stopping"
    BY <1>0, <1>9 DEF MonDestroy, Mons
  <2>2. map[Mon].ref = mon.views + 1 /\ map[Mon].state = "live"
    BY <1>9, <2>1 DEF MonDestroy, MonExact
  <2>3. handling = {} /\ handling' = {} /\ Cardinality(handling) = 0
    BY <1>9 DEF MonDestroy
  <2>4. map'[Mon].ref = mon.views /\ map'[Mon].state = IF mon.views = 0 THEN "freeing" ELSE "live"
    BY <1>2, <1>9, <2>2 DEF MonDestroy
  <2>5. QED BY <2>1, <2>3, <2>4 DEF MonExact
<1>10. CASE MonExit
  <2>1. mon'.views = mon.views /\ mon'.phase = "down" /\ mon.phase = "destroying"
    BY <1>0, <1>10 DEF MonExit, Mons
  <2>2. QED BY <1>10, <2>1 DEF MonExit, MonExact
<1>11. CASE MonCrash
  <2>1. mon'.views = 0 /\ mon'.phase = "down" /\ handling' = {}
    BY <1>0, <1>11 DEF MonCrash, Mons
  <2>2. map'[Mon].ref = 0 /\ map'[Mon].state = "none"
    BY <1>0, <1>11 DEF MonCrash, NoMap
  <2>3. Cardinality(handling') = 0
    BY <2>1, FS_EmptySet
  <2>4. QED BY <2>1, <2>2, <2>3 DEF MonExact
<1>12. CASE MonStart
  <2>1. mon'.views = mon.views /\ mon'.phase = "up" /\ mon.phase = "down" /\ handling' = handling
    BY <1>0, <1>12 DEF MonStart, Mons
  <2>2. map'[Mon].ref = 1 /\ map'[Mon].state = "live"
    BY <1>0, <1>12 DEF MonStart
  <2>3. Cardinality(handling) = 0 /\ mon.views = 0
    BY <2>1 DEF MonExact
  <2>4. QED BY <2>1, <2>2, <2>3 DEF MonExact
<1>13. CASE Unset(Mon)
  <2>1. /\ map'[Mon].ref = map[Mon].ref /\ map'[Mon].state = "none" /\ map[Mon].state = "freeing"
        /\ UNCHANGED <<mon, handling>>
    BY <1>0, <1>13 DEF Unset, Maps, monVars
  <2>2. QED BY <2>1 DEF MonExact
<1>14. QED BY <1>3, <1>4, <1>5, <1>6, <1>7, <1>8, <1>9, <1>10, <1>11, <1>12,
              <1>13 DEF MonHandler, MonShutdown

-----------------------------------------------------------------------------
LEMMA ClusterInit == Init => IInv
<1> SUFFICES ASSUME Init PROVE IInv
  OBVIOUS
<1>1. Types
  <2>1. /\ NoMap \in Maps /\ NoWorker \in Workers /\ Idle \in KeepAlives /\ NoClient \in Clients
        /\ [phase |-> "down", starts |-> 0] \in Lives
        /\ [phase |-> "down", starts |-> 0, views |-> 0] \in Mons
    BY Sizes DEF NoMap, NoWorker, Idle, NoClient, Maps, Workers, KeepAlives, Clients, Lives,
          Mons, Statuses
  <2>2. "Offline" \in Statuses
    BY DEF Statuses
  <2>3. disk \in [OS -> Disks]
    BY <2>2 DEF Init, Disks
  <2>4. QED BY <2>1, <2>2, <2>3 DEF Init, Types
<1>2. ASSUME NEW o \in OS PROVE Local(o)
  <2>1. /\ map[o] = NoMap /\ life[o] = [phase |-> "down", starts |-> 0] /\ hk[o] = NoWorker
        /\ ka[o] = Idle /\ rpc[o] = NoClient
    BY DEF Init
  <2>2. Owed(o) /\ Phases(o) /\ Calls(o) /\ Counters(o) /\ Freed(o)
    BY <2>1 DEF NoMap, NoWorker, Idle, NoClient, Owed, Asking, Phases, Calls, Early, Counters,
          Freed
  <2>3. Exact(o) /\ Syncs(o) /\ Pooled(o)
    BY <2>1, Sizes DEF NoMap, NoWorker, Idle, NoClient, Exact, Holders, Owner, Syncs, Syncing,
          Pooled
  <2>4. Doubled(o)
    BY <2>1 DEF Idle, Doubled
  <2>5. QED BY <2>2, <2>3, <2>4 DEF Local
<1>3. OnePerProcess
  BY FS_EmptySet DEF Init, OnePerProcess, Sent
<1>4. MonExact
  <2>1. map[Mon] = NoMap /\ mon = [phase |-> "down", starts |-> 0, views |-> 0] /\ Cardinality(handling) = 0
    BY FS_EmptySet DEF Init
  <2>2. QED BY <2>1 DEF NoMap, MonExact, Freed
<1>5. QED BY <1>1, <1>2, <1>3, <1>4 DEF IInv, Services

LEMMA ClusterStep == IInv /\ [Next]_vars => IInv'
<1> SUFFICES ASSUME IInv, [Next]_vars PROVE IInv'
  OBVIOUS
<1>0. Types /\ Services /\ OnePerProcess /\ MonExact
  BY DEF IInv
<1>1. ASSUME NEW o \in OS, Own(o) PROVE IInv'
  <2>1. Local(o) /\ Local(o)' /\ Types'
    BY <1>0, <1>1, OwnKeeps DEF Services
  <2>2. /\ UNCHANGED <<mon, handling>> /\ map'[Mon] = map[Mon]
        /\ \A p \in OS \ {o} : /\ map'[p] = map[p] /\ life'[p] = life[p] /\ hk'[p] = hk[p]
                               /\ ka'[p] = ka[p] /\ rpc'[p] = rpc[p]
    BY <1>0, <1>1, OwnAlone
  <2>3. Services'
    BY <1>0, <2>1, <2>2, Apart DEF Services
  <2>4. OnePerProcess'
    <3>1. CASE WorkerWrite(o)
      BY <1>0, <2>1, <3>1, SendKeeps
    <3>2. CASE ~WorkerWrite(o)
      <4>1. inbox' \subseteq inbox /\ WaitsOn(o)
        BY <1>0, <1>1, <2>1, <3>2, OwnWaits
      <4>2. \A p \in OS : WaitsOn(p)
        BY <2>2, <4>1 DEF WaitsOn, Waits
      <4>3. QED BY <1>0, <2>2, <4>1, <4>2, RequestsKept
    <3>3. QED BY <3>1, <3>2
  <2>5. MonExact'
    BY <1>0, <2>2 DEF MonExact, Freed
  <2>6. QED BY <2>1, <2>3, <2>4, <2>5 DEF IInv
<1>2. ASSUME NEW o \in OS, Disconnect(o) PROVE IInv'
  <2>1. /\ UNCHANGED <<map, life, hk, ka, mon, handling>> /\ inbox' \subseteq inbox
        /\ Replied(o) /\ ~rpc'[o].up /\ \A p \in OS \ {o} : rpc'[p] = rpc[p]
    <3>1. PICK k \in Failed(o) : rpc' = [rpc EXCEPT ![o].up = FALSE, ![o].kind = k]
      BY <1>2 DEF Disconnect
    <3>2. ~rpc'[o].up /\ \A p \in OS \ {o} : rpc'[p] = rpc[p]
      BY <1>0, <3>1 DEF Types, Clients
    <3>3. QED BY <1>0, <1>2, <3>2, Closed DEF Disconnect, procVars
  <2>2. Services'
    BY <1>0, <2>1, Apart, ReplyKeeps DEF Services
  <2>3. \A p \in OS : WaitsOn(p)
    BY <2>1 DEF WaitsOn, Waits
  <2>4. OnePerProcess'
    BY <1>0, <2>1, <2>3, RequestsKept
  <2>5. MonExact'
    BY <1>0, <2>1 DEF MonExact, Freed
  <2>6. QED BY <1>0, <1>2, <2>2, <2>4, <2>5, LinkTypes DEF IInv
<1>3. ASSUME NEW o \in OS, MonHandler(o) PROVE IInv'
  <2>1. Types' /\ MonExact'
    BY <1>0, <1>3, HandlerTypes, MonKeeps
  <2>2. UNCHANGED <<life, hk, ka>> /\ \A p \in OS : map'[p] = map[p]
    BY <1>0, <1>3, Sizes DEF MonHandler, MonBegin, MonEnd, MonFetch, Get, Put, procVars, Types
  <2>3. /\ OnePerProcess'
        /\ rpc' = rpc \/ (Replied(o) /\ \A p \in OS \ {o} : rpc'[p] = rpc[p])
    <3>1. CASE MonBegin(o)
      BY <1>0, <3>1, BeginKeeps DEF MonBegin
    <3>2. CASE MonEnd(o)
      BY <1>0, <3>2, EndKeeps
    <3>3. CASE MonFetch(o)
      <4>1. /\ rpc[o].up /\ rpc'[o].up /\ rpc[o].kind = "fetching" /\ rpc'[o].kind = "mapped"
            /\ \A p \in OS \ {o} : rpc'[p] = rpc[p]
        BY <1>0, <3>3 DEF MonFetch, Types, Clients
      <4>2. \A p \in OS : WaitsOn(p)
        BY <2>2, <4>1 DEF WaitsOn, Waits
      <4>3. OnePerProcess'
        BY <1>0, <3>3, <4>2, RequestsKept DEF MonFetch
      <4>4. QED BY <4>1, <4>3 DEF Replied
    <3>4. QED BY <1>3, <3>1, <3>2, <3>3 DEF MonHandler
  <2>4. Services'
    BY <1>0, <2>2, <2>3, Apart, ReplyKeeps DEF Services
  <2>5. QED BY <2>1, <2>3, <2>4 DEF IInv
<1>4. CASE MonView \/ MonFreeView \/ MonShutdown \/ MonStart \/ Unset(Mon)
  <2>1. Types' /\ MonExact'
    BY <1>0, <1>4, MonTypes, MonKeeps
  <2>2. UNCHANGED <<life, hk, ka, rpc, inbox, handling>> /\ \A p \in OS : map'[p] = map[p]
    BY <1>0, <1>4, Sizes DEF MonView, MonFreeView, MonShutdown, MonDestroy, MonExit, MonStart,
          Unset,
          Get, Put, procVars, monVars, Types
  <2>3. Services'
    BY <1>0, <2>2, Apart DEF Services
  <2>4. OnePerProcess'
    BY <1>0, <2>2 DEF OnePerProcess, Sent
  <2>5. QED BY <2>1, <2>3, <2>4 DEF IInv
<1>5. CASE MonStop \/ MonCrash
  <2>1. Types' /\ MonExact'
    BY <1>0, <1>5, MonTypes, MonKeeps
  <2>2. UNCHANGED <<life, hk, ka>> /\ \A p \in OS : map'[p] = map[p]
    BY <1>0, <1>5, Sizes DEF MonStop, MonCrash, procVars, Types
  <2>3. CloseAll /\ inbox' \subseteq inbox /\ handling' \subseteq handling
    BY <1>5 DEF MonStop, MonCrash
  <2>4. \A o \in OS : Replied(o) /\ ~rpc'[o].up
    <3>1. PICK k \in [OS -> {"none", "asked", "fetching", "answered", "mapped", "failed"}] :
             rpc' = [o \in OS |-> [rpc[o] EXCEPT !.up = FALSE, !.kind = k[o]]]
      BY <2>3 DEF CloseAll
    <3>2. ASSUME NEW o \in OS PROVE ~rpc'[o].up
      <4>1. rpc'[o] = [rpc[o] EXCEPT !.up = FALSE, !.kind = k[o]] /\ rpc[o] \in Clients
        BY <1>0, <3>1 DEF Types
      <4>2. QED BY <4>1 DEF Clients
    <3>3. QED BY <1>0, <2>3, <3>2, Closed
  <2>5. Services'
    BY <1>0, <2>2, <2>4, ReplyKeeps DEF Services
  <2>6. \A o \in OS : WaitsOn(o)
    BY <2>2, <2>4 DEF WaitsOn, Waits
  <2>7. OnePerProcess'
    BY <1>0, <2>3, <2>6, RequestsKept
  <2>8. QED BY <2>1, <2>5, <2>7 DEF IInv
<1>6. ASSUME NEW o \in OS, Unset(o) PROVE IInv'
  <2>1. /\ UNCHANGED <<life, hk, ka, rpc, mon, inbox, handling>>
        /\ \A p \in (OS \cup {Mon}) \ {o} : map'[p] = map[p]
    BY <1>0, <1>6 DEF Unset, procVars, monVars, Types
  <2>2. Services'
    BY <1>0, <1>6, <2>1, Apart, UnsetKeeps DEF Services
  <2>3. OnePerProcess' /\ MonExact'
    BY <1>0, <2>1, Sizes DEF OnePerProcess, Sent, MonExact, Freed
  <2>4. QED BY <1>0, <1>6, <2>2, <2>3, LinkTypes DEF IInv
<1>7. CASE UNCHANGED vars
  <2>1. UNCHANGED <<map, life, disk, hk, ka, rpc, mon, monStatus, inbox, handling>>
    BY <1>7 DEF vars, procVars, monVars
  <2>2. Services'
    BY <1>0, <2>1, Apart DEF Services
  <2>3. Types' /\ OnePerProcess' /\ MonExact'
    BY <1>0, <2>1 DEF Types, OnePerProcess, Sent, MonExact, Freed
  <2>4. QED BY <2>2, <2>3 DEF IInv
<1>8. QED BY <1>1, <1>2, <1>3, <1>4, <1>5, <1>6, <1>7 DEF Next, Own

\* The inductive invariant of Mon and its services (ClusterMap.c, ClusterMapObjectService.c,
\* HouseKeeping.c, ClusterHandler.c), over crashes, restarts and lost connections.
THEOREM ClusterInvariance == Spec => []IInv
<1>1. QED BY ClusterInit, ClusterStep, PTL DEF Spec

LEMMA TypesSuffice == IInv => TypeOK
<1> SUFFICES ASSUME IInv PROVE TypeOK
  OBVIOUS
<1>0. Types /\ Services /\ OnePerProcess /\ MonExact
  BY DEF IInv
<1>1. map \in [OS \cup {Mon} -> [state : {"none", "live", "freeing", "freed"}, ref : Nat]]
  <2>1. \A o \in OS : map[o].ref \in Nat
    BY <1>0, Shaped DEF Shape, Services, Local, Exact, Holders, Owner
  <2>2. map[Mon].ref \in Nat
    BY <1>0, HandlingSize DEF MonExact
  <2>3. QED BY <1>0, <2>1, <2>2 DEF Types, Maps
<1>2. \A o \in OS : ka[o].late \in 0..Threads /\ ka[o].sync \in 0..Threads
  BY <1>0, Shaped, Sizes DEF Shape, Services, Local, Pooled
<1>3. ka \in [OS -> [worker : {"idle", "queued", "got", "linked", "refused", "rearm", "release"},
                     late : 0..Threads, sync : 0..Threads,
                     cb : {"idle", "ok", "error", "put", "rearm", "release", "rearmSync", "releaseSync",
                           "free"},
                     second : {"none", "linked", "refused", "rearm", "release", "done", "free"},
                     req : Statuses, own : Statuses]]
  BY <1>0, <1>2 DEF Types, KeepAlives
<1>4. QED BY <1>0, <1>1, <1>3 DEF TypeOK, Types, Lives, Disks, Workers, Clients, Mons

\* The references of every map (clusterMapGetObjectServiceMap and its put) are exact: those of a
\* service's map are the threads of the keep-alive and of the start that hold it, and one for
\* the service itself; those of Mon's map are its handlers, the responses that hold it, and one
\* for Mon.  Nobody has a reference to a map that is being freed.
THEOREM MapReferencesAreExact == Spec => []RefExact
<1>1. IInv => RefExact
  <2> SUFFICES ASSUME IInv PROVE RefExact
    OBVIOUS
  <2>0. Types /\ Services /\ OnePerProcess /\ MonExact
    BY DEF IInv
  <2>1. \A p \in OS \cup {Mon} : map[p].state = "freeing" => map[p].ref = 0
    BY <2>0 DEF Services, Local, MonExact, Freed
  <2>2. \A o \in OS : map[o].ref = Holders(o) + (IF hk[o].status = "none" THEN 0 ELSE 1)
    BY <2>0 DEF Services, Local, Exact, Owner
  <2>3. QED BY <2>0, <2>1, <2>2, TypesSuffice DEF RefExact, MonExact
<1>2. QED BY <1>1, ClusterInvariance, PTL

\* While a worker is Busy the job, the request, the thread with the answer, or the thread of a
\* refused write owes it the callback, and none other of them does, but for a request that
\* clientOnClose answered between the two halves of sendRequest: of that the request's callback
\* and the thread of the write (clusterMapKeepAliveHouseKeepingWorker) both do.  The callback
\* finds the counter at 0, and there is one synchronisation at a time.
THEOREM OneCallbackIsOwed == Spec => []CallbackOwed
<1>1. IInv => CallbackOwed
  <2> SUFFICES ASSUME IInv, NEW o \in OS
               PROVE  /\ hk[o].status = "Busy" => Owing(o) # {}
                      /\ ka[o].sync <= 1
                      /\ IF ka[o].second = "none"
                         THEN /\ Cardinality(Owing(o)) = IF hk[o].status = "Busy" THEN 1 ELSE 0
                              /\ hk[o].status = "Busy" => \/ ka[o].worker = "release"
                                                          \/ ka[o].cb \in {"release", "releaseSync"}
                                                          \/ hk[o].counter = 0
                              /\ hk[o].status = "Waiting" => hk[o].counter \in 1..Interval
                         ELSE ~rpc[o].up
    BY DEF CallbackOwed
  <2>0. Types /\ Local(o)
    BY DEF IInv, Services
  <2>1. ka[o].sync <= 1
    BY <2>0, Shaped DEF Shape, Local, Syncs, Syncing
  <2>2. CASE ka[o].second = "none" /\ hk[o].status # "Busy"
    <3>1. Owing(o) = {}
      BY <2>0, <2>2 DEF Local, Owed, Asking, Owing
    <3>2. Cardinality(Owing(o)) = 0
      BY <3>1, FS_EmptySet
    <3>3. QED BY <2>0, <2>1, <2>2, <3>2 DEF Local, Counters
  <2>3. CASE ka[o].second = "none" /\ hk[o].status = "Busy"
    <3>1. Owing(o) = {"worker"} \/ Owing(o) = {"request"} \/ Owing(o) = {"callback"}
      BY <2>0, <2>3 DEF Local, Owed, Asking, Owing
    <3>2. Cardinality(Owing(o)) = 1 /\ Owing(o) # {}
      BY <3>1, FS_Singleton
    <3>3. QED BY <2>0, <2>1, <2>3, <3>2 DEF Local, Counters
  <2>4. CASE ka[o].second # "none"
    <3>1. ~rpc[o].up /\ (hk[o].status = "Busy" => Calling(o) \/ Acting(o)) /\ life[o].phase # "fetching"
      BY <2>0, <2>4, Shaped DEF Shape, Local, Doubled, Calling, Acting, Ending, Phases, Early
    <3>2. Calling(o) \/ Acting(o) => Owing(o) # {}
      BY <3>1 DEF Calling, Acting, Owing
    <3>3. QED BY <2>1, <2>4, <3>1, <3>2
  <2>5. QED BY <2>2, <2>3, <2>4
<1>2. QED BY <1>1, ClusterInvariance, PTL

=============================================================================
