----------------------------- MODULE Connection -----------------------------
(***************************************************************************)
(* One TCP connection of corecode/network: the asynchronous read and write *)
(* of ConnectionLinux.c and the threads of SocketLinux.c that serve it.    *)
(*                                                                         *)
(* A call of connRead or connWrite is an operation.  It links a context    *)
(* into the list of its direction and, unless the counter is_reading or    *)
(* is_writing says that somebody else has, puts the direction's job into   *)
(* the pool; one pool thread per direction (the pool is chosen by hash of  *)
(* the descriptor) takes the list and does the I/O; the epoll thread posts *)
(* the job again when the kernel reports an edge; a closing thread fails   *)
(* what is linked, calls onClose and drops the connection's own reference. *)
(* The last reference frees the connection.                                *)
(*                                                                         *)
(* Each atomic access of the code to the shared fields is a step.  Bytes   *)
(* are counted in units; the kernel is a count of units it can take or     *)
(* give, and an edge-triggered notification.                               *)
(***************************************************************************)
EXTENDS Integers, Sequences, FiniteSets, Functions

CONSTANTS Reads,       \* calls of connRead, each made once
          Writes,      \* calls of connWrite, each made once
          NoOp,
          Chained,     \* operations issued from inside a read callback
          Size,        \* units of each operation's buffer
          Ready,       \* units the kernel can give and take at the start
          Supply,      \* bound: further units it may give and take
          CanClose     \* whether the connection may go down

Ops == Reads \cup Writes
Directions == {"read", "write"}

ASSUME ConnectionAssumption ==
    /\ Reads \cap Writes = {} /\ NoOp \notin Ops /\ IsFiniteSet(Ops)
    /\ Chained \subseteq Ops
    /\ Size \in [Ops -> Nat \ {0}]
    /\ Ready \in [Directions -> Nat] /\ Supply \in [Directions -> Nat]
    /\ CanClose \in BOOLEAN

Dir(o) == IF o \in Reads THEN "read" ELSE "write"

VARIABLES
    ref,       \* conn_p->ref
    freed,     \* the connection's memory was given back
    closed,    \* conn_p->is_closed
    list,      \* read_jobs_head and write_jobs_head
    sched,     \* is_reading and is_writing
    job,       \* how often read_job and write_job are linked in the pool
    op,        \* control point of each call of connRead and connWrite
    calls,     \* history: callbacks of each operation that returned
    left,      \* units of each buffer still to be transferred
    pool,      \* control point of the pool thread that serves a direction
    batch,     \* its local list
    cur,       \* the operation whose callback it calls
    next,      \* where it goes on after that callback
    epoll,     \* control point of the epoll thread
    todo,      \* directions of the event it still has to look at
    watched,   \* the direction it is looking at
    closer,    \* control point of socketCloseConnection
    pending,   \* its local list
    link,      \* the TCP connection: up, eof (the peer sends no more), down
    units,     \* units the kernel can give or take now
    supply,    \* units it may give or take later
    edge,      \* an edge not yet reported by epoll_wait
    order,     \* history: writes in the order they were linked
    wire       \* history: the write each unit on the wire belongs to

conn   == <<ref, freed, closed, list, sched, job>>
users  == <<op, calls, left>>
pools  == <<pool, batch, cur, next>>
epolls == <<epoll, todo, watched>>
closers == <<closer, pending>>
kernel == <<link, units, supply, edge>>
history == <<order, wire>>
vars == <<conn, users, pools, epolls, closers, kernel, history>>

NoDir == "none"

Init == /\ ref = 1 /\ freed = FALSE /\ closed = 0
        /\ list = [d \in Directions |-> <<>>]
        /\ sched = [d \in Directions |-> 0]
        /\ job = [d \in Directions |-> 0]
        /\ op = [o \in Ops |-> "idle"]
        /\ calls = [o \in Ops |-> 0]
        /\ left = Size
        /\ pool = [d \in Directions |-> "idle"]
        /\ batch = [d \in Directions |-> <<>>]
        /\ cur = [d \in Directions |-> NoOp]
        /\ next = [d \in Directions |-> "idle"]
        /\ epoll = "wait" /\ todo = {} /\ watched = NoDir
        /\ closer = "none" /\ pending = <<>>
        /\ link = "up" /\ units = Ready /\ supply = Supply /\ edge = TRUE
        /\ order = <<>> /\ wire = <<>>

\* socketIODone: drop a reference; the last one frees the connection.
IODone == /\ ref' = ref - 1
          /\ freed' = (freed \/ ref = 1)

-----------------------------------------------------------------------------
(* connRead and connWrite.  The user calls while it may: from anywhere until *)
(* onClose has returned, or from inside a read callback.                     *)

MayCall(o) == IF o \in Chained THEN pool["read"] = "call" /\ next["read"] # "fail"
                               ELSE closer \notin {"drop", "end"}

\* is_closed is read.
Refuse(o) == /\ op[o] = "idle" /\ MayCall(o) /\ closed > 0
             /\ op' = [op EXCEPT ![o] = "refused"]
             /\ UNCHANGED <<conn, calls, left, pools, epolls, closers, kernel, history>>

Enter(o) == /\ op[o] = "idle" /\ MayCall(o) /\ closed = 0
            /\ op' = [op EXCEPT ![o] = "hold"]
            /\ UNCHANGED <<conn, calls, left, pools, epolls, closers, kernel, history>>

\* The operation's own reference.
Hold(o) == /\ op[o] = "hold" /\ ~freed
           /\ ref' = ref + 1
           /\ op' = [op EXCEPT ![o] = "link"]
           /\ UNCHANGED <<freed, closed, list, sched, job, calls, left, pools, epolls,
                          closers, kernel, history>>

\* From here on another thread may perform and finish the operation.
Link(o) == /\ op[o] = "link" /\ ~freed
           /\ list' = [list EXCEPT ![Dir(o)] = Append(@, o)]
           /\ order' = IF o \in Writes THEN Append(order, o) ELSE order
           /\ op' = [op EXCEPT ![o] = "count"]
           /\ UNCHANGED <<ref, freed, closed, sched, job, calls, left, pools, epolls,
                          closers, kernel, wire>>

\* Mutant: the value before the increment is compared with one.
CountOffByOne(o) == /\ op[o] = "count" /\ ~freed
                    /\ sched' = [sched EXCEPT ![Dir(o)] = @ + 1]
                    /\ op' = [op EXCEPT ![o] = IF sched[Dir(o)] <= 1 THEN "claim" ELSE "uncount"]
                    /\ UNCHANGED <<ref, freed, closed, list, job, calls, left, pools, epolls,
                                   closers, kernel, history>>

Count(o) == /\ op[o] = "count" /\ ~freed
            /\ sched' = [sched EXCEPT ![Dir(o)] = @ + 1]
            /\ op' = [op EXCEPT ![o] = IF sched[Dir(o)] = 0 THEN "claim" ELSE "uncount"]
            /\ UNCHANGED <<ref, freed, closed, list, job, calls, left, pools, epolls,
                           closers, kernel, history>>

\* Mutant: the increment is not taken back.
UncountForgotten(o) == /\ op[o] = "uncount" /\ ~freed
                       /\ op' = [op EXCEPT ![o] = "out"]
                       /\ UNCHANGED <<conn, calls, left, pools, epolls, closers, kernel, history>>

Uncount(o) == /\ op[o] = "uncount" /\ ~freed
              /\ sched' = [sched EXCEPT ![Dir(o)] = @ - 1]
              /\ op' = [op EXCEPT ![o] = "out"]
              /\ UNCHANGED <<ref, freed, closed, list, job, calls, left, pools, epolls,
                             closers, kernel, history>>

\* socketInsertReadJob, socketInsertWriteJob: the job's reference, then the pool.
Claim(o) == /\ op[o] = "claim" /\ ~freed
            /\ ref' = ref + 1
            /\ op' = [op EXCEPT ![o] = "post"]
            /\ UNCHANGED <<freed, closed, list, sched, job, calls, left, pools, epolls,
                           closers, kernel, history>>

Post(o) == /\ op[o] = "post" /\ ~freed
           /\ job' = [job EXCEPT ![Dir(o)] = @ + 1]
           /\ op' = [op EXCEPT ![o] = "out"]
           /\ UNCHANGED <<ref, freed, closed, list, sched, calls, left, pools, epolls,
                          closers, kernel, history>>

Call(o) == Hold(o) \/ Link(o) \/ Count(o) \/ Uncount(o) \/ Claim(o) \/ Post(o)

-----------------------------------------------------------------------------
(* socketDoRead and socketDoWrite *)

Start(d) == /\ pool[d] = "idle" /\ job[d] > 0
            /\ job' = [job EXCEPT ![d] = @ - 1]
            /\ sched' = [sched EXCEPT ![d] = @ - 1]
            /\ pool' = [pool EXCEPT ![d] = "take"]
            /\ UNCHANGED <<ref, freed, closed, list, users, batch, cur, next, epolls,
                           closers, kernel, history>>

Take(d) == /\ pool[d] = "take"
           /\ batch' = [batch EXCEPT ![d] = list[d]]
           /\ list' = [list EXCEPT ![d] = <<>>]
           /\ pool' = [pool EXCEPT ![d] = "test"]
           /\ UNCHANGED <<ref, freed, closed, sched, job, users, cur, next, epolls,
                          closers, kernel, history>>

Test(d) == /\ pool[d] = "test"
           /\ pool' = [pool EXCEPT ![d] = IF closed > 0 THEN "fail" ELSE "io"]
           /\ UNCHANGED <<conn, users, batch, cur, next, epolls, closers, kernel, history>>

\* The I/O of the batch's first context can move this many units.
Movable(d) == IF units[d] < left[Head(batch[d])] THEN units[d] ELSE left[Head(batch[d])]

\* Begin the callback of the batch's first context; go on at pc afterwards.
CallBack(d, pc) == /\ cur' = [cur EXCEPT ![d] = Head(batch[d])]
                   /\ batch' = [batch EXCEPT ![d] = Tail(@)]
                   /\ next' = [next EXCEPT ![d] = pc]
                   /\ pool' = [pool EXCEPT ![d] = "call"]

\* socketNoneBlockRead and socketNoneBlockWrite return -1.  A read that meets the
\* end of the stream loses what it has read; only reads close the connection.
Error(d) == /\ pool[d] = "io" /\ batch[d] # <<>>
            /\ \/ link = "down"
               \/ d = "read" /\ link = "eof" /\ units[d] < left[Head(batch[d])]
            /\ link' = IF d = "read" THEN "down" ELSE link
            /\ edge' = (edge \/ d = "read")
            /\ pool' = [pool EXCEPT ![d] = "fail"]
            /\ UNCHANGED <<conn, users, batch, cur, next, epolls, closers, units, supply, history>>

\* The kernel can neither give nor take: the rest waits for an edge.
WouldBlock(d) == /\ pool[d] = "io" /\ batch[d] # <<>>
                 /\ units[d] = 0
                 /\ link = "up" \/ (link = "eof" /\ d = "write")
                 /\ pool' = [pool EXCEPT ![d] = "rejoin"]
                 /\ UNCHANGED <<conn, users, batch, cur, next, epolls, closers, kernel, history>>

\* A read of at least one unit completes the context; a short one ends the loop.
ReadSome == LET d == "read"
                o == Head(batch[d])
            IN  /\ pool[d] = "io" /\ batch[d] # <<>>
                /\ units[d] > 0
                /\ link = "up" \/ units[d] >= left[o]
                /\ units' = [units EXCEPT ![d] = @ - Movable(d)]
                /\ CallBack(d, IF Movable(d) < left[o] THEN "rejoin" ELSE "io")
                /\ UNCHANGED <<conn, users, epolls, closers, link, supply, edge, history>>

\* A write completes the context only when all of it is written.
WriteSome == LET d == "write"
                 o == Head(batch[d])
             IN  /\ pool[d] = "io" /\ batch[d] # <<>>
                 /\ units[d] > 0
                 /\ link # "down"
                 /\ units' = [units EXCEPT ![d] = @ - Movable(d)]
                 /\ wire' = wire \o [i \in 1..Movable(d) |-> o]
                 /\ left' = [left EXCEPT ![o] = @ - Movable(d)]
                 /\ IF Movable(d) < left[o]
                    THEN pool' = [pool EXCEPT ![d] = "rejoin"] /\ UNCHANGED <<batch, cur, next>>
                    ELSE CallBack(d, "io")
                 /\ UNCHANGED <<conn, op, calls, epolls, closers, link, supply, edge, order>>

\* After a close or an error every context of the batch fails.
FailNext(d) == /\ pool[d] = "fail" /\ batch[d] # <<>>
               /\ CallBack(d, "fail")
               /\ UNCHANGED <<conn, users, epolls, closers, kernel, history>>

\* The callback returns, and with it every operation it has issued; then the
\* operation's reference is dropped.
Return(d) == /\ pool[d] = "call"
             /\ d = "read" => \A o \in Chained : op[o] \in {"idle", "refused", "out"}
             /\ calls' = [calls EXCEPT ![cur[d]] = @ + 1]
             /\ IODone
             /\ cur' = [cur EXCEPT ![d] = NoOp]
             /\ pool' = [pool EXCEPT ![d] = next[d]]
             /\ UNCHANGED <<closed, list, sched, job, op, left, batch, next, epolls, closers,
                            kernel, history>>

\* Mutant: listJoinTailInit in place of listJoinInit.
RejoinBehind(d) == /\ pool[d] = "rejoin"
                   /\ list' = [list EXCEPT ![d] = @ \o batch[d]]
                   /\ batch' = [batch EXCEPT ![d] = <<>>]
                   /\ pool' = [pool EXCEPT ![d] = "io"]
                   /\ UNCHANGED <<ref, freed, closed, sched, job, users, cur, next, epolls,
                                  closers, kernel, history>>

\* listJoinInit: what is left goes back in front of what was linked meanwhile.
Rejoin(d) == /\ pool[d] = "rejoin"
             /\ list' = [list EXCEPT ![d] = batch[d] \o @]
             /\ batch' = [batch EXCEPT ![d] = <<>>]
             /\ pool' = [pool EXCEPT ![d] = "io"]
             /\ UNCHANGED <<ref, freed, closed, sched, job, users, cur, next, epolls,
                            closers, kernel, history>>

\* Mutant: the job's reference is kept.
DropNothing(d) == /\ pool[d] \in {"io", "fail"} /\ batch[d] = <<>>
                  /\ pool' = [pool EXCEPT ![d] = "idle"]
                  /\ UNCHANGED <<conn, users, batch, cur, next, epolls, closers, kernel, history>>

\* Nothing is left of the batch: drop the job's reference.
Drop(d) == /\ pool[d] \in {"io", "fail"} /\ batch[d] = <<>>
           /\ IODone
           /\ pool' = [pool EXCEPT ![d] = "idle"]
           /\ UNCHANGED <<closed, list, sched, job, users, batch, cur, next, epolls,
                          closers, kernel, history>>

Pool(d) == \/ Start(d) \/ Take(d) \/ Test(d) \/ Error(d) \/ WouldBlock(d)
           \/ (d = "read" /\ ReadSome) \/ (d = "write" /\ WriteSome)
           \/ FailNext(d) \/ Return(d) \/ Rejoin(d) \/ Drop(d)

-----------------------------------------------------------------------------
(* The epoll thread.  Servers look at EPOLLOUT first, clients at EPOLLIN. *)

Event == /\ epoll = "wait" /\ todo = {} /\ edge /\ link # "down" /\ closer = "none"
         /\ edge' = FALSE
         /\ todo' = {d \in Directions : units[d] > 0 \/ (d = "read" /\ link = "eof")}
         /\ UNCHANGED <<conn, users, pools, epoll, watched, closers, link, units, supply, history>>

\* The unlocked test of is_reading or is_writing.
Look(d) == /\ epoll = "wait" /\ d \in todo
           /\ todo' = todo \ {d}
           /\ IF sched[d] = 0 THEN epoll' = "count" /\ watched' = d
                              ELSE UNCHANGED <<epoll, watched>>
           /\ UNCHANGED <<conn, users, pools, closers, kernel, history>>

EpollCount == /\ epoll = "count"
              /\ sched' = [sched EXCEPT ![watched] = @ + 1]
              /\ epoll' = IF sched[watched] = 0 THEN "claim" ELSE "uncount"
              /\ UNCHANGED <<ref, freed, closed, list, job, users, pools, todo, watched,
                             closers, kernel, history>>

\* Mutant: the increment is not taken back.
EpollUncountForgotten == /\ epoll = "uncount"
                         /\ epoll' = "wait" /\ watched' = NoDir
                         /\ UNCHANGED <<conn, users, pools, todo, closers, kernel, history>>

EpollUncount == /\ epoll = "uncount"
                /\ sched' = [sched EXCEPT ![watched] = @ - 1]
                /\ epoll' = "wait" /\ watched' = NoDir
                /\ UNCHANGED <<ref, freed, closed, list, job, users, pools, todo,
                               closers, kernel, history>>

EpollClaim == /\ epoll = "claim"
              /\ ref' = ref + 1
              /\ epoll' = "post"
              /\ UNCHANGED <<freed, closed, list, sched, job, users, pools, todo, watched,
                             closers, kernel, history>>

EpollPost == /\ epoll = "post"
             /\ job' = [job EXCEPT ![watched] = @ + 1]
             /\ epoll' = "wait" /\ watched' = NoDir
             /\ UNCHANGED <<ref, freed, closed, list, sched, users, pools, todo,
                            closers, kernel, history>>

\* EPOLLHUP or EPOLLERR: the descriptor is deregistered and closing begins.
HangUp == /\ epoll = "wait" /\ todo = {} /\ edge /\ link = "down" /\ closer = "none"
          /\ edge' = FALSE
          /\ closer' = "mark"
          /\ UNCHANGED <<conn, users, pools, epolls, pending, link, units, supply, history>>

Epoll == \/ Event \/ EpollCount \/ EpollUncount \/ EpollClaim \/ EpollPost \/ HangUp
         \/ \E d \in Directions : Look(d)

-----------------------------------------------------------------------------
(* socketCloseConnection *)

Mark == /\ closer = "mark"
        /\ closed' = closed + 1
        /\ closer' = "marked"
        /\ UNCHANGED <<ref, freed, list, sched, job, users, pools, epolls, pending, kernel, history>>

\* Mutant: listJoinTail in place of listJoinTailInit.
DrainNoInit(d) == /\ closer = IF d = "read" THEN "marked" ELSE "fail reads"
                  /\ pending = <<>>
                  /\ pending' = list[d]
                  /\ closer' = IF d = "read" THEN "fail reads" ELSE "fail writes"
                  /\ UNCHANGED <<conn, users, pools, epolls, kernel, history>>

\* socketPostIOJobs takes the list of reads and, when they have failed, the list
\* of writes.
Drain(d) == /\ closer = IF d = "read" THEN "marked" ELSE "fail reads"
            /\ pending = <<>>
            /\ pending' = list[d]
            /\ list' = [list EXCEPT ![d] = <<>>]
            /\ closer' = IF d = "read" THEN "fail reads" ELSE "fail writes"
            /\ UNCHANGED <<ref, freed, closed, sched, job, users, pools, epolls, kernel, history>>

\* The callback of a drained context, and its reference.
FailPending == /\ closer \in {"fail reads", "fail writes"} /\ pending # <<>>
               /\ calls' = [calls EXCEPT ![Head(pending)] = @ + 1]
               /\ pending' = Tail(pending)
               /\ IODone
               /\ UNCHANGED <<closed, list, sched, job, op, left, pools, epolls, closer,
                              kernel, history>>

\* onClose of Client.c and Server.c wait until every operation that was begun
\* has been refused or called back.
OnClose == /\ closer = "fail writes" /\ pending = <<>>
           /\ \A o \in Ops : op[o] \in {"idle", "refused"} \/ calls[o] > 0
           /\ closer' = "drop"
           /\ UNCHANGED <<conn, users, pools, epolls, pending, kernel, history>>

CloserDrop == /\ closer = "drop"
              /\ IODone
              /\ closer' = "end"
              /\ UNCHANGED <<closed, list, sched, job, users, pools, epolls, pending, kernel, history>>

Closer == \/ Mark \/ FailPending \/ OnClose \/ CloserDrop
          \/ \E d \in Directions : Drain(d)

-----------------------------------------------------------------------------
(* The kernel and the peer *)

\* Data arrives, or the peer's window opens.
Arrive(d) == /\ link # "down" /\ supply[d] > 0
             /\ d = "read" => link = "up"
             /\ units' = [units EXCEPT ![d] = @ + 1]
             /\ supply' = [supply EXCEPT ![d] = @ - 1]
             /\ edge' = TRUE
             /\ UNCHANGED <<conn, users, pools, epolls, closers, link, history>>

\* The peer sends FIN.
PeerShutdown == /\ CanClose /\ link = "up"
                /\ link' = "eof"
                /\ edge' = TRUE
                /\ UNCHANGED <<conn, users, pools, epolls, closers, units, supply, history>>

\* A reset by the peer, or connClose by the user or by destroy.
GoDown == /\ CanClose /\ link # "down"
          /\ link' = "down"
          /\ edge' = TRUE
          /\ UNCHANGED <<conn, users, pools, epolls, closers, units, supply, history>>

\* Any other traffic on the connection makes epoll report its readiness again.
Traffic == /\ link # "down" /\ ~edge
           /\ edge' = TRUE
           /\ UNCHANGED <<conn, users, pools, epolls, closers, link, units, supply, history>>

Kernel == PeerShutdown \/ GoDown \/ \E d \in Directions : Arrive(d)

User == \E o \in Ops : Refuse(o) \/ Enter(o) \/ Call(o)

Next == User \/ (\E d \in Directions : Pool(d)) \/ Epoll \/ Closer \/ Kernel

NextTraffic == Next \/ Traffic

Spec == Init /\ [][Next]_vars

\* Threads run, callbacks return, and whatever the kernel still has to give or
\* take arrives.  Nobody is obliged to call, and nothing obliges the peer to
\* cause an edge.
Fairness == /\ \A o \in Ops : WF_vars(Call(o))
            /\ \A d \in Directions : WF_vars(Pool(d)) /\ WF_vars(Arrive(d))
            /\ WF_vars(Epoll) /\ WF_vars(Closer)

FairSpec == Spec /\ Fairness

\* The same with a peer that never falls silent (keep-alives, other requests).
TrafficSpec == Init /\ [][NextTraffic]_vars /\ Fairness /\ WF_vars(Traffic)

-----------------------------------------------------------------------------
(* Properties *)

PoolPoints == {"idle", "take", "test", "io", "call", "rejoin", "fail"}

\* RefExact says that ref is never negative.
TypeOK == /\ ref \in Int /\ freed \in BOOLEAN /\ closed \in 0..1
          /\ list \in [Directions -> Seq(Ops)]
          /\ sched \in [Directions -> Nat]
          /\ job \in [Directions -> Nat]
          /\ op \in [Ops -> {"idle", "refused", "hold", "link", "count", "uncount",
                             "claim", "post", "out"}]
          /\ calls \in [Ops -> Nat]
          /\ left \in [Ops -> Nat]
          /\ pool \in [Directions -> PoolPoints]
          /\ batch \in [Directions -> Seq(Ops)]
          /\ cur \in [Directions -> Ops \cup {NoOp}]
          /\ next \in [Directions -> {"idle", "io", "rejoin", "fail"}]
          /\ epoll \in {"wait", "count", "uncount", "claim", "post"}
          /\ todo \subseteq Directions
          /\ watched \in Directions \cup {NoDir}
          /\ closer \in {"none", "mark", "marked", "fail reads", "fail writes", "drop", "end"}
          /\ pending \in Seq(Ops)
          /\ link \in {"up", "eof", "down"}
          /\ units \in [Directions -> Nat] /\ supply \in [Directions -> Nat]
          /\ edge \in BOOLEAN
          /\ order \in Seq(Writes) /\ wire \in Seq(Writes)

If(b) == IF b THEN 1 ELSE 0

\* Operations that have counted themselves into sched.
Counted(d) == {o \in Ops : Dir(o) = d /\ op[o] \in {"uncount", "claim", "post"}}
EpollCounted(d) == watched = d /\ epoll \in {"uncount", "claim", "post"}

\* is_reading and is_writing count the jobs in the pool and the threads that
\* are between their increment and what it leads to.
SchedExact ==
    /\ TypeOK
    /\ \A d \in Directions : sched[d] = job[d] + Cardinality(Counted(d)) + If(EpollCounted(d))

Claiming(d) == {o \in Ops : Dir(o) = d /\ op[o] \in {"claim", "post"}}
EpollClaiming(d) == watched = d /\ epoll \in {"claim", "post"}

\* read_job and write_job are list elements: they are never inserted into the
\* pool while they are still linked there, by whichever threads.
JobLinkedOnce == \A d \in Directions :
    job[d] + Cardinality(Claiming(d)) + If(EpollClaiming(d)) <= 1

\* The references: the connection's own, one per operation until its callback
\* has returned, one per job from before its insertion until its thread is done.
\* So the connection is freed when the last of them is done with it and no sooner.
Holding == {o \in Ops : /\ op[o] \in {"link", "count", "uncount", "claim", "post", "out"}
                         /\ calls[o] = 0}
Posting(d) == {o \in Ops : Dir(o) = d /\ op[o] = "post"}
JobRefs(d) == job[d] + If(pool[d] # "idle") + Cardinality(Posting(d))
                     + If(watched = d /\ epoll = "post")
RefExact ==
    /\ ref = If(closer # "end") + Cardinality(Holding) + JobRefs("read") + JobRefs("write")
    /\ freed => ref = 0

\* The lists and the thread that may have the context of an operation.
Local(d) == Range(list[d]) \cup Range(batch[d])
InCallback(d) == IF pool[d] = "call" THEN {cur[d]} ELSE {}
Held(d) == Local(d) \cup InCallback(d)
HeldBySomeone(o) == o \in Held("read") \cup Held("write") \cup Range(pending)

\* No context is in two of them, or twice in one; read_jobs_head and
\* write_jobs_head are not mixed up.
Separate ==
    /\ IsInjective(pending)
    /\ \A d \in Directions :
        /\ IsInjective(list[d]) /\ IsInjective(batch[d])
        /\ Range(list[d]) \cap Range(batch[d]) = {}
        /\ Local(d) \cap InCallback(d) = {}
        /\ Held(d) \cap Range(pending) = {}
        /\ \A o \in Held(d) : Dir(o) = d

\* An accepted operation is called back at most once, and until then exactly one
\* list or thread has it; a refused one is never called back.
CalledOnce ==
    /\ Separate
    /\ \A o \in Ops : IF op[o] \in {"idle", "refused", "hold", "link"}
                       THEN calls[o] = 0 /\ ~HeldBySomeone(o)
                       ELSE calls[o] = 1 - If(HeldBySomeone(o))

\* How many units of a write are on the wire.
Sent(o) == Cardinality({i \in DOMAIN wire : wire[i] = o})

\* A write is continued where it stopped before the next one begins, whatever blocks, fails
\* or closes: a unit on the wire comes behind all units of all writes that were linked
\* before its own, and no write sends more than it has.
WireInOrder ==
    /\ \A i \in DOMAIN wire : \E n \in DOMAIN order :
          /\ wire[i] = order[n]
          /\ \A m \in 1..(n - 1) :
                /\ Sent(order[m]) = Size[order[m]]
                /\ \A j \in DOMAIN wire : wire[j] = order[m] => j < i
    /\ \A o \in Writes : Sent(o) <= Size[o]

\* Nobody is inside connRead or connWrite of a connection that is freed.  This
\* does not hold: an operation may be performed, called back and released by other
\* threads before its caller raises is_reading or is_writing (68, 98).
NoUseAfterFree == freed => \A o \in Ops : op[o] \in {"idle", "refused", "out"}

\* Every accepted operation gets its callback.
EventuallyCalled == \A o \in Ops : op[o] = "out" ~> calls[o] = 1

\* A connection that has begun to close is freed.  This does not hold: a read job
\* may link what it could not finish (238-242) after the closer took the lists.
CloseCompletes == closer = "mark" ~> freed
=============================================================================
