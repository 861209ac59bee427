----------------------------- MODULE ThreadPool -----------------------------
(***************************************************************************)
(* The one-thread pool of corecode/util/ThreadPool1.c: a mutex, a          *)
(* condition variable, the list work_head that inserters fill, the list    *)
(* runing_head that only the worker touches, and the state INIT/START/STOP.*)
(*                                                                         *)
(* Every critical section under lck is one step; the worker additionally   *)
(* has the control point "top", where it holds lck at the head of its loop *)
(* and everyone else is locked out.  The job a worker executes may itself  *)
(* insert jobs, its own included: it has been unlinked by then.            *)
(***************************************************************************)
EXTENDS Naturals, Sequences, Functions

CONSTANTS Jobs,        \* the Job structures of the pool's users
          NoJob,       \* no job is being executed
          MaxInserts   \* bound: insertions accepted per job

ASSUME JobsAssumption == NoJob \notin Jobs /\ MaxInserts \in Nat

VARIABLES state,       \* priv->state
          work,        \* priv->work_head
          running,     \* priv->runing_head
          current,     \* the job whose doJob is being called
          worker,      \* control point of threadPoolDoThread
          signalled,   \* the worker's pthread_cond_wait may return
          owner,       \* control point of the thread that creates and destroys the pool
          accepted,    \* history: insertions that returned true, per job
          executed     \* history: calls of doJob that returned, per job

vars == <<state, work, running, current, worker, signalled, owner, accepted, executed>>

\* A job structure is in no list: the only time a user may insert it.
Unlinked(j) == j \notin Range(work) \cup Range(running)

LockFree == worker # "top"

Init == /\ state = "INIT"
        /\ work = <<>>
        /\ running = <<>>
        /\ current = NoJob
        /\ worker = "created"
        /\ signalled = FALSE
        /\ owner = "init"
        /\ accepted = [j \in Jobs |-> 0]
        /\ executed = [j \in Jobs |-> 0]

-----------------------------------------------------------------------------
(* The thread that owns the pool. *)

\* initThreadPool1 returns once the worker has set the state.
InitDone == /\ owner = "init"
            /\ state # "INIT"
            /\ owner' = "ready"
            /\ UNCHANGED <<state, work, running, current, worker, signalled, accepted, executed>>

\* Mutant: what waits is dropped.
StopDropping == /\ owner = "ready" /\ LockFree
                /\ state' = "STOP" /\ work' = <<>>
                /\ signalled' = (worker = "wait")
                /\ owner' = "joining"
                /\ UNCHANGED <<running, current, worker, accepted, executed>>

\* Mutant: no signal.
StopSilently == /\ owner = "ready" /\ LockFree
                /\ state' = "STOP"
                /\ owner' = "joining"
                /\ UNCHANGED <<work, running, current, worker, signalled, accepted, executed>>

\* destroy: set STOP and wake the worker, under lck.
Stop == /\ owner = "ready"
        /\ LockFree
        /\ state' = "STOP"
        /\ signalled' = (worker = "wait")
        /\ owner' = "joining"
        /\ UNCHANGED <<work, running, current, worker, accepted, executed>>

\* destroy: pthread_join has returned; the private structure is freed.
Free == /\ owner = "joining"
        /\ worker = "exited"
        /\ owner' = "freed"
        /\ UNCHANGED <<state, work, running, current, worker, signalled, accepted, executed>>

-----------------------------------------------------------------------------
(* Users of the pool.  A user inserts only while the pool exists. *)

\* Mutant: the state is not tested.
InsertableStopped(j) == /\ owner \in {"ready", "joining"} /\ LockFree
                        /\ Unlinked(j) /\ accepted[j] < MaxInserts

Insertable(j) == /\ owner \in {"ready", "joining"}
                 /\ LockFree
                 /\ Unlinked(j)
                 /\ state # "STOP"
                 /\ accepted[j] < MaxInserts

\* Mutant: no signal.
AcceptSilently(j) == /\ accepted' = [accepted EXCEPT ![j] = @ + 1]
                     /\ UNCHANGED <<state, running, current, worker, signalled, owner, executed>>

\* The half of insertTail and insertHead that they share.
Accept(j) == /\ accepted' = [accepted EXCEPT ![j] = @ + 1]
             /\ signalled' = (signalled \/ worker = "wait")
             /\ UNCHANGED <<state, running, current, worker, owner, executed>>

InsertTail(j) == /\ Insertable(j)
                 /\ work' = Append(work, j)
                 /\ Accept(j)

InsertHead(j) == /\ Insertable(j)
                 /\ work' = <<j>> \o work
                 /\ Accept(j)

-----------------------------------------------------------------------------
(* threadPoolDoThread *)

WorkerStart == /\ worker = "created"
               /\ state' = "START"
               /\ worker' = "top"
               /\ UNCHANGED <<work, running, current, signalled, owner, accepted, executed>>

\* Move everything that waits to runing_head, and release lck.
TakeWork == /\ running' = running \o work
            /\ work' = <<>>
            /\ worker' = "batch"

\* Mutant: the state is tested before the list.
WorkerExitAtOnce == /\ worker = "top"
                    /\ state = "STOP"
                    /\ worker' = "exited"
                    /\ UNCHANGED <<state, work, running, current, signalled, owner, accepted, executed>>

WorkerExit == /\ worker = "top"
              /\ work = <<>>
              /\ state = "STOP"
              /\ worker' = "exited"
              /\ UNCHANGED <<state, work, running, current, signalled, owner, accepted, executed>>

\* pthread_cond_wait releases lck.
WorkerWait == /\ worker = "top"
              /\ work = <<>>
              /\ state # "STOP"
              /\ worker' = "wait"
              /\ signalled' = FALSE
              /\ UNCHANGED <<state, work, running, current, owner, accepted, executed>>

WorkerTake == /\ worker = "top"
              /\ work # <<>>
              /\ TakeWork
              /\ UNCHANGED <<state, current, signalled, owner, accepted, executed>>

\* pthread_cond_wait returns; the emptiness of the list is not tested again.
WorkerWake == /\ worker = "wait"
              /\ signalled
              /\ signalled' = FALSE
              /\ TakeWork
              /\ UNCHANGED <<state, current, owner, accepted, executed>>

\* pthread_cond_wait may also return unsignalled.
SpuriousWake == /\ worker = "wait"
                /\ ~signalled
                /\ TakeWork
                /\ UNCHANGED <<state, current, signalled, owner, accepted, executed>>

\* __thread_pool_exec_one_by_one: listDel, then doJob is called ...
WorkerCall == /\ worker = "batch"
              /\ running # <<>>
              /\ current' = Head(running)
              /\ running' = Tail(running)
              /\ worker' = "job"
              /\ UNCHANGED <<state, work, signalled, owner, accepted, executed>>

\* ... and returns.
WorkerReturn == /\ worker = "job"
                /\ executed' = [executed EXCEPT ![current] = @ + 1]
                /\ current' = NoJob
                /\ worker' = "batch"
                /\ UNCHANGED <<state, work, running, signalled, owner, accepted>>

\* The batch is done: the worker takes lck again.
WorkerRelock == /\ worker = "batch"
                /\ running = <<>>
                /\ worker' = "top"
                /\ UNCHANGED <<state, work, running, current, signalled, owner, accepted, executed>>

Worker == \/ WorkerStart \/ WorkerExit \/ WorkerWait \/ WorkerTake
          \/ WorkerWake \/ WorkerCall \/ WorkerReturn \/ WorkerRelock

Done == owner = "freed" /\ UNCHANGED vars

Next == \/ InitDone \/ Stop \/ Free
        \/ \E j \in Jobs : InsertTail(j) \/ InsertHead(j)
        \/ Worker \/ SpuriousWake
        \/ Done

Spec == Init /\ [][Next]_vars

\* The worker thread runs and the owner's two waits end when they may.  Nobody
\* is obliged to insert, to destroy, or to be woken for no reason.
Fairness == WF_vars(Worker) /\ WF_vars(InitDone) /\ WF_vars(Free)

FairSpec == Spec /\ Fairness

-----------------------------------------------------------------------------
(* Properties *)

TypeOK == /\ state \in {"INIT", "START", "STOP"}
          /\ work \in Seq(Jobs)
          /\ running \in Seq(Jobs)
          /\ current \in Jobs \cup {NoJob}
          /\ worker \in {"created", "top", "wait", "batch", "job", "exited"}
          /\ signalled \in BOOLEAN
          /\ owner \in {"init", "ready", "joining", "freed"}
          /\ accepted \in [Jobs -> Nat]
          /\ executed \in [Jobs -> Nat]

\* The worker never sleeps through work or through destroy: while it is in
\* pthread_cond_wait with no wake-up on its way there is nothing to execute and
\* nobody in pthread_join.
NoLostWakeup == (worker = "wait" /\ ~signalled) => (work = <<>> /\ state # "STOP")

\* Insertions are executed, being executed, or in one of the two lists ...
Accounted ==
    \A j \in Jobs :
        accepted[j] = executed[j] + (IF current = j THEN 1 ELSE 0)
                                  + (IF Unlinked(j) THEN 0 ELSE 1)

\* ... and a job structure is linked at most once in the two together.
LinkedOnce == IsInjective(running \o work)

\* Every accepted insertion is in exactly one place, so that its job is executed
\* once and its links are never overwritten while it is in a list, whatever the
\* jobs themselves insert and whenever destroy begins.
InOnePlace == Accounted /\ LinkedOnce

\* destroy returns only when all that was accepted has been executed: a pool
\* that is stopped drains, it does not drop.
DestroyDrains == owner = "freed" => accepted = executed

\* An accepted job is executed in the end, whatever else happens to the pool.
EventuallyExecuted ==
    \A j \in Jobs : \A n \in 1..MaxInserts : accepted[j] = n ~> executed[j] >= n

\* The users' view: one queue, what the worker has taken followed by what it
\* has not.
Queue == INSTANCE JobQueue WITH
            queue <- running \o work,
            busy  <- current,
            phase <- IF owner = "freed" THEN "gone"
                     ELSE IF state = "STOP" THEN "closed" ELSE "open"

\* Seen by its users the pool is one queue: insertTail is first in first out,
\* insertHead never overtakes into the past, nothing is accepted after destroy
\* began and destroy returns on an empty queue.
ImplementsJobQueue == Queue!Spec

\* pthread_join in destroy returns.
DestroyReturns == owner = "joining" ~> owner = "freed"

\* What is accepted is executed in the end and destroy returns, however insertions, the
\* worker's waiting and destroy interleave.
WorkAndPoolEnd == EventuallyExecuted /\ DestroyReturns
=============================================================================
