----------------------------- MODULE ThreadPools -----------------------------
(***************************************************************************)
(* The pools behind ThreadPool.h as values: one thread (ThreadPool1.c, of  *)
(* which ThreadPool.tla shows that it runs each accepted job once and ends *)
(* empty), or several of those (ThreadPool2.c).  A pool of no thread       *)
(* (ThreadPool3.c) runs a job in the step that inserts it.                 *)
(***************************************************************************)
EXTENDS Naturals, Sequences

CONSTANT NoJob

NewSub == [jobs |-> <<>>, running |-> NoJob, freed |-> FALSE]

\* initThreadPool: misused records an insertion that came after the thread's end; the
\* callers in SocketLinux.c assert that there is none.
NewPool(n) == [sub |-> [i \in 1..n |-> NewSub], turn |-> 0, misused |-> FALSE]

Put(p, i, job) == IF p.sub[i].freed THEN [p EXCEPT !.misused = TRUE]
                  ELSE [p EXCEPT !.sub[i].jobs = Append(@, job)]

\* current_idx, of which only the remainder matters.
InsertTail(p, job) == LET n == Len(p.sub)
                      IN [Put(p, p.turn + 1, job) EXCEPT !.turn = (@ + 1) % n]
InsertTailHash(p, job, hash) == Put(p, (hash % Len(p.sub)) + 1, job)

\* A thread takes its next job; what it does with it is part of the step in which it
\* takes it, or it goes on running as another job.
CanTake(p, i, job) == /\ i \in DOMAIN p.sub /\ p.sub[i].running = NoJob
                      /\ p.sub[i].jobs # <<>> /\ Head(p.sub[i].jobs) = job
Take(p, i, next) == [p EXCEPT !.sub[i].running = next, !.sub[i].jobs = Tail(@)]
GoOn(p, i, next) == [p EXCEPT !.sub[i].running = next]
Return(p, i) == GoOn(p, i, NoJob)

\* destroy: the threads are stopped and joined one by one; a thread that is told to stop
\* ends when it has nothing left to do.
Freed(p) == \A i \in DOMAIN p.sub : p.sub[i].freed
Leaving(p) == CHOOSE i \in DOMAIN p.sub : ~p.sub[i].freed /\ \A k \in 1..(i - 1) : p.sub[k].freed
Drained(p, i) == p.sub[i].jobs = <<>> /\ p.sub[i].running = NoJob
CanDestroy(p) == ~Freed(p) /\ Drained(p, Leaving(p))
Destroy(p) == [p EXCEPT !.sub[Leaving(p)].freed = TRUE]

\* Jobs that are queued or being executed.
Jobs(p) == UNION {{p.sub[i].jobs[k] : k \in DOMAIN p.sub[i].jobs} \cup ({p.sub[i].running} \ {NoJob}) :
                  i \in DOMAIN p.sub}
=============================================================================
