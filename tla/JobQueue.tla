------------------------------ MODULE JobQueue ------------------------------
(***************************************************************************)
(* What a thread pool promises its users (h/util/ThreadPool.h): one queue. *)
(* insertTail puts a job behind everything accepted before; insertHead     *)
(* puts it before everything the worker has not yet taken, which the user  *)
(* cannot tell from any position in the queue.  Jobs are executed from the *)
(* front, one at a time.  After close no insertion is accepted, and the    *)
(* pool is gone only when the queue is empty.                              *)
(***************************************************************************)
EXTENDS Naturals, Sequences

CONSTANTS Jobs, NoJob

VARIABLES queue,    \* accepted and not yet executed
          busy,     \* the job being executed
          phase     \* open, closed, gone

qvars == <<queue, busy, phase>>

InsertAt(i, j) == SubSeq(queue, 1, i) \o <<j>> \o SubSeq(queue, i + 1, Len(queue))

Init == queue = <<>> /\ busy = NoJob /\ phase = "open"

PutTail(j) == /\ phase = "open"
              /\ queue' = Append(queue, j)
              /\ UNCHANGED <<busy, phase>>

PutHead(j) == /\ phase = "open"
              /\ \E i \in 0..Len(queue) : queue' = InsertAt(i, j)
              /\ UNCHANGED <<busy, phase>>

Begin == /\ busy = NoJob
         /\ queue # <<>>
         /\ busy' = Head(queue)
         /\ queue' = Tail(queue)
         /\ UNCHANGED phase

End == /\ busy # NoJob
       /\ busy' = NoJob
       /\ UNCHANGED <<queue, phase>>

Close == /\ phase = "open"
         /\ phase' = "closed"
         /\ UNCHANGED <<queue, busy>>

Gone == /\ phase = "closed"
        /\ queue = <<>>
        /\ busy = NoJob
        /\ phase' = "gone"
        /\ UNCHANGED <<queue, busy>>

Next == \/ \E j \in Jobs : PutTail(j) \/ PutHead(j)
        \/ Begin \/ End \/ Close \/ Gone

Spec == Init /\ [][Next]_qvars
=============================================================================
