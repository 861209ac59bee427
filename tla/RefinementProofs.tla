-------------------------- MODULE RefinementProofs --------------------------
(***************************************************************************)
(* Proofs about the two components that have an abstract specification of  *)
(* what they promise.                                                      *)
(*                                                                         *)
(* The one-thread pool, for any set of jobs and any bound on the           *)
(* insertions: its type, no lost wake-up, exactly-once execution, the      *)
(* drain of destroy, and the implementation of the job queue.              *)
(*                                                                         *)
(* The wire, for any requests, paths and maps, any plans of calls and any  *)
(* sizes of the read buffers: the decoders of the three services cut the   *)
(* stream where the encoders have put the ends of the messages, which      *)
(* makes it an implementation of the exchange of messages.                 *)
(***************************************************************************)
EXTENDS ThreadPool, Wire, FunctionTheorems, FiniteSetTheorems, SequenceTheorems,
        WellFoundedInduction, TLAPS

-----------------------------------------------------------------------------
(* The one-thread pool *)

\* Which control points of the worker, of the owner and of the state go together.
Control ==
    /\ worker = "job" <=> current # NoJob
    /\ worker = "created" <=> state = "INIT"
    /\ running # <<>> => worker \in {"batch", "job"}
    /\ signalled => worker = "wait"
    /\ state = "STOP" <=> owner \in {"joining", "freed"}
    /\ owner = "init" => work = <<>>
    /\ state = "INIT" => owner = "init"
    /\ worker = "exited" => (state = "STOP" /\ work = <<>>)
    /\ owner = "freed" => worker = "exited"

IInv == TypeOK /\ Control /\ NoLostWakeup /\ Accounted /\ LinkedOnce

-----------------------------------------------------------------------------
(* Sequences of jobs *)

\* An empty list holds no job.
LEMMA RangeEmpty == Range(<<>>) = {}
  BY DEF Range

\* A list of one job holds that job.
LEMMA RangeSingle == \A j : Range(<<j>>) = {j}
  BY DEF Range

\* A list that is not empty is its first element followed by the rest: what listDel
\* takes and what it leaves.
LEMMA HeadAndTail ==
  ASSUME NEW S, NEW s \in Seq(S), s # <<>>
  PROVE  /\ Head(s) \in S
         /\ Tail(s) \in Seq(S)
         /\ s = <<Head(s)>> \o Tail(s)
  BY HeadTailProperties, ConcatProperties

\* Putting an element that a repetition-free sequence lacks anywhere into it
\* leaves it repetition-free.
LEMMA InsertKeepsInjective ==
  ASSUME NEW S, NEW s \in Seq(S), NEW t \in Seq(S), NEW j \in S,
         IsInjective(s \o t), j \notin Range(s), j \notin Range(t)
  PROVE  IsInjective(s \o (<<j>> \o t))
<1> DEFINE u == s \o (<<j>> \o t)
           old(i) == IF i <= Len(s) THEN i ELSE i - 1
<1>1. /\ u \in Seq(S)
      /\ Len(u) = Len(s) + 1 + Len(t)
      /\ \A i \in 1..Len(u) : u[i] = IF i <= Len(s) THEN s[i]
                                     ELSE IF i = Len(s) + 1 THEN j
                                     ELSE t[i - Len(s) - 1]
  BY ConcatProperties
<1>2. /\ s \o t \in Seq(S)
      /\ Len(s \o t) = Len(s) + Len(t)
      /\ \A i \in 1..(Len(s) + Len(t)) :
            (s \o t)[i] = IF i <= Len(s) THEN s[i] ELSE t[i - Len(s)]
  BY ConcatProperties
<1>3. /\ \A i \in 1..Len(s) : s[i] # j
      /\ \A i \in 1..Len(t) : t[i] # j
  BY DEF Range
<1>4. ASSUME NEW i \in 1..Len(u), NEW k \in 1..Len(u), u[i] = u[k], i # k
      PROVE  FALSE
  <2>1. i # Len(s) + 1 /\ k # Len(s) + 1
    BY <1>1, <1>3, <1>4
  <2>2. /\ old(i) \in 1..(Len(s) + Len(t))
        /\ old(k) \in 1..(Len(s) + Len(t))
        /\ old(i) # old(k)
    BY <1>1, <1>4, <2>1
  <2>3. (s \o t)[old(i)] = u[i] /\ (s \o t)[old(k)] = u[k]
    BY <1>1, <1>2, <2>1, <2>2
  <2>4. (s \o t)[old(i)] = (s \o t)[old(k)]
    BY <1>4, <2>3
  <2>5. DOMAIN (s \o t) = 1..(Len(s) + Len(t))
    BY <1>2
  <2>6. old(i) = old(k)
    <3> HIDE DEF old, u
    <3> QED BY <2>2, <2>4, <2>5 DEF IsInjective
  <2>7. QED BY <2>2, <2>6
<1>5. DOMAIN u = 1..Len(u)
  BY <1>1
<1>6. QED BY <1>4, <1>5 DEF IsInjective

\* Removing the head of a repetition-free sequence leaves it repetition-free
\* and without that element.
LEMMA TailOfInjective ==
  ASSUME NEW S, NEW s \in Seq(S), s # <<>>, IsInjective(s)
  PROVE  IsInjective(Tail(s)) /\ Range(Tail(s)) = Range(s) \ {Head(s)}
<1>1. /\ Tail(s) \in Seq(S) /\ Len(Tail(s)) = Len(s) - 1
      /\ \A i \in 1..Len(Tail(s)) : Tail(s)[i] = s[i + 1]
  BY HeadTailProperties
<1>2. IsInjective(Tail(s))
  BY <1>1 DEF IsInjective
<1>3. Range(Tail(s)) \subseteq Range(s)
  BY <1>1 DEF Range
<1>4. Head(s) = s[1] /\ 1 \in DOMAIN s
  OBVIOUS
<1>5. \A i \in 1..Len(Tail(s)) : Tail(s)[i] # Head(s)
  BY <1>1, <1>4 DEF IsInjective
<1>6. ASSUME NEW i \in 2..Len(s) PROVE s[i] \in Range(Tail(s))
  BY <1>1, <1>6, i - 1 \in DOMAIN Tail(s), Tail(s)[i - 1] = s[i] DEF Range
<1>7. QED BY <1>2, <1>3, <1>4, <1>5, <1>6, <1>1 DEF Range

-----------------------------------------------------------------------------
(* The inductive invariant *)

\* The pool initThreadPool1 sets up satisfies the inductive invariant.
THEOREM InitIInv == Init => IInv
<1> SUFFICES ASSUME Init PROVE IInv
  OBVIOUS
<1>1. TypeOK /\ Control /\ NoLostWakeup
  <2>1. TypeOK
    <3>1. <<>> \in Seq(Jobs)
      OBVIOUS
    <3>2. [j \in Jobs |-> 0] \in [Jobs -> Nat]
      OBVIOUS
    <3>3. QED BY <3>1, <3>2 DEF Init, TypeOK
  <2>2. Control
    BY DEF Init, Control
  <2>3. QED BY <2>1, <2>2 DEF Init, NoLostWakeup
<1>2. Accounted
  BY JobsAssumption, RangeEmpty DEF Init, Accounted, Unlinked
<1>3. LinkedOnce
  BY DEF Init, LinkedOnce, IsInjective
<1>4. QED BY <1>1, <1>2, <1>3 DEF IInv

\* Steps that move no job: the lists, the current job and the counts stay.
LEMMA KeepsJobs ==
  ASSUME IInv, UNCHANGED <<work, running, current, accepted, executed>>
  PROVE  Accounted' /\ LinkedOnce'
  BY DEF IInv, Accounted, LinkedOnce, Unlinked

\* initThreadPool1 and destroy keep the inductive invariant: destroy wakes the
\* worker as it sets STOP, and moves no job.
LEMMA OwnerKeeps ==
  ASSUME IInv, InitDone \/ Stop \/ Free
  PROVE  IInv'
<1>1. Accounted' /\ LinkedOnce'
  BY KeepsJobs DEF InitDone, Stop, Free
<1>2. TypeOK'
  BY DEF IInv, TypeOK, InitDone, Stop, Free
<1>3. Control' /\ NoLostWakeup'
  <2>1. CASE InitDone
    BY <2>1 DEF IInv, TypeOK, Control, NoLostWakeup, InitDone
  <2>2. CASE Stop
    BY <2>2 DEF IInv, TypeOK, Control, NoLostWakeup, Stop
  <2>3. CASE Free
    BY <2>3 DEF IInv, TypeOK, Control, NoLostWakeup, Free
  <2>4. QED BY <2>1, <2>2, <2>3
<1>4. QED BY <1>1, <1>2, <1>3 DEF IInv

\* insertTail and insertHead keep the inductive invariant: the job was in no list,
\* and the worker is signalled with the insertion.
LEMMA InsertKeeps ==
  ASSUME IInv, NEW j \in Jobs, InsertTail(j) \/ InsertHead(j)
  PROVE  IInv'
<1> USE DEF IInv
<1>1. work \in Seq(Jobs) /\ running \in Seq(Jobs) /\ <<j>> \in Seq(Jobs)
  BY DEF TypeOK
<1>2. work' \in Seq(Jobs) /\ Range(work') = Range(work) \cup {j}
  <2>1. work' = work \o <<j>> \/ work' = <<j>> \o work
    BY <1>1, AppendIsConcat DEF InsertTail, InsertHead
  <2>2. /\ work \o <<j>> \in Seq(Jobs) /\ <<j>> \o work \in Seq(Jobs)
    <3>1. work \o <<j>> \in Seq(Jobs)
      BY ONLY <1>1, ConcatProperties
    <3>2. <<j>> \o work \in Seq(Jobs)
      BY ONLY <1>1, ConcatProperties
    <3>3. QED BY <3>1, <3>2
  <2>3. /\ Range(work \o <<j>>) = Range(work) \cup Range(<<j>>)
        /\ Range(<<j>> \o work) = Range(<<j>>) \cup Range(work)
    BY <1>1, RangeConcatenation, ZenonT(30)
  <2>4. QED BY <2>1, <2>2, <2>3, RangeSingle
<1>3. TypeOK'
  <2>1. /\ accepted' = [accepted EXCEPT ![j] = @ + 1]
        /\ signalled' = (signalled \/ worker = "wait")
        /\ UNCHANGED <<state, running, current, worker, owner, executed>>
    BY DEF InsertTail, InsertHead, Accept
  <2>2. accepted' \in [Jobs -> Nat] /\ signalled' \in BOOLEAN
    BY <2>1 DEF TypeOK
  <2>3. QED BY <1>2, <2>1, <2>2 DEF TypeOK
<1>4. Control' /\ NoLostWakeup'
  BY DEF TypeOK, Control, NoLostWakeup, InsertTail, InsertHead, Insertable, Accept, LockFree
<1>5. Accounted'
  <2> SUFFICES ASSUME NEW i \in Jobs
               PROVE  accepted'[i] = executed'[i] + (IF current' = i THEN 1 ELSE 0)
                                                  + (IF Unlinked(i)' THEN 0 ELSE 1)
    BY DEF Accounted
  <2>1. Unlinked(i)' <=> (Unlinked(i) /\ i # j)
    BY <1>2 DEF Unlinked, InsertTail, InsertHead, Accept
  <2>2. accepted'[i] = (IF i = j THEN accepted[i] + 1 ELSE accepted[i])
    BY DEF TypeOK, InsertTail, InsertHead, Accept
  <2>3. current' = current /\ executed' = executed /\ Unlinked(j)
    BY DEF InsertTail, InsertHead, Accept, Insertable
  <2>4. QED BY <2>1, <2>2, <2>3 DEF Accounted, TypeOK
<1>6. LinkedOnce'
  <2>1. IsInjective(running \o work) /\ j \notin Range(running) /\ j \notin Range(work)
    BY DEF LinkedOnce, InsertTail, InsertHead, Insertable, Unlinked
  <2>2. CASE InsertHead(j)
    <3>1. IsInjective(running \o (<<j>> \o work))
      BY <1>1, <2>1, InsertKeepsInjective
    <3>2. QED BY <3>1, <2>2 DEF InsertHead, Accept, LinkedOnce
  <2>3. CASE InsertTail(j)
    <3> DEFINE q == running \o work
    <3>1. q \in Seq(Jobs) /\ q \o <<>> = q /\ <<j>> \o <<>> = <<j>>
          /\ <<>> \in Seq(Jobs) /\ Range(<<>>) = {}
          /\ Range(q) = Range(running) \cup Range(work)
      BY <1>1, ConcatProperties, ConcatEmptySeq, RangeEmpty, RangeConcatenation
    <3>2. IsInjective(q \o <<j>>)
      <4> HIDE DEF q
      <4>1. IsInjective(q \o (<<j>> \o <<>>))
        BY <2>1, <3>1, InsertKeepsInjective DEF q
      <4>2. QED BY <3>1, <4>1
    <3>3. running \o (work \o <<j>>) = q \o <<j>>
      BY <1>1, ConcatAssociative
    <3>4. work' = work \o <<j>> /\ running' = running
      BY <1>1, <2>3, AppendIsConcat DEF InsertTail, Accept
    <3>5. QED BY <3>2, <3>3, <3>4 DEF LinkedOnce
  <2>4. QED BY <2>2, <2>3
<1>7. QED BY <1>3, <1>4, <1>5, <1>6

\* The worker's steps between its waits keep the inductive invariant; above all it
\* goes to sleep on an empty list only.
LEMMA WorkerMovesKeep ==
  ASSUME IInv, WorkerStart \/ WorkerExit \/ WorkerWait \/ WorkerRelock
  PROVE  IInv'
<1>1. Accounted' /\ LinkedOnce'
  BY KeepsJobs DEF WorkerStart, WorkerExit, WorkerWait, WorkerRelock
<1>2. TypeOK'
  BY DEF IInv, TypeOK, WorkerStart, WorkerExit, WorkerWait, WorkerRelock
<1>3. Control'
  BY DEF IInv, TypeOK, Control, WorkerStart, WorkerExit, WorkerWait, WorkerRelock
<1>4. NoLostWakeup'
  BY DEF IInv, Control, NoLostWakeup, WorkerStart, WorkerExit, WorkerWait, WorkerRelock
<1>5. QED BY <1>1, <1>2, <1>3, <1>4 DEF IInv

\* Moving everything that waits to runing_head keeps the inductive invariant:
\* jobs change their list but not their number.
LEMMA TakeKeeps ==
  ASSUME IInv, WorkerTake \/ WorkerWake \/ SpuriousWake
  PROVE  IInv'
<1> USE DEF IInv
<1>1. work \in Seq(Jobs) /\ running \in Seq(Jobs)
  BY DEF TypeOK
<1>2. /\ running' = running \o work /\ work' = <<>> /\ worker' = "batch"
      /\ UNCHANGED <<state, current, owner, accepted, executed>>
  BY DEF WorkerTake, WorkerWake, SpuriousWake, TakeWork
<1>3. running' \in Seq(Jobs) /\ Range(running') = Range(running) \cup Range(work)
  BY <1>1, <1>2, ConcatProperties, RangeConcatenation
<1>4. TypeOK'
  <2>1. signalled' \in BOOLEAN
    BY DEF TypeOK, WorkerTake, WorkerWake, SpuriousWake
  <2>2. work' \in Seq(Jobs) /\ worker' \in {"created", "top", "wait", "batch", "job", "exited"}
    BY <1>2
  <2>3. QED BY <1>2, <1>3, <2>1, <2>2 DEF TypeOK
<1>5. Control' /\ NoLostWakeup'
  BY <1>2, JobsAssumption DEF TypeOK, Control, NoLostWakeup, WorkerTake, WorkerWake, SpuriousWake
<1>6. Accounted'
  BY <1>2, <1>3, RangeEmpty DEF Accounted, Unlinked
<1>7. LinkedOnce'
  BY <1>2, <1>3, ConcatEmptySeq DEF LinkedOnce
<1>8. QED BY <1>4, <1>5, <1>6, <1>7

\* Unlinking the next job and calling it keeps the inductive invariant: it was
\* linked once, so it is nowhere else afterwards.
LEMMA CallKeeps ==
  ASSUME IInv, WorkerCall
  PROVE  IInv'
<1> USE DEF IInv
<1>1. /\ work \in Seq(Jobs) /\ running \in Seq(Jobs) /\ running # <<>>
      /\ current' = Head(running) /\ running' = Tail(running) /\ worker' = "job"
      /\ UNCHANGED <<state, work, signalled, owner, accepted, executed>>
  BY DEF TypeOK, WorkerCall
<1>2. Head(running) \in Jobs /\ Tail(running) \in Seq(Jobs)
      /\ running = <<Head(running)>> \o Tail(running)
  BY <1>1, HeadAndTail
<1> DEFINE q == running \o work
<1>3. q = <<Head(running)>> \o (Tail(running) \o work)
  BY <1>1, <1>2, ConcatAssociative
<1>4. q \in Seq(Jobs) /\ q # <<>> /\ Head(q) = Head(running) /\ Tail(q) = Tail(running) \o work
  <2>1. Tail(running) \o work \in Seq(Jobs)
    BY <1>1, <1>2, ConcatProperties
  <2>2. QED BY <1>2, <1>3, <2>1
<1>5. IsInjective(Tail(q)) /\ Range(Tail(q)) = Range(q) \ {Head(q)}
  <2> HIDE DEF q
  <2> QED BY <1>4, TailOfInjective DEF LinkedOnce, q
<1>6. /\ Range(q) = Range(running) \cup Range(work)
      /\ Range(Tail(q)) = Range(Tail(running)) \cup Range(work)
      /\ Head(q) \in Range(q)
  <2>1. Range(q) = Range(running) \cup Range(work)
    BY <1>1, RangeConcatenation
  <2>2. Range(Tail(running) \o work) = Range(Tail(running)) \cup Range(work)
    BY <1>1, <1>2, RangeConcatenation, ZenonT(30)
  <2>3. Head(running) \in Range(running)
    BY <1>1 DEF Range
  <2>4. QED BY <1>4, <2>1, <2>2, <2>3
<1>7. TypeOK'
  BY <1>1, <1>2 DEF TypeOK
<1>8. Control' /\ NoLostWakeup'
  BY <1>1, <1>2, JobsAssumption DEF TypeOK, Control, NoLostWakeup, WorkerCall
<1>9. Accounted'
  <2> SUFFICES ASSUME NEW i \in Jobs
               PROVE  accepted'[i] = executed'[i] + (IF current' = i THEN 1 ELSE 0)
                                                  + (IF Unlinked(i)' THEN 0 ELSE 1)
    BY DEF Accounted
  <2> HIDE DEF q
  <2>1. Unlinked(i) <=> i \notin Range(q)
    BY <1>6 DEF Unlinked
  <2>5. current' = i <=> i = Head(q)
    BY <1>1, <1>4
  <2>2. Unlinked(i)' <=> (i \notin Range(q) \/ i = Head(q))
    BY <1>1, <1>5, <1>6 DEF Unlinked
  <2>3. current = NoJob /\ i # NoJob
    BY JobsAssumption DEF Control, WorkerCall
  <2>4. accepted[i] = executed[i] + (IF Unlinked(i) THEN 0 ELSE 1)
    BY <2>3 DEF Accounted, TypeOK
  <2>6. QED BY <1>1, <1>6, <2>1, <2>2, <2>4, <2>5 DEF TypeOK
<1>10. LinkedOnce'
  BY <1>1, <1>4, <1>5 DEF LinkedOnce
<1>11. QED BY <1>7, <1>8, <1>9, <1>10

\* The return of a job keeps the inductive invariant: it is counted as executed in
\* the step in which it ceases to be current.
LEMMA ReturnKeeps ==
  ASSUME IInv, WorkerReturn
  PROVE  IInv'
<1> USE DEF IInv
<1>1. TypeOK' /\ Control' /\ NoLostWakeup' /\ LinkedOnce'
  BY DEF TypeOK, Control, NoLostWakeup, LinkedOnce, WorkerReturn
<1>2. Accounted'
  <2> SUFFICES ASSUME NEW i \in Jobs
               PROVE  accepted'[i] = executed'[i] + (IF current' = i THEN 1 ELSE 0)
                                                  + (IF Unlinked(i)' THEN 0 ELSE 1)
    BY DEF Accounted
  <2>1. /\ current' = NoJob /\ i # NoJob /\ current \in Jobs
        /\ accepted' = accepted /\ (Unlinked(i)' <=> Unlinked(i))
    BY JobsAssumption DEF TypeOK, Control, WorkerReturn, Unlinked
  <2>2. executed'[i] = IF current = i THEN executed[i] + 1 ELSE executed[i]
    BY <2>1 DEF TypeOK, WorkerReturn
  <2>3. QED BY <2>1, <2>2 DEF Accounted, TypeOK
<1>3. QED BY <1>1, <1>2

\* Every step of the pool and of its users keeps the inductive invariant.
THEOREM StepIInv == IInv /\ [Next]_vars => IInv'
<1> SUFFICES ASSUME IInv, [Next]_vars PROVE IInv'
  OBVIOUS
<1>1. CASE InitDone \/ Stop \/ Free
  BY <1>1, OwnerKeeps
<1>2. CASE \E j \in Jobs : InsertTail(j) \/ InsertHead(j)
  BY <1>2, InsertKeeps
<1>3. CASE Worker \/ SpuriousWake
  BY <1>3, WorkerMovesKeep, TakeKeeps, CallKeeps, ReturnKeeps DEF Worker
<1>4. CASE UNCHANGED vars
  BY <1>4 DEF vars, IInv, TypeOK, Control, NoLostWakeup, Accounted, LinkedOnce, Unlinked
<1>5. QED BY <1>1, <1>2, <1>3, <1>4 DEF Next, Done

\* The inductive invariant holds in every reachable state, for any set of jobs and
\* any number of insertions.
THEOREM Invariance == Spec => []IInv
<1>1. QED BY InitIInv, StepIInv, PTL DEF Spec

-----------------------------------------------------------------------------
(* The properties *)

\* The variables keep the types of the fields of ThreadPoolPrivate.
THEOREM TypeCorrect == Spec => []TypeOK
<1>1. IInv => TypeOK
  BY DEF IInv
<1>2. QED BY <1>1, Invariance, PTL

\* No reachable state leaves the worker of ThreadPool1.c asleep beside work or
\* beside a thread in destroy.
THEOREM NeverLosesAWakeup == Spec => []NoLostWakeup
<1>1. IInv => NoLostWakeup
  BY DEF IInv
<1>2. QED BY <1>1, Invariance, PTL

\* An accepted insertion is in one place: executed, being executed, or in one of
\* the two lists, where its job is linked once.
THEOREM ExecutesExactlyOnce == Spec => []InOnePlace
<1>1. IInv => InOnePlace
  BY DEF IInv, InOnePlace
<1>2. QED BY <1>1, Invariance, PTL

\* destroy of ThreadPool1.c returns only after the last accepted job.
THEOREM DestroyDrainsThePool == Spec => []DestroyDrains
<1>1. IInv => DestroyDrains
  <2> SUFFICES ASSUME IInv, owner = "freed" PROVE accepted = executed
    BY DEF DestroyDrains
  <2>1. work = <<>> /\ running = <<>> /\ current = NoJob
    BY DEF IInv, Control, TypeOK
  <2>2. \A j \in Jobs : accepted[j] = executed[j]
    BY <2>1, RangeEmpty, JobsAssumption DEF IInv, Accounted, TypeOK, Unlinked
  <2>3. QED BY <2>2 DEF IInv, TypeOK
<1>2. QED BY <1>1, Invariance, PTL

-----------------------------------------------------------------------------
(* The pool implements the job queue. *)

\* insertHead puts the job behind what the worker has taken.
LEMMA InsertHeadIsInsertAt ==
  ASSUME NEW s \in Seq(Jobs), NEW t \in Seq(Jobs), NEW j \in Jobs
  PROVE  LET q == s \o t
         IN  s \o (<<j>> \o t)
                = SubSeq(q, 1, Len(s)) \o <<j>> \o SubSeq(q, Len(s) + 1, Len(q))
<1> DEFINE q == s \o t
<1>1. /\ q \in Seq(Jobs) /\ Len(q) = Len(s) + Len(t)
      /\ \A i \in 1..Len(q) : q[i] = IF i <= Len(s) THEN s[i] ELSE t[i - Len(s)]
  BY ConcatProperties
<1>2. SubSeq(q, 1, Len(s)) = s
  <2>1. \A i \in 1..Len(s) : q[i] = s[i] /\ s[i] \in Jobs
    BY <1>1
  <2> HIDE DEF q
  <2>2. /\ SubSeq(q, 1, Len(s)) \in Seq(Jobs)
        /\ Len(SubSeq(q, 1, Len(s))) = Len(s)
        /\ \A i \in 1..Len(s) : SubSeq(q, 1, Len(s))[i] = q[i]
    BY <2>1, <1>1
  <2>3. QED BY <2>1, <2>2, SeqEqual
<1>3. SubSeq(q, Len(s) + 1, Len(q)) = t
  <2>1. \A i \in 1..Len(t) : q[Len(s) + i] = t[i] /\ t[i] \in Jobs
    BY <1>1
  <2> HIDE DEF q
  <2>2. /\ SubSeq(q, Len(s) + 1, Len(q)) \in Seq(Jobs)
        /\ Len(SubSeq(q, Len(s) + 1, Len(q))) = Len(t)
        /\ \A i \in 1..Len(t) : SubSeq(q, Len(s) + 1, Len(q))[i] = q[Len(s) + i]
    BY <2>1, <1>1
  <2>3. QED BY <2>1, <2>2, SeqEqual
<1>4. s \o (<<j>> \o t) = (s \o <<j>>) \o t
  BY ConcatAssociative
<1>5. QED BY <1>2, <1>3, <1>4

\* An empty pool is an empty queue.
LEMMA InitImplements == Init => Queue!Init
  BY DEF Init, Queue!Init

\* Every step of the pool is a step of the queue or leaves it as it is.
LEMMA StepImplements ==
  ASSUME IInv, [Next]_vars
  PROVE  [Queue!Next]_(Queue!qvars)
<1> USE DEF IInv
<1>1. work \in Seq(Jobs) /\ running \in Seq(Jobs)
  BY DEF TypeOK
<1>2. CASE InitDone
  <2>1. state \notin {"INIT", "STOP"} /\ state' = state
    BY <1>2 DEF Control, InitDone
  <2>2. QED BY <1>2, <2>1 DEF InitDone, Queue!qvars
<1>3. CASE Stop
  BY <1>3 DEF Stop, Control, Queue!Next, Queue!Close
<1>4. CASE Free
  <2>1. work = <<>> /\ running = <<>> /\ current = NoJob /\ state = "STOP"
    BY <1>4 DEF Free, Control
  <2>2. QED BY <1>4, <2>1 DEF Free, Queue!Next, Queue!Gone
<1>5. ASSUME NEW j \in Jobs, InsertTail(j)
      PROVE  Queue!PutTail(j)
  <2>1. running \o Append(work, j) = Append(running \o work, j)
    <3>1. /\ <<j>> \in Seq(Jobs) /\ running \o work \in Seq(Jobs)
          /\ Append(work, j) = work \o <<j>>
          /\ (running \o work) \o <<j>> = running \o (work \o <<j>>)
      <4>1. <<j>> \in Seq(Jobs) /\ running \o work \in Seq(Jobs)
        BY <1>1, ConcatProperties
      <4>2. Append(work, j) = work \o <<j>>
        BY <1>1, AppendIsConcat
      <4>3. (running \o work) \o <<j>> = running \o (work \o <<j>>)
        BY <1>1, <4>1, ConcatAssociative
      <4>4. QED BY <4>1, <4>2, <4>3
    <3>2. QED BY <3>1, AppendIsConcat
  <2>2. QED BY <1>5, <2>1 DEF InsertTail, Insertable, Accept, Control, Queue!PutTail
<1>6. ASSUME NEW j \in Jobs, InsertHead(j)
      PROVE  Queue!PutHead(j)
  <2>1. Len(running) \in 0..Len(running \o work)
    BY <1>1, ConcatProperties
  <2>2. running \o (<<j>> \o work) = Queue!InsertAt(Len(running), j)
    BY <1>1, InsertHeadIsInsertAt DEF Queue!InsertAt
  <2>3. \E i \in 0..Len(running \o work) : (running \o work)' = Queue!InsertAt(i, j)
    BY <1>6, <2>1, <2>2 DEF InsertHead, Accept
  <2>4. QED BY <1>6, <2>3 DEF InsertHead, Insertable, Accept, Control, Queue!PutHead
<1>7. CASE WorkerStart \/ WorkerExit \/ WorkerWait \/ WorkerRelock
  BY <1>7 DEF WorkerStart, WorkerExit, WorkerWait, WorkerRelock, Control, Queue!qvars
<1>8. CASE WorkerTake \/ WorkerWake \/ SpuriousWake
  <2>1. /\ running' = running \o work /\ work' = <<>>
        /\ UNCHANGED <<state, current, owner>>
    BY <1>8 DEF WorkerTake, WorkerWake, SpuriousWake, TakeWork
  <2>2. running' \o work' = running \o work
    BY <1>1, <2>1, ConcatProperties, ConcatEmptySeq
  <2>3. QED BY <2>1, <2>2 DEF Queue!qvars
<1>9. CASE WorkerCall
  <2>1. /\ running # <<>> /\ current = NoJob
        /\ current' = Head(running) /\ running' = Tail(running)
        /\ UNCHANGED <<state, work, owner>>
    BY <1>9 DEF WorkerCall, Control
  <2>2. /\ running \o work # <<>>
        /\ Head(running \o work) = Head(running)
        /\ Tail(running \o work) = Tail(running) \o work
    BY <1>1, <2>1
  <2>3. QED BY <2>1, <2>2 DEF Queue!Next, Queue!Begin
<1>10. CASE WorkerReturn
  BY <1>10 DEF WorkerReturn, Control, Queue!Next, Queue!End
<1>11. CASE UNCHANGED vars
  BY <1>11 DEF vars, Queue!qvars
<1>12. QED
  BY <1>2, <1>3, <1>4, <1>5, <1>6, <1>7, <1>8, <1>9, <1>10, <1>11
     DEF Next, Worker, Done, Queue!Next

\* To its users the pool of ThreadPool1.c is the job queue of JobQueue.
THEOREM PoolImplementsJobQueue == Spec => ImplementsJobQueue
<1>1. QED
  BY InitImplements, StepImplements, Invariance, PTL
     DEF Spec, ImplementsJobQueue, Queue!Spec

\* Cells.
Cell == Nat

-----------------------------------------------------------------------------
(* Induction, as in MapProofs: the theorems of the library that have no    *)
(* operator for a parameter are enough, because a smaller number has a     *)
(* smaller interval.                                                       *)

\* Among any numbers there is a least one.
LEMMA Least ==
  ASSUME NEW T \in SUBSET Nat, T # {}
  PROVE  \E n \in T : \A m \in T : n <= m
<1> DEFINE X == {0..n : n \in T}
<1>1. X \subseteq FiniteSubsetsOf(Nat)
  <2>1. \A n \in T : IsFiniteSet(0..n) /\ 0..n \subseteq Nat
    BY FS_Interval
  <2>2. QED BY <2>1 DEF FiniteSubsetsOf
<1>2. X # {}
  OBVIOUS
<1>3. IsWellFoundedOn(StrictSubsetOrdering(Nat), FiniteSubsetsOf(Nat))
  BY FS_StrictSubsetOrderingWellFounded
<1>4. \E x \in X : \A y \in X : ~(<<y, x>> \in StrictSubsetOrdering(Nat))
  <2> HIDE DEF X
  <2>1. QED BY <1>1, <1>2, <1>3, WFMin
<1>5. PICK n \in T : \A y \in X : ~(<<y, 0..n>> \in StrictSubsetOrdering(Nat))
  BY <1>4
<1>6. ASSUME NEW m \in T, ~(n <= m) PROVE FALSE
  <2>1. 0..m \subseteq 0..n /\ 0..m # 0..n /\ 0..m \in SUBSET Nat /\ 0..n \in SUBSET Nat
    <3>1. n \in 0..n /\ n \notin 0..m /\ m < n
      BY <1>6
    <3>2. QED BY <3>1
  <2>2. <<0..m, 0..n>> \in StrictSubsetOrdering(Nat)
    BY <2>1 DEF StrictSubsetOrdering
  <2>3. QED BY <1>5, <2>2
<1>7. QED BY <1>6

\* Induction up to a bound.
LEMMA UpTo ==
  ASSUME NEW b \in Nat, NEW S, 0 \in S, \A n \in 0..b : n < b /\ n \in S => n + 1 \in S
  PROVE  \A n \in 0..b : n \in S
<1> DEFINE T == {n \in 0..b : n \notin S}
<1>1. SUFFICES ASSUME T # {} PROVE FALSE
  OBVIOUS
<1>2. PICK n \in T : \A m \in T : n <= m
  <2>1. T \in SUBSET Nat
    OBVIOUS
  <2> HIDE DEF T
  <2>2. QED BY <1>1, <2>1, Least
<1>3. n \in 0..b /\ n \notin S /\ n # 0
  BY <1>2
<1>4. n - 1 \in 0..b /\ n - 1 < b /\ n - 1 \notin T /\ n - 1 + 1 = n
  BY <1>2, <1>3
<1>5. QED BY <1>3, <1>4

-----------------------------------------------------------------------------
(* Joining sequences *)

\* What the recursive function of FlattenSeq satisfies.
Joins(f, ss) == \A k \in 1..Len(ss) : f[k] = IF k = 1 THEN ss[k] ELSE f[k - 1] \o ss[k]

\* There is such a function.
LEMMA JoinsExist ==
  ASSUME NEW S, NEW ss \in Seq(Seq(S))
  PROVE  \E f \in [1..Len(ss) -> Seq(S)] : Joins(f, ss)
<1> DEFINE P == {n \in 0..Len(ss) : \E f \in [1..n -> Seq(S)] :
                    \A k \in 1..n : f[k] = IF k = 1 THEN ss[k] ELSE f[k - 1] \o ss[k]}
<1>1. Len(ss) \in Nat /\ \A k \in 1..Len(ss) : ss[k] \in Seq(S)
  BY ElementOfSeq, LenProperties
<1>2. 0 \in P
  <2> DEFINE f == [k \in 1..0 |-> <<>>]
  <2>1. \A k \in 1..0 : FALSE
    OBVIOUS
  <2>2. f \in [1..0 -> Seq(S)]
    BY <2>1
  <2>3. \A k \in 1..0 : f[k] = IF k = 1 THEN ss[k] ELSE f[k - 1] \o ss[k]
    BY <2>1
  <2>4. 0 \in 0..Len(ss)
    BY <1>1
  <2> HIDE DEF f
  <2>5. QED BY <2>2, <2>3, <2>4
<1>3. ASSUME NEW n \in 0..Len(ss), n < Len(ss), n \in P PROVE n + 1 \in P
  <2>1. PICK f \in [1..n -> Seq(S)] :
           \A k \in 1..n : f[k] = IF k = 1 THEN ss[k] ELSE f[k - 1] \o ss[k]
    BY <1>3
  <2> DEFINE last == IF n = 0 THEN ss[1] ELSE f[n] \o ss[n + 1]
             g == [k \in 1..(n + 1) |-> IF k <= n THEN f[k] ELSE last]
  <2>2. last \in Seq(S)
    <3>1. CASE n = 0
      BY <1>1, <1>3, <3>1
    <3>2. CASE n # 0
      <4>1. f[n] \in Seq(S) /\ ss[n + 1] \in Seq(S)
        BY <1>1, <1>3, <3>2
      <4>2. QED BY <3>2, <4>1
    <3>3. QED BY <3>1, <3>2
  <2>3. g \in [1..(n + 1) -> Seq(S)]
    BY <2>2
  <2>4. ASSUME NEW k \in 1..(n + 1) PROVE g[k] = IF k = 1 THEN ss[k] ELSE g[k - 1] \o ss[k]
    <3>1. CASE k <= n
      <4>1. k \in 1..n /\ g[k] = f[k]
        BY <3>1
      <4>2. k # 1 => k - 1 \in 1..n /\ g[k - 1] = f[k - 1]
        BY <3>1
      <4>3. QED BY <2>1, <4>1, <4>2
    <3>2. CASE k = n + 1
      <4>1. g[k] = last
        BY <3>2
      <4>2. CASE n = 0
        BY <3>2, <4>1, <4>2
      <4>3. CASE n # 0
        <5>1. k # 1 /\ k - 1 = n /\ n \in 1..n /\ n \in 1..(n + 1)
          BY <3>2, <4>3
        <5>2. g[n] = f[n]
          BY <5>1
        <5>3. QED BY <3>2, <4>1, <4>3, <5>1, <5>2
      <4>4. QED BY <4>2, <4>3
    <3>3. QED BY <3>1, <3>2
  <2>5. n + 1 \in 0..Len(ss)
    BY <1>1, <1>3
  <2> HIDE DEF g
  <2>6. QED BY <2>3, <2>4, <2>5
<1> HIDE DEF P
<1>4. Len(ss) \in 0..Len(ss)
  BY <1>1
<1>5. Len(ss) \in P
  BY ONLY <1>1, <1>2, <1>3, <1>4, UpTo
<1>6. QED BY <1>5 DEF P, Joins

\* FlattenSeq is the last value of any such function.
LEMMA FlattenIs ==
  ASSUME NEW S, NEW ss \in Seq(Seq(S)), Len(ss) # 0,
         NEW f \in [1..Len(ss) -> Seq(S)], Joins(f, ss)
  PROVE  FlattenSeq(ss) = f[Len(ss)]
<1> DEFINE flatten[k \in 1..Len(ss)] == IF k = 1 THEN ss[k] ELSE flatten[k - 1] \o ss[k]
<1>1. Len(ss) \in Nat
  BY LenProperties
<1>2. flatten = CHOOSE g : g = [k \in 1..Len(ss) |-> IF k = 1 THEN ss[k] ELSE g[k - 1] \o ss[k]]
  BY DEF flatten
<1>3. FlattenSeq(ss) = flatten[Len(ss)]
  BY DEF FlattenSeq
<1> HIDE DEF flatten
<1>4. f = [k \in 1..Len(ss) |-> IF k = 1 THEN ss[k] ELSE f[k - 1] \o ss[k]]
  BY DEF Joins
<1>5. flatten = [k \in 1..Len(ss) |-> IF k = 1 THEN ss[k] ELSE flatten[k - 1] \o ss[k]]
  BY <1>2, <1>4
<1>6. \A k \in 1..Len(ss) : flatten[k] = IF k = 1 THEN ss[k] ELSE flatten[k - 1] \o ss[k]
  BY <1>5
<1> DEFINE P == {n \in 0..Len(ss) : n # 0 => flatten[n] = f[n]}
<1>7. 0 \in P
  BY <1>1
<1>8. ASSUME NEW n \in 0..Len(ss), n < Len(ss), n \in P PROVE n + 1 \in P
  <2>1. n + 1 \in 1..Len(ss) /\ n + 1 - 1 = n /\ (n + 1 = 1 <=> n = 0)
    BY <1>1, <1>8
  <2>2. flatten[n + 1] = IF n = 0 THEN ss[n + 1] ELSE flatten[n] \o ss[n + 1]
    BY <1>6, <2>1
  <2>3. f[n + 1] = IF n = 0 THEN ss[n + 1] ELSE f[n] \o ss[n + 1]
    <3> DEFINE l == n + 1
    <3>1. l \in 1..Len(ss) /\ l - 1 = n /\ (l = 1 <=> n = 0)
      BY <2>1
    <3> HIDE DEF l
    <3>2. f[l] = IF l = 1 THEN ss[l] ELSE f[l - 1] \o ss[l]
      BY <3>1 DEF Joins
    <3>3. f[l] = IF n = 0 THEN ss[l] ELSE f[n] \o ss[l]
      BY <3>1, <3>2
    <3>4. QED BY <3>3 DEF l
  <2>4. flatten[n + 1] = f[n + 1]
    BY <1>8, <2>2, <2>3
  <2>5. QED BY <1>1, <2>1, <2>4
<1> HIDE DEF P
<1>9. Len(ss) \in 0..Len(ss)
  BY <1>1
<1>10. Len(ss) \in P
  BY ONLY <1>1, <1>7, <1>8, <1>9, UpTo
<1>11. QED BY <1>3, <1>10 DEF P

\* Numbers.
LEMMA Inside ==
  ASSUME NEW a \in Nat, NEW b \in Nat, NEW c \in Nat, NEW d \in Nat, b = a + c, b <= d
  PROVE  \A i \in 1..c : a + i \in 1..d
  OBVIOUS

\* What is within a bound stays within it when the bound grows.
LEMMA Longer ==
  ASSUME NEW a \in Nat, NEW b \in Nat, NEW c \in Nat, a <= b
  PROVE  a <= b + c
  OBVIOUS

\* The cell at an offset into a structure that has been read.
LEMMA Within ==
  ASSUME NEW a \in Nat, NEW b \in Nat, NEW n \in Nat, NEW c \in Nat, NEW at \in 1..n,
         ~(a < c + n), c + n <= b
  PROVE  c + at \in 1..a /\ c + at \in 1..b /\ c + at \in Nat
  OBVIOUS

\* A message whose header, body and rest add up: what is shorter than a part is shorter than it.
LEMMA Sum3 ==
  ASSUME NEW a \in Nat, NEW b \in Nat, NEW c \in Nat, NEW d \in Nat, NEW n \in Nat, a = b + n + c
  PROVE  /\ d < b => d < a
         /\ d < b + n => d < a
         /\ a <= d => b + n <= d
  OBVIOUS

\* Where the parts of a joined sequence end.
LEMMA FlattenCut ==
  ASSUME NEW ss \in Seq(Seq(Cell))
  PROVE  /\ FlattenSeq(ss) \in Seq(Cell)
         /\ \E cut \in [0..Len(ss) -> Nat] :
               /\ cut[0] = 0 /\ cut[Len(ss)] = Len(FlattenSeq(ss))
               /\ \A k \in 1..Len(ss) : /\ cut[k] = cut[k - 1] + Len(ss[k])
                                        /\ cut[k] <= Len(FlattenSeq(ss))
                                        /\ \A i \in 1..Len(ss[k]) : FlattenSeq(ss)[cut[k - 1] + i] = ss[k][i]
<1> DEFINE n == Len(ss)
<1>1. n \in Nat /\ \A k \in 1..n : ss[k] \in Seq(Cell) /\ Len(ss[k]) \in Nat
  BY ElementOfSeq, LenProperties
<1>2. CASE n = 0
  <2>1. ss = <<>> /\ FlattenSeq(ss) = <<>>
    BY <1>2, EmptySeq DEF FlattenSeq
  <2> DEFINE cut == [k \in 0..0 |-> 0]
  <2>2. cut \in [0..0 -> Nat] /\ cut[0] = 0 /\ Len(<<>>) = 0 /\ <<>> \in Seq(Cell)
    OBVIOUS
  <2>3. \A k \in 1..0 : FALSE
    OBVIOUS
  <2> HIDE DEF cut
  <2>4. QED BY <1>2, <2>1, <2>2, <2>3
<1>3. CASE n # 0
  <2>1. PICK f \in [1..n -> Seq(Cell)] : Joins(f, ss)
    BY JoinsExist
  <2>2. FlattenSeq(ss) = f[n]
    BY <1>3, <2>1, FlattenIs
  <2>3. \A k \in 1..n : f[k] \in Seq(Cell) /\ Len(f[k]) \in Nat
    BY LenProperties
  <2> DEFINE cut == [k \in 0..n |-> IF k = 0 THEN 0 ELSE Len(f[k])]
  <2>4. cut \in [0..n -> Nat] /\ cut[0] = 0 /\ \A k \in 1..n : cut[k] = Len(f[k])
    BY <1>1, <2>3
  <2> HIDE DEF cut
  <2>5. ASSUME NEW k \in 1..n
        PROVE  /\ cut[k] = cut[k - 1] + Len(ss[k])
               /\ k # 1 => f[k] = f[k - 1] \o ss[k]
               /\ k = 1 => f[k] = ss[k]
    <3>1. f[k] = IF k = 1 THEN ss[k] ELSE f[k - 1] \o ss[k]
      BY <1>1, <2>1 DEF Joins
    <3>2. CASE k = 1
      BY <1>1, <2>4, <3>1, <3>2
    <3>3. CASE k # 1
      <4>1. k - 1 \in 1..n /\ k - 1 \in 0..n
        BY <1>1, <3>3
      <4>2. Len(f[k - 1] \o ss[k]) = Len(f[k - 1]) + Len(ss[k])
        BY <1>1, <2>3, <4>1, ConcatProperties
      <4>3. QED BY <2>4, <3>1, <3>3, <4>1, <4>2
    <3>4. QED BY <3>2, <3>3
  <2> DEFINE P == {m \in 0..n : \A k \in 1..m :
                      /\ cut[k] <= Len(f[m])
                      /\ \A i \in 1..Len(ss[k]) : f[m][cut[k - 1] + i] = ss[k][i]}
  <2>6. 0 \in P
    <3>1. 0 \in 0..n /\ \A k \in 1..0 : FALSE
      BY <1>1
    <3>2. QED BY <3>1
  <2>7. ASSUME NEW m \in 0..n, m < n, m \in P PROVE m + 1 \in P
    <3> DEFINE l == m + 1
    <3>1. l \in 1..n /\ l \in 0..n /\ l - 1 = m /\ m \in Nat
      BY <1>1, <2>7
    <3> HIDE DEF l
    <3>2. ASSUME NEW k \in 1..l
          PROVE  /\ cut[k] <= Len(f[l])
                 /\ \A i \in 1..Len(ss[k]) : f[l][cut[k - 1] + i] = ss[k][i]
      <4>1. CASE m = 0
        <5>1. l = 1 /\ k = 1
          BY <3>1, <4>1
        <5>2. f[l] = ss[l]
          BY <2>5, <3>1, <5>1
        <5>3. cut[l] = Len(f[l]) /\ cut[l - 1] = 0 /\ Len(f[l]) \in Nat
          BY <2>3, <2>4, <3>1, <4>1
        <5>4. \A i \in 1..Len(ss[l]) : 0 + i = i
          BY <1>1, <3>1
        <5>5. k = l
          BY <5>1
        <5>6. QED BY <5>2, <5>3, <5>4, <5>5
      <4>2. CASE m # 0
        <5>1. m \in 1..n /\ f[l] = f[m] \o ss[l] /\ cut[m] = Len(f[m]) /\ cut[l] = Len(f[l])
          <6>1. m \in 1..n /\ l # 1
            BY <3>1, <4>2
          <6>2. QED BY <2>4, <2>5, <3>1, <6>1
        <5>2. /\ Len(f[l]) = Len(f[m]) + Len(ss[l])
              /\ \A i \in 1..Len(f[m]) : f[l][i] = f[m][i]
              /\ \A i \in 1..Len(ss[l]) : f[l][Len(f[m]) + i] = ss[l][i]
          <6>1. f[m] \in Seq(Cell) /\ ss[l] \in Seq(Cell) /\ Len(f[m]) \in Nat /\ Len(ss[l]) \in Nat
            BY <1>1, <2>3, <3>1, <5>1
          <6>2. \A i \in 1..Len(ss[l]) : Len(f[m]) + i > Len(f[m]) /\ Len(f[m]) + i - Len(f[m]) = i
            BY <6>1
          <6>3. QED BY <5>1, <6>1, <6>2, ConcatProperties, SMTT(30)
        <5>3. CASE k = l
          <6>1. cut[l] <= Len(f[l]) /\ cut[l - 1] = Len(f[m])
            BY <2>3, <3>1, <5>1
          <6>2. QED BY <5>2, <5>3, <6>1
        <5>4. CASE k # l
          <6>1. k \in 1..m /\ k \in 1..n
            BY <3>1, <5>4
          <6>2. /\ cut[k] <= Len(f[m])
                /\ \A i \in 1..Len(ss[k]) : f[m][cut[k - 1] + i] = ss[k][i]
            BY <2>7, <6>1
          <6>3. /\ Len(f[m]) \in Nat /\ Len(ss[l]) \in Nat /\ Len(ss[k]) \in Nat
                /\ cut[k] \in Nat /\ cut[k - 1] \in Nat /\ cut[k] = cut[k - 1] + Len(ss[k])
            <7>1. k \in 0..n /\ k - 1 \in 0..n
              BY <6>1, <1>1
            <7>2. QED BY <1>1, <2>3, <2>4, <2>5, <3>1, <5>1, <6>1, <7>1
          <6>4. \A i \in 1..Len(ss[k]) : cut[k - 1] + i \in 1..Len(f[m])
            BY <6>2, <6>3, Inside
          <6>5. cut[k] <= Len(f[l])
            BY <5>2, <6>2, <6>3, Longer
          <6>6. QED BY <5>2, <6>2, <6>4, <6>5
        <5>5. QED BY <5>3, <5>4
      <4>3. QED BY <4>1, <4>2
    <3>3. l \in P
      BY <3>1, <3>2
    <3>4. QED BY <3>3 DEF l
  <2> HIDE DEF P
  <2>8. n \in 0..n
    BY <1>1
  <2>9. n \in P
    BY ONLY <1>1, <2>6, <2>7, <2>8, UpTo
  <2>10. n \in 1..n
    BY <1>1, <1>3
  <2>11. QED BY <2>2, <2>3, <2>4, <2>5, <2>9, <2>10 DEF P
<1>4. QED BY <1>2, <1>3

-----------------------------------------------------------------------------
(* Decoders *)

\* What has been read agrees with the message at the head of the stream.
Agrees(buf, cells) == \A k \in Nat : k \in 1..Len(buf) /\ k \in 1..Len(cells) => buf[k] = cells[k]

\* A decoder's result: where the message ends, or 0 as long as it is not complete.
Ends(n, buf, cells) == n = IF Len(buf) < Len(cells) THEN 0 ELSE Len(cells)

\* Whole is the test with which the decoders begin and end: all of it, or nothing yet.
LEMMA WholeEnds ==
  ASSUME NEW buf, NEW cells
  PROVE  Ends(Whole(Len(cells), buf), buf, cells)
  BY DEF Ends, Whole

\* A structure with its data behind it.
LEMMA WithPathEnds ==
  ASSUME NEW buf \in Seq(Cell), NEW cells \in Seq(Cell), Agrees(buf, cells),
         NEW n \in Nat, NEW at \in 1..n, n <= Len(cells), Len(cells) = n + cells[at]
  PROVE  Ends(WithPath(n, at, buf), buf, cells)
<1>1. Len(buf) \in Nat /\ Len(cells) \in Nat
  BY LenProperties
<1>2. CASE Len(buf) < n
  BY <1>1, <1>2 DEF Ends, WithPath
<1>3. CASE ~(Len(buf) < n)
  <2>1. at \in 1..Len(buf) /\ at \in 1..Len(cells) /\ at \in Nat
    BY <1>1, <1>3
  <2>2. buf[at] = cells[at]
    BY <2>1 DEF Agrees
  <2>3. QED BY <1>1, <1>3, <2>2 DEF Ends, WithPath, Whole
<1>4. QED BY <1>2, <1>3

\* What the recursive function of Entries satisfies ...
Turns(end, from, count, n, at, buf) ==
    \A i \in 0..count :
       end[i] = IF i = 0 THEN Whole(from, buf)
                ELSE IF end[i - 1] = 0 THEN 0
                ELSE IF Len(buf) < end[i - 1] + n THEN 0
                ELSE Whole(end[i - 1] + n + buf[end[i - 1] + at], buf)

\* ... is met by the ends of the structures, as far as they have been read.
LEMMA EntriesIs ==
  ASSUME NEW from, NEW count \in Nat, NEW n, NEW at, NEW buf,
         NEW f \in [0..count -> Nat], Turns(f, from, count, n, at, buf)
  PROVE  Entries(from, count, n, at, buf) = f[count]
<1> DEFINE end[i \in 0..count] ==
            IF i = 0 THEN Whole(from, buf)
            ELSE IF end[i - 1] = 0 THEN 0
            ELSE IF Len(buf) < end[i - 1] + n THEN 0
            ELSE Whole(end[i - 1] + n + buf[end[i - 1] + at], buf)
<1>1. end = CHOOSE g : g = [i \in 0..count |->
            IF i = 0 THEN Whole(from, buf)
            ELSE IF g[i - 1] = 0 THEN 0
            ELSE IF Len(buf) < g[i - 1] + n THEN 0
            ELSE Whole(g[i - 1] + n + buf[g[i - 1] + at], buf)]
  BY DEF end
<1>2. Entries(from, count, n, at, buf) = end[count]
  BY DEF Entries
<1> HIDE DEF end
<1>3. f = [i \in 0..count |->
            IF i = 0 THEN Whole(from, buf)
            ELSE IF f[i - 1] = 0 THEN 0
            ELSE IF Len(buf) < f[i - 1] + n THEN 0
            ELSE Whole(f[i - 1] + n + buf[f[i - 1] + at], buf)]
  BY DEF Turns
<1>4. end = [i \in 0..count |->
            IF i = 0 THEN Whole(from, buf)
            ELSE IF end[i - 1] = 0 THEN 0
            ELSE IF Len(buf) < end[i - 1] + n THEN 0
            ELSE Whole(end[i - 1] + n + buf[end[i - 1] + at], buf)]
  BY <1>1, <1>3
<1>5. Turns(end, from, count, n, at, buf)
  BY <1>4 DEF Turns
<1> DEFINE P == {i \in 0..count : end[i] = f[i]}
<1>6. 0 \in P
  BY <1>5 DEF Turns
<1>7. ASSUME NEW m \in 0..count, m < count, m \in P PROVE m + 1 \in P
  <2> DEFINE l == m + 1
  <2>1. l \in 0..count /\ l - 1 = m /\ l # 0
    BY <1>7
  <2> HIDE DEF l
  <2>2. end[l] = f[l]
    BY <1>5, <1>7, <2>1 DEF Turns
  <2>3. QED BY <2>1, <2>2 DEF l
<1> HIDE DEF P
<1>8. count \in P
  <2>1. count \in 0..count
    OBVIOUS
  <2>2. QED BY ONLY count \in Nat, <1>6, <1>7, <2>1, UpTo
<1>9. QED BY <1>2, <1>8 DEF P

\* The loop of a decoder over a row of structures ends where the last structure does.
LEMMA EntriesEnds ==
  ASSUME NEW buf \in Seq(Cell), NEW cells \in Seq(Cell), Agrees(buf, cells),
         NEW n \in Nat \ {0}, NEW at \in 1..n, NEW count \in Nat, NEW p \in [1..count -> Nat],
         NEW cut \in [0..count -> Nat], cut[0] # 0, cut[count] = Len(cells),
         \A k \in 1..count : /\ cut[k] = cut[k - 1] + n + p[k] /\ cut[k] <= Len(cells)
                             /\ cells[cut[k - 1] + at] = p[k]
  PROVE  Ends(Entries(cut[0], count, n, at, buf), buf, cells)
<1> DEFINE f == [i \in 0..count |-> IF Len(buf) < cut[i] THEN 0 ELSE cut[i]]
<1>1. Len(buf) \in Nat /\ Len(cells) \in Nat /\ n \in Nat /\ n # 0
  BY LenProperties
<1>2. ASSUME NEW i \in 0..count
      PROVE  f[i] = IF i = 0 THEN Whole(cut[0], buf)
                ELSE IF f[i - 1] = 0 THEN 0
                ELSE IF Len(buf) < f[i - 1] + n THEN 0
                ELSE Whole(f[i - 1] + n + buf[f[i - 1] + at], buf)
  <2>1. CASE i = 0
    BY <2>1 DEF Whole
  <2>2. CASE i # 0
    <3> DEFINE h == i - 1
    <3>1. h \in 0..count /\ i \in 1..count
      BY <2>2
    <3>2. /\ f[h] = (IF Len(buf) < cut[h] THEN 0 ELSE cut[h])
          /\ f[i] = (IF Len(buf) < cut[i] THEN 0 ELSE cut[i])
      BY <3>1
    <3>3. /\ cut[i] = cut[h] + n + p[i] /\ cut[i] <= Len(cells)
          /\ cut[h] \in Nat /\ cut[i] \in Nat /\ p[i] \in Nat
          /\ cells[cut[h] + at] = p[i]
      BY <3>1
    <3> HIDE DEF h, f
    <3>4. cut[h] # 0
      <4>1. CASE h = 0
        BY <4>1
      <4>2. CASE h # 0
        <5>1. h \in 1..count /\ h - 1 \in 0..count
          BY <3>1, <4>2
        <5> DEFINE x == cut[h - 1]
                   y == p[h]
        <5>2. cut[h] = x + n + y /\ x \in Nat /\ y \in Nat
          BY <5>1
        <5> HIDE DEF x, y
        <5>3. QED BY <1>1, <5>2
      <4>3. QED BY <4>1, <4>2
    <3> DEFINE a == cut[i]
               b == cut[h]
               c == p[i]
    <3>5. /\ Len(buf) < b => Len(buf) < a
          /\ Len(buf) < b + n => Len(buf) < a
          /\ b + n <= Len(cells)
      <4>1. /\ a \in Nat /\ b \in Nat /\ c \in Nat
            /\ a = b + n + c /\ a <= Len(cells)
        BY <3>3
      <4> HIDE DEF a, b, c
      <4>2. QED BY <1>1, <4>1, Sum3
    <3>6. CASE Len(buf) < cut[h]
      BY <2>2, <3>2, <3>5, <3>6 DEF h
    <3>7. CASE ~(Len(buf) < cut[h]) /\ Len(buf) < cut[h] + n
      <4>1. Len(buf) < cut[i] /\ f[h] = cut[h]
        BY <3>2, <3>5, <3>7
      <4>2. f[i] = 0
        BY <3>2, <4>1
      <4>3. QED BY <2>2, <3>4, <3>7, <4>1, <4>2 DEF h
    <3>8. CASE ~(Len(buf) < cut[h] + n)
      <4>1. cut[h] + at \in 1..Len(buf) /\ cut[h] + at \in 1..Len(cells) /\ cut[h] + at \in Nat
        BY <1>1, <3>3, <3>8, <3>5, Within
      <4>2. buf[cut[h] + at] = p[i]
        BY <3>3, <4>1 DEF Agrees
      <4>3. f[h] = cut[h] /\ ~(Len(buf) < f[h] + n)
        BY <1>1, <3>2, <3>3, <3>8
      <4>4. f[i] = Whole(f[h] + n + buf[f[h] + at], buf)
        BY <3>2, <3>3, <4>2, <4>3 DEF Whole
      <4>5. QED BY <2>2, <3>4, <4>3, <4>4 DEF h
    <3>9. QED BY <1>1, <3>3, <3>6, <3>7, <3>8
  <2>3. QED BY <2>1, <2>2
<1>3. f[count] = IF Len(buf) < cut[count] THEN 0 ELSE cut[count]
  BY count \in 0..count
<1>4. f \in [0..count -> Nat]
  OBVIOUS
<1> HIDE DEF f
<1> DEFINE from == cut[0]
<1>5. Turns(f, from, count, n, at, buf)
  BY <1>2 DEF Turns
<1> HIDE DEF from
<1>6. Entries(from, count, n, at, buf) = f[count]
  BY <1>4, <1>5, EntriesIs, SMTT(30)
<1>7. QED BY <1>3, <1>6 DEF Ends, from

-----------------------------------------------------------------------------
(* Messages *)

\* Cells and the cells behind them.
LEMMA Behind ==
  ASSUME NEW a \in Seq(Cell), NEW b \in Seq(Cell)
  PROVE  /\ a \o b \in Seq(Cell) /\ Len(a \o b) = Len(a) + Len(b)
         /\ Len(a) \in Nat /\ Len(b) \in Nat
         /\ \A i \in 1..Len(a) : (a \o b)[i] = a[i]
         /\ \A i \in 1..Len(b) : (a \o b)[Len(a) + i] = b[i]
<1>1. Len(a) \in Nat /\ Len(b) \in Nat
  BY LenProperties
<1>2. \A i \in 1..Len(b) : /\ Len(a) + i \in 1..(Len(a) + Len(b))
                           /\ ~(Len(a) + i <= Len(a)) /\ Len(a) + i - Len(a) = i
  BY <1>1
<1>3. QED BY <1>1, <1>2, ConcatProperties

\* Joining is associative.
LEMMA Regroup ==
  ASSUME NEW a \in Seq(Cell), NEW b \in Seq(Cell), NEW c \in Seq(Cell)
  PROVE  a \o (b \o c) = (a \o b) \o c
  BY ConcatAssociative

\* Fields that no decoder looks at are cells too.
LEMMA BlankIs ==
  ASSUME NEW n \in Nat
  PROVE  Blank(n) \in Seq(Cell) /\ Len(Blank(n)) = n
<1>1. Opaque \in Cell
  BY DEF Opaque, Cell
<1>2. Blank(n) \in [1..n -> Cell]
  BY <1>1 DEF Blank
<1>3. QED BY <1>2, LenProperties

\* A structure of n cells whose at-th is the length of the data behind it.
Structure(n, at, path) == Blank(at - 1) \o <<path>> \o Blank(n - at + path)

\* A structure has its number of cells and those of its data, and names the latter.
LEMMA StructureIs ==
  ASSUME NEW n \in Nat, NEW at \in 1..n, NEW path \in Nat
  PROVE  /\ Structure(n, at, path) \in Seq(Cell)
         /\ Len(Structure(n, at, path)) = n + path
         /\ Structure(n, at, path)[at] = path
<1> DEFINE a == Blank(at - 1)
           b == <<path>>
           c == Blank(n - at + path)
<1>1. at - 1 \in Nat /\ n - at + path \in Nat
  OBVIOUS
<1>2. a \in Seq(Cell) /\ Len(a) = at - 1 /\ b \in Seq(Cell) /\ Len(b) = 1 /\ b[1] = path
  BY <1>1, BlankIs DEF Cell
<1>3. c \in Seq(Cell) /\ Len(c) = n - at + path
  BY <1>1, BlankIs
<1>4. Structure(n, at, path) = (a \o b) \o c
  BY DEF Structure
<1> HIDE DEF a, b, c
<1>5. a \o b \in Seq(Cell) /\ Len(a \o b) = Len(a) + Len(b) /\ (a \o b)[Len(a) + 1] = b[1]
  BY <1>2, Behind, 1 \in 1..Len(b)
<1>6. Len(a) + Len(b) = at /\ Len(a) + 1 = at
  BY <1>2
<1>7. /\ (a \o b) \o c \in Seq(Cell) /\ Len((a \o b) \o c) = Len(a \o b) + Len(c)
      /\ ((a \o b) \o c)[at] = (a \o b)[at]
  BY <1>3, <1>5, <1>6, Behind, at \in 1..Len(a \o b)
<1>8. at + (n - at + path) = n + path
  OBVIOUS
<1>9. QED BY <1>2, <1>3, <1>4, <1>5, <1>6, <1>7, <1>8

\* The structures of the services.
LEMMA Structures ==
  ASSUME NEW path \in Nat
  PROVE  /\ Object(path) = Structure(ObjectLen, ObjectPath, path)
         /\ Foo(path) = Structure(FooLen, FooPath, path)
         /\ DumpedService(path) = Structure(ServiceLen, ServiceLen, path)
<1>1. 5 - 5 + path = path
  OBVIOUS
<1>2. QED BY <1>1 DEF Structure, Object, Foo, DumpedService, ObjectLen, ObjectPath, FooLen, FooPath, ServiceLen

\* A message of one structure.
LEMMA OneEnds ==
  ASSUME NEW a \in Seq(Cell), NEW n \in Nat, NEW at \in 1..n, NEW path \in Nat,
         NEW buf \in Seq(Cell), Agrees(buf, a \o Structure(n, at, path))
  PROVE  /\ Len(a \o Structure(n, at, path)) = Len(a) + n + path
         /\ Ends(WithPath(Len(a) + n, Len(a) + at, buf), buf, a \o Structure(n, at, path))
<1> DEFINE b == Structure(n, at, path)
           cells == a \o b
<1>1. b \in Seq(Cell) /\ Len(b) = n + path /\ b[at] = path
  BY StructureIs
<1>2. at \in 1..Len(b)
  BY <1>1
<1> HIDE DEF b
<1>3. /\ cells \in Seq(Cell) /\ Len(cells) = Len(a) + Len(b) /\ Len(a) \in Nat
      /\ cells[Len(a) + at] = path
  BY <1>1, <1>2, Behind
<1> HIDE DEF cells
<1> DEFINE m == Len(a) + n
           k == Len(a) + at
<1>4. /\ m \in Nat /\ k \in 1..m /\ m <= Len(cells) /\ Len(cells) = m + cells[k]
      /\ Len(cells) = Len(a) + n + path
  BY <1>1, <1>3
<1>5. Agrees(buf, cells)
  BY DEF cells, b
<1> HIDE DEF m, k
<1>6. Ends(WithPath(m, k, buf), buf, cells)
  BY <1>3, <1>4, <1>5, WithPathEnds
<1>7. QED BY <1>4, <1>6 DEF m, k, cells, b

\* A row of structures: the objects of a list, or the services of a map.
Row(n, at, p) == FlattenSeq([k \in 1..Len(p) |-> Structure(n, at, p[k])])

\* Where the structures of a row end.
LEMMA RowIs ==
  ASSUME NEW n \in Nat, NEW at \in 1..n, NEW p \in Seq(Cell)
  PROVE  /\ Row(n, at, p) \in Seq(Cell)
         /\ \E cut \in [0..Len(p) -> Nat] :
               /\ cut[0] = 0 /\ cut[Len(p)] = Len(Row(n, at, p))
               /\ \A k \in 1..Len(p) : /\ cut[k] = cut[k - 1] + n + p[k]
                                       /\ cut[k] <= Len(Row(n, at, p))
                                       /\ Row(n, at, p)[cut[k - 1] + at] = p[k]
<1> DEFINE count == Len(p)
           ss == [k \in 1..count |-> Structure(n, at, p[k])]
           b == Row(n, at, p)
<1>1. count \in Nat /\ \A k \in 1..count : p[k] \in Cell
  BY LenProperties, ElementOfSeq
<1> HIDE DEF count
<1>2. b = FlattenSeq(ss) /\ \A k \in 1..count : ss[k] = Structure(n, at, p[k])
  BY DEF Row, count
<1>3. ss \in [1..count -> Seq(Cell)]
  BY <1>1, StructureIs DEF Cell
<1> HIDE DEF ss, b
<1>4. ss \in Seq(Seq(Cell)) /\ Len(ss) = count
  BY <1>1, <1>3, LenProperties
<1>5. \A k \in 1..count : p[k] \in Nat /\ Len(ss[k]) = n + p[k] /\ ss[k][at] = p[k]
  <2>1. \A k \in 1..count : p[k] \in Nat
    BY <1>1 DEF Cell
  <2>2. ASSUME NEW k \in 1..count PROVE Len(ss[k]) = n + p[k] /\ ss[k][at] = p[k]
    <3> DEFINE path == p[k]
    <3>1. path \in Nat /\ ss[k] = Structure(n, at, path)
      BY <1>2, <2>1
    <3> HIDE DEF path
    <3>2. Len(Structure(n, at, path)) = n + path /\ Structure(n, at, path)[at] = path
      BY <3>1, StructureIs
    <3>3. QED BY <3>1, <3>2 DEF path
  <2>3. QED BY <2>1, <2>2
<1>6. b \in Seq(Cell) /\ Len(b) \in Nat
  BY <1>2, <1>4, FlattenCut, LenProperties
<1>7. PICK cut \in [0..Len(ss) -> Nat] :
         /\ cut[0] = 0 /\ cut[Len(ss)] = Len(b)
         /\ \A k \in 1..Len(ss) : /\ cut[k] = cut[k - 1] + Len(ss[k])
                                  /\ cut[k] <= Len(b)
                                  /\ \A i \in 1..Len(ss[k]) : b[cut[k - 1] + i] = ss[k][i]
  BY <1>2, <1>4, FlattenCut
<1>8. ASSUME NEW k \in 1..count
      PROVE  /\ cut[k] = cut[k - 1] + n + p[k] /\ cut[k] <= Len(b)
             /\ b[cut[k - 1] + at] = p[k]
  <2> DEFINE h == cut[k - 1]
  <2>1. /\ cut[k] = h + Len(ss[k]) /\ cut[k] <= Len(b) /\ h \in Nat
        /\ \A i \in 1..Len(ss[k]) : b[h + i] = ss[k][i]
    <3>1. k - 1 \in 0..count /\ k \in 1..Len(ss)
      BY <1>1, <1>4
    <3>2. QED BY <1>4, <1>7, <3>1
  <2> HIDE DEF h
  <2>2. at \in 1..(n + p[k]) /\ h + (n + p[k]) = h + n + p[k]
    BY <1>5, <2>1, SMTT(30)
  <2>3. QED BY <1>5, <2>1, <2>2 DEF h
<1>9. cut \in [0..count -> Nat] /\ cut[0] = 0 /\ cut[count] = Len(b)
  BY <1>4, <1>7
<1>10. QED BY <1>6, <1>8, <1>9 DEF b, count

\* A message that ends in a row of structures.
LEMMA RowEnds ==
  ASSUME NEW a \in Seq(Cell), Len(a) # 0, NEW n \in Nat, n # 0, NEW at \in 1..n,
         NEW p \in Seq(Cell), NEW buf \in Seq(Cell), Agrees(buf, a \o Row(n, at, p))
  PROVE  Ends(Entries(Len(a), Len(p), n, at, buf), buf, a \o Row(n, at, p))
<1> DEFINE count == Len(p)
           b == Row(n, at, p)
           cells == a \o b
<1>1. count \in Nat /\ \A k \in 1..count : p[k] \in Nat
  BY LenProperties, ElementOfSeq DEF Cell
<1>2. b \in Seq(Cell)
  BY RowIs
<1>3. PICK flat \in [0..count -> Nat] :
         /\ flat[0] = 0 /\ flat[count] = Len(b)
         /\ \A k \in 1..count : /\ flat[k] = flat[k - 1] + n + p[k]
                                /\ flat[k] <= Len(b)
                                /\ b[flat[k - 1] + at] = p[k]
  BY RowIs
<1>4. Agrees(buf, cells)
  OBVIOUS
<1> HIDE DEF b, count
<1>5. /\ cells \in Seq(Cell) /\ Len(cells) = Len(a) + Len(b) /\ Len(a) \in Nat /\ Len(b) \in Nat
      /\ \A i \in 1..Len(b) : cells[Len(a) + i] = b[i]
  BY <1>2, Behind
<1> HIDE DEF cells
<1> DEFINE l == Len(a)
           cut == [k \in 0..count |-> l + flat[k]]
<1>6. cut \in [0..count -> Nat] /\ cut[0] = l /\ cut[count] = Len(cells) /\ l \in Nat /\ l # 0
  <2>1. \A k \in 0..count : flat[k] \in Nat
    OBVIOUS
  <2>2. 0 \in 0..count /\ count \in 0..count
    BY <1>1
  <2>3. l \in Nat /\ l # 0 /\ l + 0 = l
    BY <1>5
  <2> HIDE DEF l
  <2>4. cut \in [0..count -> Nat] /\ cut[0] = l + flat[0] /\ cut[count] = l + flat[count]
    BY <2>1, <2>2, <2>3
  <2> HIDE DEF cut
  <2>5. QED BY <1>3, <1>5, <2>3, <2>4 DEF l
<1>7. ASSUME NEW k \in 1..count
      PROVE  /\ cut[k] = cut[k - 1] + n + p[k] /\ cut[k] <= Len(cells)
             /\ cells[cut[k - 1] + at] = p[k]
  <2> DEFINE h == k - 1
             j == flat[h]
             m == flat[k]
             c == p[k]
  <2>1. h \in 0..count /\ k \in 0..count
    BY <1>1
  <2>2. cut[h] = l + j /\ cut[k] = l + m /\ j \in Nat /\ m \in Nat
    BY <2>1
  <2>3. m = j + n + c /\ m <= Len(b) /\ b[j + at] = c /\ c \in Nat
    BY <1>1, <1>3
  <2> HIDE DEF cut, j, m, c, h, l
  <2>4. j + at \in 1..Len(b) /\ l + j + at = l + (j + at)
    BY <1>5, <1>6, <2>2, <2>3
  <2>5. cells[l + j + at] = c
    BY <1>5, <2>3, <2>4 DEF l
  <2>6. l + m = l + j + n + c /\ l + m <= Len(cells)
    BY <1>5, <1>6, <2>2, <2>3 DEF l
  <2>7. QED BY <2>2, <2>5, <2>6 DEF h, c
<1> HIDE DEF cut, l
<1>8. p \in [1..count -> Nat]
  BY <1>1, LenProperties DEF count
<1>9. Ends(Entries(cut[0], count, n, at, buf), buf, cells)
  BY <1>1, <1>4, <1>5, <1>6, <1>7, <1>8, EntriesEnds
<1>10. QED BY <1>6, <1>9 DEF l, cells, b, count

-----------------------------------------------------------------------------
(* The services' tables *)

\* The numbers of cells behind the headers are numbers.
LEMMA FieldsAreNumbers ==
  /\ \A op \in DOMAIN ClusterFields.request : ClusterFields.request[op] \in Nat
  /\ \A op \in DOMAIN ClusterFields.response : ClusterFields.response[op] \in Nat
  /\ \A op \in DOMAIN ObjectFields.request : ObjectFields.request[op] \in Nat
  /\ \A op \in DOMAIN ObjectFields.response : ObjectFields.response[op] \in Nat
  /\ \A op \in DOMAIN FooFields.request : FooFields.request[op] \in Nat
  /\ \A op \in DOMAIN FooFields.response : FooFields.response[op] \in Nat
  BY DEF ClusterFields, ObjectFields, FooFields

\* Which service and which request a client may ask for.
LEMMA Services ==
  ASSUME NEW q, Sendable(q)
  PROVE  /\ q.path \in Nat
         /\ \/ /\ q.service = "Cluster"
               /\ q.op \in {"LatestVersion", "GetLatest", "KeepAlive", "KeepAliveClient", "Status", "Stop"}
            \/ /\ q.service = "Object"
               /\ q.op \in {"Get", "List", "Delete", "Stop", "Put"}
            \/ /\ q.service = "Foo"
               /\ q.op \in {"Get", "List", "Put"}
  BY DEF Sendable, ClusterFields, ObjectFields, FooFields

\* Every request has a number, and no two of one service have the same.
LEMMA IdsAreInjective ==
  ASSUME NEW q, Sendable(q)
  PROVE  /\ q.op \in DOMAIN Ids[q.service] /\ Ids[q.service][q.op] \in Nat
         /\ \A op \in DOMAIN Ids[q.service] : Ids[q.service][op] = Ids[q.service][q.op] => op = q.op
<1>1. CASE q.service = "Cluster"
  <2>1. Ids[q.service] = ClusterIds
    BY <1>1 DEF Ids
  <2>2. q.op \in {"LatestVersion", "GetLatest", "KeepAlive", "KeepAliveClient", "Status", "Stop"}
    BY <1>1, Services
  <2>3. QED BY <2>1, <2>2 DEF ClusterIds
<1>2. CASE q.service = "Object"
  <2>1. Ids[q.service] = ObjectIds
    BY <1>2 DEF Ids
  <2>2. q.op \in {"Get", "List", "Delete", "Stop", "Put"}
    BY <1>2, Services
  <2>3. QED BY <2>1, <2>2 DEF ObjectIds
<1>3. CASE q.service = "Foo"
  <2>1. Ids[q.service] = FooIds
    BY <1>3 DEF Ids
  <2>2. q.op \in {"Get", "List", "Put"}
    BY <1>3, Services
  <2>3. QED BY <2>1, <2>2 DEF FooIds
<1>4. QED BY <1>1, <1>2, <1>3, Services

\* A request is its header and cells of a known number, or a structure with its data; and
\* the decoder that its number leads to is the one for that.
LEMMA RequestShape ==
  ASSUME NEW q, Sendable(q)
  PROVE  \/ \E n \in Nat : /\ RequestEncoder(q) = Blank(n)
                           /\ \A buf : RequestDecoder(q.service, q.op, buf) = Whole(HeaderLen + n, buf)
         \/ \E n \in Nat : \E at \in 1..n :
               /\ RequestEncoder(q) = Structure(n, at, q.path)
               /\ \A buf : RequestDecoder(q.service, q.op, buf) = WithPath(HeaderLen + n, HeaderLen + at, buf)
<1>1. CASE q.service = "Cluster"
  <2> DEFINE n == ClusterFields.request[q.op]
  <2>1. n \in Nat
    BY <1>1, FieldsAreNumbers DEF Sendable
  <2>2. RequestEncoder(q) = Blank(n)
    BY <1>1 DEF RequestEncoder, ClusterRequestEncoder
  <2>3. \A buf : RequestDecoder(q.service, q.op, buf) = Whole(HeaderLen + n, buf)
    BY <1>1 DEF RequestDecoder, ClusterRequestDecoder
  <2> HIDE DEF n
  <2>4. QED BY <2>1, <2>2, <2>3
<1>2. CASE q.service = "Object" /\ q.op # "Put"
  <2> DEFINE n == ObjectFields.request[q.op]
  <2>1. n \in Nat
    BY <1>2, FieldsAreNumbers DEF Sendable
  <2>2. RequestEncoder(q) = Blank(n)
    BY <1>2 DEF RequestEncoder, ObjectRequestEncoder
  <2>3. \A buf : RequestDecoder(q.service, q.op, buf) = Whole(HeaderLen + n, buf)
    BY <1>2 DEF RequestDecoder, ObjectRequestDecoder
  <2> HIDE DEF n
  <2>4. QED BY <2>1, <2>2, <2>3
<1>3. CASE q.service = "Foo" /\ q.op # "Put"
  <2> DEFINE n == FooFields.request[q.op]
  <2>1. n \in Nat
    BY <1>3, FieldsAreNumbers DEF Sendable
  <2>2. RequestEncoder(q) = Blank(n)
    BY <1>3 DEF RequestEncoder, FooRequestEncoder
  <2>3. \A buf : RequestDecoder(q.service, q.op, buf) = Whole(HeaderLen + n, buf)
    BY <1>3 DEF RequestDecoder, FooRequestDecoder
  <2> HIDE DEF n
  <2>4. QED BY <2>1, <2>2, <2>3
<1>4. CASE q.service = "Object" /\ q.op = "Put"
  <2>1. RequestEncoder(q) = Structure(ObjectLen, ObjectPath, q.path)
    BY <1>4, Services, Structures DEF RequestEncoder, ObjectRequestEncoder
  <2>2. \A buf : RequestDecoder(q.service, q.op, buf)
                    = WithPath(HeaderLen + ObjectLen, HeaderLen + ObjectPath, buf)
    BY <1>4 DEF RequestDecoder, ObjectRequestDecoder
  <2>3. ObjectLen \in Nat /\ ObjectPath \in 1..ObjectLen
    BY DEF ObjectLen, ObjectPath
  <2>4. QED BY <2>1, <2>2, <2>3
<1>5. CASE q.service = "Foo" /\ q.op = "Put"
  <2>1. RequestEncoder(q) = Structure(FooLen, FooPath, q.path)
    BY <1>5, Services, Structures DEF RequestEncoder, FooRequestEncoder
  <2>2. \A buf : RequestDecoder(q.service, q.op, buf)
                    = WithPath(HeaderLen + FooLen, HeaderLen + FooPath, buf)
    BY <1>5 DEF RequestDecoder, FooRequestDecoder
  <2>3. FooLen \in Nat /\ FooPath \in 1..FooLen
    BY DEF FooLen, FooPath
  <2>4. QED BY <2>1, <2>2, <2>3
<1>6. QED BY <1>1, <1>2, <1>3, <1>4, <1>5, Services

\* A message has a header of two cells.
LEMMA HeaderIs ==
  ASSUME NEW x \in Nat, NEW i \in Nat, NEW b \in Seq(Cell)
  PROVE  /\ <<x, i>> \in Seq(Cell) /\ Len(<<x, i>>) = HeaderLen
         /\ <<x, i>> \o b \in Seq(Cell) /\ Len(<<x, i>> \o b) = HeaderLen + Len(b)
         /\ (<<x, i>> \o b)[1] = x /\ (<<x, i>> \o b)[2] = i
<1> DEFINE a == <<x, i>>
<1>1. a \in Seq(Cell) /\ Len(a) = 2 /\ a[1] = x /\ a[2] = i
  BY DEF Cell
<1> HIDE DEF a
<1>2. /\ a \o b \in Seq(Cell) /\ Len(a \o b) = Len(a) + Len(b)
      /\ \A k \in 1..Len(a) : (a \o b)[k] = a[k]
  BY <1>1, Behind
<1>3. 1 \in 1..Len(a) /\ 2 \in 1..Len(a)
  BY <1>1
<1>4. QED BY <1>1, <1>2, <1>3 DEF a, HeaderLen

\* A request that is sent ...
LEMMA EncodedRequestIs ==
  ASSUME NEW q, Sendable(q), NEW i \in Nat
  PROVE  /\ EncodedRequest(q, i) \in Seq(Cell) /\ Len(EncodedRequest(q, i)) >= 2
         /\ EncodedRequest(q, i)[1] = Ids[q.service][q.op] /\ EncodedRequest(q, i)[2] = i
<1> DEFINE x == Ids[q.service][q.op]
           b == RequestEncoder(q)
<1>1. x \in Nat /\ q.path \in Nat
  BY IdsAreInjective, Services
<1>2. b \in Seq(Cell) /\ Len(b) \in Nat
  <2> DEFINE path == q.path
  <2>1. \/ \E n \in Nat : b = Blank(n)
        \/ \E n \in Nat : \E at \in 1..n : b = Structure(n, at, path)
    BY RequestShape
  <2>2. path \in Nat
    BY <1>1
  <2> HIDE DEF b, path
  <2>3. b \in Seq(Cell)
    BY <2>1, <2>2, BlankIs, StructureIs
  <2>4. QED BY <2>3, LenProperties
<1>3. EncodedRequest(q, i) = <<x, i>> \o b
  BY DEF EncodedRequest
<1> HIDE DEF x, b
<1>4. QED BY <1>1, <1>2, <1>3, HeaderIs DEF x, HeaderLen

\* ... is cut where it ends.
LEMMA RequestEnds ==
  ASSUME NEW q, Sendable(q), NEW i \in Nat, NEW buf \in Seq(Cell), Agrees(buf, EncodedRequest(q, i))
  PROVE  Ends(RequestDecoder(q.service, q.op, buf), buf, EncodedRequest(q, i))
<1> DEFINE x == Ids[q.service][q.op]
           a == <<x, i>>
           cells == EncodedRequest(q, i)
<1>1. x \in Nat /\ q.path \in Nat
  BY IdsAreInjective, Services
<1>2. cells = a \o RequestEncoder(q) /\ Agrees(buf, cells)
  BY DEF EncodedRequest
<1> HIDE DEF cells, x
<1>3. a \in Seq(Cell) /\ Len(a) = HeaderLen
  BY <1>1, HeaderIs, BlankIs, 0 \in Nat
<1>4. ASSUME NEW n \in Nat, RequestEncoder(q) = Blank(n),
             \A b : RequestDecoder(q.service, q.op, b) = Whole(HeaderLen + n, b)
      PROVE  Ends(RequestDecoder(q.service, q.op, buf), buf, cells)
  <2>1. Blank(n) \in Seq(Cell) /\ Len(Blank(n)) = n
    BY BlankIs
  <2>2. Len(cells) = HeaderLen + n
    BY <1>1, <1>2, <1>4, <2>1, HeaderIs
  <2>3. QED BY <1>4, <2>2, WholeEnds
<1> HIDE DEF a
<1>5. ASSUME NEW n \in Nat, NEW at \in 1..n, RequestEncoder(q) = Structure(n, at, q.path),
             \A b : RequestDecoder(q.service, q.op, b) = WithPath(HeaderLen + n, HeaderLen + at, b)
      PROVE  Ends(RequestDecoder(q.service, q.op, buf), buf, cells)
  <2> DEFINE path == q.path
  <2>1. path \in Nat /\ cells = a \o Structure(n, at, path)
    BY <1>1, <1>2, <1>5
  <2> HIDE DEF path
  <2>2. Ends(WithPath(Len(a) + n, Len(a) + at, buf), buf, a \o Structure(n, at, path))
    BY <1>2, <1>3, <2>1, OneEnds
  <2>3. QED BY <1>3, <1>5, <2>1, <2>2
<1>6. QED BY <1>4, <1>5, RequestShape DEF cells

\* A row of the structures of a service.
LEMMA Rows ==
  ASSUME NEW p \in Seq(Nat)
  PROVE  /\ FlattenSeq([k \in DOMAIN p |-> Object(p[k])]) = Row(ObjectLen, ObjectPath, p)
         /\ FlattenSeq([k \in DOMAIN p |-> Foo(p[k])]) = Row(FooLen, FooPath, p)
         /\ FlattenSeq([k \in DOMAIN p |-> DumpedService(p[k])]) = Row(ServiceLen, ServiceLen, p)
<1>1. DOMAIN p = 1..Len(p) /\ \A k \in 1..Len(p) : p[k] \in Nat
  BY LenProperties, ElementOfSeq
<1>2. \A k \in 1..Len(p) : /\ Object(p[k]) = Structure(ObjectLen, ObjectPath, p[k])
                           /\ Foo(p[k]) = Structure(FooLen, FooPath, p[k])
                           /\ DumpedService(p[k]) = Structure(ServiceLen, ServiceLen, p[k])
  <2> TAKE k \in 1..Len(p)
  <2> DEFINE path == p[k]
  <2>1. path \in Nat
    BY <1>1
  <2> HIDE DEF path
  <2>2. QED BY <2>1, Structures DEF path
<1>3. [k \in DOMAIN p |-> Object(p[k])] = [k \in 1..Len(p) |-> Structure(ObjectLen, ObjectPath, p[k])]
  BY <1>1, <1>2
<1>4. [k \in DOMAIN p |-> Foo(p[k])] = [k \in 1..Len(p) |-> Structure(FooLen, FooPath, p[k])]
  BY <1>1, <1>2
<1>5. [k \in DOMAIN p |-> DumpedService(p[k])]
         = [k \in 1..Len(p) |-> Structure(ServiceLen, ServiceLen, p[k])]
  BY <1>1, <1>2
<1>6. QED BY <1>3, <1>4, <1>5 DEF Row

\* What the actions answer.
LEMMA Answers ==
  ASSUME NEW q, Sendable(q), NEW r \in Action(q)
  PROVE  /\ r.error \in {0, 1}
         /\ q.service = "Cluster" /\ q.op \in {"GetLatest", "Status"} => r.map \in Maps
         /\ q.service = "Object" /\ r.error = 0 =>
               q.op \in {"List", "Stop"} /\ r.paths = <<>>
         /\ q.service = "Foo" /\ q.op = "Get" /\ r.error = 0 => \E p \in Paths : r.paths = <<p>>
         /\ q.service = "Foo" /\ q.op = "List" => r.paths \in Seq(Paths)
<1>1. /\ Error.error = 1 /\ Nothing.error = 0 /\ Nothing.paths = <<>>
      /\ \A ps : Found(ps).error = 0 /\ Found(ps).paths = ps
      /\ \A m : [Nothing EXCEPT !.map = m].error = 0 /\ [Nothing EXCEPT !.map = m].map = m
  BY DEF Error, Nothing, Found
<1>2. CASE q.service = "Cluster"
  <2>1. r \in ClusterAction(q)
    BY <1>2 DEF Action
  <2>2. CASE q.op \in {"GetLatest", "Status"}
    <3>1. PICK m \in Maps : r = [Nothing EXCEPT !.map = m]
      BY <2>1, <2>2 DEF ClusterAction
    <3>2. QED BY <1>1, <1>2, <2>2, <3>1
  <2>3. CASE q.op \notin {"GetLatest", "Status"}
    <3>1. r = Nothing
      BY <2>1, <2>3 DEF ClusterAction
    <3>2. QED BY <1>1, <1>2, <2>3, <3>1
  <2>4. QED BY <2>2, <2>3
<1>3. CASE q.service = "Object"
  <2>1. r \in ObjectAction(q)
    BY <1>3 DEF Action
  <2>2. QED BY <1>1, <1>3, <2>1 DEF ObjectAction
<1>4. CASE q.service = "Foo"
  <2>1. r \in FooAction(q)
    BY <1>4 DEF Action
  <2>2. CASE q.op = "Get"
    <3>1. r = Error \/ \E p \in Paths : r = Found(<<p>>)
      BY <2>1, <2>2 DEF FooAction
    <3>2. CASE r = Error
      BY <1>1, <1>4, <2>2, <3>2
    <3>3. CASE r # Error
      <4>1. PICK p \in Paths : r = Found(<<p>>)
        BY <3>1, <3>3
      <4>2. r.error = 0 /\ r.paths = <<p>>
        BY <1>1, <4>1
      <4>3. QED BY <1>4, <2>2, <4>2
    <3>4. QED BY <3>2, <3>3
  <2>3. CASE q.op = "Put"
    <3>1. r.error = 0
      BY <1>1, <2>1, <2>3 DEF FooAction
    <3>2. QED BY <1>4, <2>3, <3>1
  <2>4. CASE q.op = "List"
    <3>1. PICK n \in 0..MaxEntries : \E ps \in [1..n -> Paths] : r = Found(ps)
      BY <2>1, <2>4 DEF FooAction
    <3>2. PICK ps \in [1..n -> Paths] : r = Found(ps)
      BY <3>1
    <3>3. ps \in Seq(Paths)
      <4>1. n \in Nat
        BY RequestAssumption
      <4>2. QED BY <4>1
    <3>4. QED BY <1>1, <1>4, <2>4, <3>2, <3>3
  <2>5. QED BY <1>4, <2>2, <2>3, <2>4, Services
<1>5. QED BY <1>2, <1>3, <1>4, Services

\* The four shapes of a response.
FieldsOnly(q, r) == \E n \in Nat :
    /\ ResponseEncoder(q, r) = Blank(n)
    /\ \A buf : buf[1] = r.error => ResponseDecoder(q, buf) = Whole(HeaderLen + n, buf)
OneStructure(q, r) == \E n \in Nat, path \in Nat : \E at \in 1..n :
    /\ ResponseEncoder(q, r) = Structure(n, at, path)
    /\ \A buf : buf[1] = r.error => ResponseDecoder(q, buf) = WithPath(HeaderLen + n, HeaderLen + at, buf)
AList(q, r) == \E n \in Nat, p \in Seq(Cell) : \E at \in 1..n :
    /\ n # 0
    /\ ResponseEncoder(q, r) = <<Len(p)>> \o Row(n, at, p)
    /\ \A buf : buf[1] = r.error => ResponseDecoder(q, buf) = ListDecoder(n, at, buf)
AMap(q, r) == \E n \in Nat, m \in Maps :
    /\ ResponseEncoder(q, r) = Blank(n) \o DumpedMap(m)
    /\ \A buf : buf[1] = r.error => ResponseDecoder(q, buf) = ParsedMap(HeaderLen + n, buf)

\* No cells in front change nothing.
LEMMA NoBlank ==
  ASSUME NEW b \in Seq(Cell)
  PROVE  Blank(0) \o b = b
<1>1. Blank(0) = <<>>
  BY BlankIs, EmptySeq
<1>2. QED BY <1>1, ConcatEmptySeq

\* A response has one of these shapes, and the decoder of its request is the one for that.
LEMMA ResponseShape ==
  ASSUME NEW q, Sendable(q), NEW r \in Action(q),
         \A m \in Maps : DumpedMap(m) \in Seq(Cell)
  PROVE  FieldsOnly(q, r) \/ OneStructure(q, r) \/ AList(q, r) \/ AMap(q, r)
<1>1. CASE r.error # 0
  <2>1. ResponseEncoder(q, r) = Blank(0)
    <3>1. Blank(0) = <<>>
      BY BlankIs, EmptySeq
    <3>2. QED BY <1>1, <3>1 DEF ResponseEncoder, ErrorResponseEncoder
  <2>2. \A buf : buf[1] = r.error => ResponseDecoder(q, buf) = Whole(HeaderLen + 0, buf)
    BY <1>1 DEF ResponseDecoder, ErrorResponseDecoder, HeaderLen
  <2>3. QED BY <2>1, <2>2, 0 \in Nat DEF FieldsOnly
<1>2. CASE r.error = 0 /\ q.service = "Cluster"
  <2>1. ResponseEncoder(q, r) = ClusterResponseEncoder(q, r)
    BY <1>2 DEF ResponseEncoder
  <2>2. \A buf : buf[1] = r.error => ResponseDecoder(q, buf) = ClusterResponseDecoder(q.op, buf)
    BY <1>2 DEF ResponseDecoder
  <2>3. CASE q.op = "GetLatest"
    <3>1. r.map \in Maps
      BY <1>2, <2>3, Answers
    <3>2. ResponseEncoder(q, r) = Blank(0) \o DumpedMap(r.map)
      BY <2>1, <2>3, <3>1, NoBlank DEF ClusterResponseEncoder
    <3>3. \A buf : buf[1] = r.error => ResponseDecoder(q, buf) = ParsedMap(HeaderLen + 0, buf)
      BY <2>2, <2>3 DEF ClusterResponseDecoder, HeaderLen
    <3>4. QED BY <3>1, <3>2, <3>3, 0 \in Nat DEF AMap
  <2>4. CASE q.op = "Status"
    <3>1. r.map \in Maps
      BY <1>2, <2>4, Answers
    <3>2. ResponseEncoder(q, r) = Blank(StatusLen) \o DumpedMap(r.map)
      BY <2>1, <2>4, <3>1 DEF ClusterResponseEncoder
    <3>3. \A buf : buf[1] = r.error => ResponseDecoder(q, buf) = ParsedMap(HeaderLen + StatusLen, buf)
      BY <2>2, <2>4 DEF ClusterResponseDecoder
    <3>4. StatusLen \in Nat
      BY DEF StatusLen
    <3>5. QED BY <3>1, <3>2, <3>3, <3>4 DEF AMap
  <2>5. CASE q.op \notin {"GetLatest", "Status"}
    <3> DEFINE n == ClusterFields.response[q.op]
    <3>1. n \in Nat
      <4>1. q.op \in DOMAIN ClusterFields.response
        BY <1>2, <2>5, Services DEF ClusterFields
      <4>2. QED BY <4>1, FieldsAreNumbers
    <3>2. ResponseEncoder(q, r) = Blank(n)
      BY <2>1, <2>5 DEF ClusterResponseEncoder
    <3>3. \A buf : buf[1] = r.error => ResponseDecoder(q, buf) = Whole(HeaderLen + n, buf)
      BY <2>2, <2>5 DEF ClusterResponseDecoder
    <3> HIDE DEF n
    <3>4. QED BY <3>1, <3>2, <3>3 DEF FieldsOnly
  <2>6. QED BY <2>3, <2>4, <2>5
<1>3. CASE r.error = 0 /\ q.service = "Object"
  <2>1. ResponseEncoder(q, r) = ObjectResponseEncoder(q, r)
    BY <1>3 DEF ResponseEncoder
  <2>2. \A buf : buf[1] = r.error => ResponseDecoder(q, buf) = ObjectResponseDecoder(q.op, buf)
    BY <1>3 DEF ResponseDecoder
  <2>3. q.op \in {"List", "Stop"} /\ r.paths = <<>>
    BY <1>3, Answers
  <2>4. CASE q.op = "List"
    <3> DEFINE p == r.paths
    <3>1. p \in Seq(Nat) /\ p \in Seq(Cell)
      BY <2>3
    <3>2. ResponseEncoder(q, r) = <<Len(p)>> \o Row(ObjectLen, ObjectPath, p)
      BY <2>1, <2>4, <3>1, Rows DEF ObjectResponseEncoder
    <3>3. \A buf : buf[1] = r.error => ResponseDecoder(q, buf) = ListDecoder(ObjectLen, ObjectPath, buf)
      BY <2>2, <2>4 DEF ObjectResponseDecoder
    <3>4. ObjectLen \in Nat /\ ObjectLen # 0 /\ ObjectPath \in 1..ObjectLen
      BY DEF ObjectLen, ObjectPath
    <3> HIDE DEF p
    <3>5. QED BY <3>1, <3>2, <3>3, <3>4 DEF AList
  <2>5. CASE q.op = "Stop"
    <3> DEFINE n == ObjectFields.response[q.op]
    <3>1. n \in Nat
      <4>1. q.op \in DOMAIN ObjectFields.response
        BY <2>5 DEF ObjectFields
      <4>2. QED BY <4>1, FieldsAreNumbers
    <3>2. ResponseEncoder(q, r) = Blank(n)
      BY <2>1, <2>5 DEF ObjectResponseEncoder
    <3>3. \A buf : buf[1] = r.error => ResponseDecoder(q, buf) = Whole(HeaderLen + n, buf)
      BY <2>2, <2>5 DEF ObjectResponseDecoder
    <3> HIDE DEF n
    <3>4. QED BY <3>1, <3>2, <3>3 DEF FieldsOnly
  <2>6. QED BY <2>3, <2>4, <2>5
<1>4. CASE r.error = 0 /\ q.service = "Foo"
  <2>1. ResponseEncoder(q, r) = FooResponseEncoder(q, r)
    BY <1>4 DEF ResponseEncoder
  <2>2. \A buf : buf[1] = r.error => ResponseDecoder(q, buf) = FooResponseDecoder(q.op, buf)
    BY <1>4 DEF ResponseDecoder
  <2>3. FooLen \in Nat /\ FooLen # 0 /\ FooPath \in 1..FooLen
    BY DEF FooLen, FooPath
  <2>4. CASE q.op = "Get"
    <3>1. PICK path \in Paths : r.paths = <<path>>
      BY <1>4, <2>4, Answers
    <3>2. path \in Nat /\ r.paths[1] = path
      BY <3>1, RequestAssumption
    <3>3. ResponseEncoder(q, r) = Structure(FooLen, FooPath, path)
      BY <2>1, <2>4, <3>2, Structures DEF FooResponseEncoder
    <3>4. \A buf : buf[1] = r.error =>
             ResponseDecoder(q, buf) = WithPath(HeaderLen + FooLen, HeaderLen + FooPath, buf)
      BY <2>2, <2>4 DEF FooResponseDecoder
    <3>5. QED BY <2>3, <3>2, <3>3, <3>4 DEF OneStructure
  <2>5. CASE q.op = "List"
    <3> DEFINE p == r.paths
    <3>1. p \in Seq(Nat) /\ p \in Seq(Cell)
      <4>1. p \in Seq(Paths)
        BY <1>4, <2>5, Answers
      <4> HIDE DEF p
      <4>2. Len(p) \in Nat /\ p \in [1..Len(p) -> Paths]
        BY <4>1, LenProperties
      <4>3. p \in [1..Len(p) -> Nat]
        BY <4>2, RequestAssumption
      <4>4. QED BY <4>2, <4>3 DEF Cell
    <3>2. ResponseEncoder(q, r) = <<Len(p)>> \o Row(FooLen, FooPath, p)
      BY <2>1, <2>5, <3>1, Rows DEF FooResponseEncoder
    <3>3. \A buf : buf[1] = r.error => ResponseDecoder(q, buf) = ListDecoder(FooLen, FooPath, buf)
      BY <2>2, <2>5 DEF FooResponseDecoder
    <3> HIDE DEF p
    <3>4. QED BY <2>3, <3>1, <3>2, <3>3 DEF AList
  <2>6. CASE q.op = "Put"
    <3> DEFINE n == FooFields.response[q.op]
    <3>1. n \in Nat
      <4>1. q.op \in DOMAIN FooFields.response
        BY <2>6 DEF FooFields
      <4>2. QED BY <4>1, FieldsAreNumbers
    <3>2. ResponseEncoder(q, r) = Blank(n)
      BY <2>1, <2>6 DEF FooResponseEncoder
    <3>3. \A buf : buf[1] = r.error => ResponseDecoder(q, buf) = Whole(HeaderLen + n, buf)
      BY <2>2, <2>6 DEF FooResponseDecoder
    <3> HIDE DEF n
    <3>4. QED BY <3>1, <3>2, <3>3 DEF FieldsOnly
  <2>7. QED BY <1>4, <2>4, <2>5, <2>6, Services
<1>5. QED BY <1>1, <1>2, <1>3, <1>4, Services

\* What precedes the services of a map: its numbers, the bsets and their replicas.
MapSize(m) == m.bsets * (1 + m.replicas)
MapHead(m) == <<Opaque, m.bsets, m.replicas, Len(m.shares)>> \o Blank(MapSize(m))

\* dumpClusterMap: the header of the map, the bsets and their replicas, then a row of services.
LEMMA MapIs ==
  ASSUME NEW m, Dumpable(m)
  PROVE  /\ MapSize(m) \in Nat /\ m.bsets \in Nat /\ m.replicas \in Nat
         /\ m.shares \in Seq(Cell) /\ Len(m.shares) \in Nat
         /\ MapHead(m) \in Seq(Cell) /\ Len(MapHead(m)) = MapLen + MapSize(m)
         /\ MapHead(m)[2] = m.bsets /\ MapHead(m)[3] = m.replicas /\ MapHead(m)[4] = Len(m.shares)
         /\ DumpedMap(m) = MapHead(m) \o Row(ServiceLen, ServiceLen, m.shares)
         /\ Row(ServiceLen, ServiceLen, m.shares) \in Seq(Cell)
<1> DEFINE b == m.bsets
           r == m.replicas
           p == m.shares
           s == MapSize(m)
<1>1. b \in Nat /\ r \in Nat /\ p \in Seq(Nat)
  BY DEF Dumpable
<1>2. s \in Nat
  <2>1. s = b * (1 + r)
    BY DEF MapSize
  <2> HIDE DEF s, b, r
  <2>2. QED BY <1>1, <2>1
<1>3. DumpedMap(m) = MapHead(m) \o Row(ServiceLen, ServiceLen, p)
  <2>1. FlattenSeq([k \in DOMAIN p |-> DumpedService(p[k])]) = Row(ServiceLen, ServiceLen, p)
    BY <1>1, Rows
  <2>2. QED BY <2>1 DEF DumpedMap, MapHead, MapSize
<1>4. p \in Seq(Cell) /\ Len(p) \in Nat
  BY <1>1, LenProperties DEF Cell
<1> DEFINE l == Len(p)
           a == <<Opaque, b, r, l>>
           c == Blank(s)
<1> HIDE DEF b, r, p, s
<1>5. l \in Nat
  BY <1>4
<1> HIDE DEF l
<1>6. a \in Seq(Cell) /\ Len(a) = 4 /\ a[2] = b /\ a[3] = r /\ a[4] = l
  BY <1>1, <1>5 DEF Opaque, Cell
<1>7. c \in Seq(Cell) /\ Len(c) = s
  BY <1>2, BlankIs
<1> HIDE DEF a, c
<1>8. /\ a \o c \in Seq(Cell) /\ Len(a \o c) = Len(a) + Len(c)
      /\ \A k \in 1..Len(a) : (a \o c)[k] = a[k]
  BY <1>6, <1>7, Behind
<1>9. 2 \in 1..Len(a) /\ 3 \in 1..Len(a) /\ 4 \in 1..Len(a)
  BY <1>6
<1>10. MapHead(m) = a \o c
  BY DEF MapHead, a, b, r, l, p, c, s
<1>11. Row(ServiceLen, ServiceLen, p) \in Seq(Cell)
  BY <1>4, RowIs DEF ServiceLen
<1>12. Len(a \o c) = MapLen + s
  BY <1>6, <1>7, <1>8 DEF MapLen
<1>13. /\ MapHead(m) \in Seq(Cell) /\ Len(MapHead(m)) = MapLen + s
       /\ MapHead(m)[2] = b /\ MapHead(m)[3] = r /\ MapHead(m)[4] = l
  BY <1>6, <1>8, <1>9, <1>10, <1>12
<1>14. QED BY <1>1, <1>2, <1>3, <1>4, <1>11, <1>13 DEF b, r, p, s, l

\* A message that ends in a map.
LEMMA MapEnds ==
  ASSUME NEW a \in Seq(Cell), Len(a) # 0, NEW m, Dumpable(m), NEW buf \in Seq(Cell),
         Agrees(buf, a \o DumpedMap(m))
  PROVE  Ends(ParsedMap(Len(a), buf), buf, a \o DumpedMap(m))
<1> DEFINE head == MapHead(m)
           p == m.shares
           row == Row(ServiceLen, ServiceLen, p)
           cells == a \o DumpedMap(m)
           s == MapSize(m)
           from == Len(a)
           l == Len(buf)
<1>1. /\ head \in Seq(Cell) /\ Len(head) = MapLen + s /\ s \in Nat /\ row \in Seq(Cell)
      /\ head[2] = m.bsets /\ head[3] = m.replicas /\ head[4] = Len(p)
      /\ DumpedMap(m) = head \o row /\ p \in Seq(Cell)
  BY MapIs
<1>2. s = m.bsets * (1 + m.replicas)
  BY DEF MapSize
<1>3. cells = (a \o head) \o row
  <2> HIDE DEF head, row
  <2>1. a \o (head \o row) = (a \o head) \o row
    BY <1>1, Regroup
  <2>2. QED BY <1>1, <2>1
<1>4. Agrees(buf, cells)
  OBVIOUS
<1>5. from \in Nat /\ from # 0 /\ l \in Nat
  BY LenProperties
<1> HIDE DEF cells, head, row, s
<1>6. /\ a \o head \in Seq(Cell) /\ Len(a \o head) = from + MapLen + s
      /\ \A k \in 1..Len(head) : (a \o head)[from + k] = head[k]
  <2>1. /\ a \o head \in Seq(Cell) /\ Len(a \o head) = from + Len(head)
        /\ \A k \in 1..Len(head) : (a \o head)[from + k] = head[k]
    BY <1>1, Behind
  <2>2. from + (MapLen + s) = from + MapLen + s
    BY <1>1, <1>5 DEF MapLen
  <2>3. QED BY <1>1, <2>1, <2>2
<1>7. /\ cells \in Seq(Cell) /\ Len(cells) = Len(a \o head) + Len(row) /\ Len(row) \in Nat
      /\ \A k \in 1..Len(a \o head) : cells[k] = (a \o head)[k]
  BY <1>1, <1>3, <1>6, Behind
<1>8. Len(cells) \in Nat /\ Len(cells) >= from + MapLen
  <2> DEFINE u == Len(cells)
             v == Len(a \o head)
             w == Len(row)
  <2>1. u = v + w /\ v = from + MapLen + s /\ w \in Nat
    BY <1>6, <1>7
  <2> HIDE DEF u, v, w
  <2>2. u \in Nat /\ u >= from + MapLen
    BY <1>1, <1>5, <2>1 DEF MapLen
  <2>3. QED BY <2>2 DEF u
<1> HIDE DEF from, l
<1>9. CASE l < from + MapLen
  <2>1. ParsedMap(from, buf) = 0 /\ l < Len(cells)
    BY <1>5, <1>8, <1>9 DEF ParsedMap, l, MapLen
  <2>2. QED BY <2>1 DEF Ends, from, l, cells
<1>10. CASE ~(l < from + MapLen)
  <2>1. ASSUME NEW k \in 2..4 PROVE buf[from + k] = head[k]
    <3>1. k \in 1..Len(head) /\ from + k \in 1..Len(a \o head)
      BY <1>1, <1>5, <1>6 DEF MapLen
    <3>2. from + k \in 1..l /\ from + k \in 1..Len(cells) /\ from + k \in Nat
      BY <1>5, <1>8, <1>10 DEF MapLen
    <3>3. buf[from + k] = cells[from + k]
      BY <1>4, <3>2 DEF Agrees, l
    <3>4. QED BY <1>6, <1>7, <3>1, <3>3
  <2>2. buf[from + 2] = m.bsets /\ buf[from + 3] = m.replicas /\ buf[from + 4] = Len(p)
    BY <1>1, <2>1
  <2>3. ParsedMap(from, buf) = Entries(from + MapLen + s, Len(p), ServiceLen, ServiceLen, buf)
    BY <1>2, <1>10, <2>2 DEF ParsedMap, l
  <2>4. Len(a \o head) # 0
    BY <1>1, <1>5, <1>6 DEF MapLen
  <2>5. ServiceLen \in Nat /\ ServiceLen # 0 /\ ServiceLen \in 1..ServiceLen
    BY DEF ServiceLen
  <2>6. Agrees(buf, (a \o head) \o row)
    BY <1>3, <1>4
  <2>7. Ends(Entries(Len(a \o head), Len(p), ServiceLen, ServiceLen, buf), buf, (a \o head) \o row)
    BY <1>1, <1>6, <2>4, <2>5, <2>6, RowEnds DEF row
  <2>8. QED BY <1>3, <1>6, <2>3, <2>7 DEF from, cells
<1>11. QED BY <1>9, <1>10

\* A message that is a list.
LEMMA ListEnds ==
  ASSUME NEW a \in Seq(Cell), Len(a) = HeaderLen, NEW n \in Nat, n # 0, NEW at \in 1..n,
         NEW p \in Seq(Cell), NEW buf \in Seq(Cell),
         Agrees(buf, a \o (<<Len(p)>> \o Row(n, at, p)))
  PROVE  Ends(ListDecoder(n, at, buf), buf, a \o (<<Len(p)>> \o Row(n, at, p)))
<1> DEFINE c == Len(p)
           b == <<c>>
           row == Row(n, at, p)
           cells == a \o (b \o row)
           l == Len(buf)
<1>1. row \in Seq(Cell) /\ c \in Nat /\ l \in Nat
  BY RowIs, LenProperties
<1> HIDE DEF row, c
<1>2. b \in Seq(Cell) /\ Len(b) = 1 /\ b[1] = c
  <2>1. c \in Cell
    BY <1>1 DEF Cell
  <2>2. QED BY <2>1
<1> HIDE DEF b
<1>3. cells = (a \o b) \o row
  <2>1. a \o (b \o row) = (a \o b) \o row
    BY <1>1, <1>2, Regroup, SMTT(30)
  <2>2. QED BY <2>1
<1>4. Agrees(buf, cells)
  BY DEF b, c, row
<1> HIDE DEF cells
<1>5. a \o b \in Seq(Cell) /\ Len(a \o b) = HeaderLen + 1 /\ (a \o b)[HeaderLen + 1] = c
  <2>1. 1 \in 1..Len(b)
    BY <1>2
  <2>2. a \o b \in Seq(Cell) /\ Len(a \o b) = Len(a) + Len(b) /\ (a \o b)[Len(a) + 1] = b[1]
    BY <1>2, <2>1, Behind, ZenonT(30)
  <2> DEFINE ab == a \o b
  <2> HIDE DEF ab
  <2>3. ab \in Seq(Cell) /\ Len(ab) = HeaderLen + 1 /\ ab[HeaderLen + 1] = c
    BY <1>2, <2>2 DEF ab
  <2>4. QED BY <2>3 DEF ab
<1>6. /\ Len(cells) = HeaderLen + 1 + Len(row) /\ Len(row) \in Nat
      /\ cells[HeaderLen + 1] = c
  <2>1. HeaderLen + 1 \in 1..Len(a \o b)
    BY <1>5 DEF HeaderLen
  <2>2. /\ Len(cells) = Len(a \o b) + Len(row) /\ Len(row) \in Nat
        /\ \A k \in 1..Len(a \o b) : cells[k] = (a \o b)[k]
    BY <1>1, <1>3, <1>5, Behind
  <2>3. QED BY <1>5, <2>1, <2>2
<1>7. Len(cells) \in Nat /\ Len(cells) >= HeaderLen + 1
  BY <1>6 DEF HeaderLen
<1> HIDE DEF l
<1>8. CASE l < HeaderLen + 1
  <2>1. ListDecoder(n, at, buf) = 0 /\ l < Len(cells)
    BY <1>1, <1>7, <1>8 DEF ListDecoder, l, HeaderLen
  <2>2. QED BY <2>1 DEF Ends, l, cells, b, c, row
<1>9. CASE ~(l < HeaderLen + 1)
  <2>1. HeaderLen + 1 \in 1..l /\ HeaderLen + 1 \in 1..Len(cells) /\ HeaderLen + 1 \in Nat
    BY <1>1, <1>7, <1>9 DEF HeaderLen
  <2>2. buf[HeaderLen + 1] = c
    BY <1>4, <1>6, <2>1 DEF Agrees, l
  <2>3. ListDecoder(n, at, buf) = Entries(HeaderLen + 1, c, n, at, buf)
    BY <1>9, <2>2 DEF ListDecoder, l
  <2>4. Len(a \o b) # 0
    BY <1>5 DEF HeaderLen
  <2>5. Agrees(buf, (a \o b) \o row)
    BY <1>3, <1>4
  <2>6. Ends(Entries(Len(a \o b), c, n, at, buf), buf, (a \o b) \o row)
    BY <1>5, <2>4, <2>5, RowEnds DEF row, c
  <2>7. Ends(ListDecoder(n, at, buf), buf, cells)
    BY <1>3, <1>5, <2>3, <2>6
  <2>8. QED BY <2>7 DEF cells, b, c, row
<1>10. QED BY <1>8, <1>9

\* Every map that Mon dumps is a sequence of cells.
LEMMA MapsAreCells == \A m \in Maps : Dumpable(m) /\ DumpedMap(m) \in Seq(Cell)
<1> SUFFICES ASSUME NEW m \in Maps PROVE Dumpable(m) /\ DumpedMap(m) \in Seq(Cell)
  OBVIOUS
<1>1. Dumpable(m)
  BY RequestAssumption
<1> DEFINE a == MapHead(m)
           b == Row(ServiceLen, ServiceLen, m.shares)
<1>2. a \in Seq(Cell) /\ b \in Seq(Cell) /\ DumpedMap(m) = a \o b
  BY <1>1, MapIs
<1> HIDE DEF a, b
<1>3. QED BY <1>1, <1>2, Behind

\* A response that is written ...
LEMMA EncodedResponseIs ==
  ASSUME NEW q, Sendable(q), NEW r \in Action(q), NEW i \in Nat
  PROVE  /\ ResponseEncoder(q, r) \in Seq(Cell)
         /\ EncodedResponse(q, r, i) \in Seq(Cell) /\ Len(EncodedResponse(q, r, i)) >= 2
         /\ EncodedResponse(q, r, i)[1] = r.error /\ EncodedResponse(q, r, i)[2] = i
<1> DEFINE x == r.error
           b == ResponseEncoder(q, r)
<1>1. x \in Nat
  BY Answers
<1>2. b \in Seq(Cell) /\ Len(b) \in Nat
  <2> HIDE DEF b
  <2>1. CASE FieldsOnly(q, r)
    BY <2>1, BlankIs DEF FieldsOnly, b
  <2>2. CASE OneStructure(q, r)
    <3>1. PICK n \in Nat, path \in Nat : \E at \in 1..n : b = Structure(n, at, path)
      BY <2>2 DEF OneStructure, b
    <3>2. PICK at \in 1..n : b = Structure(n, at, path)
      BY <3>1
    <3>3. Structure(n, at, path) \in Seq(Cell)
      BY StructureIs
    <3>4. QED BY <3>2, <3>3
  <2>3. CASE AList(q, r)
    <3>1. PICK n \in Nat, p \in Seq(Cell) : \E at \in 1..n : b = <<Len(p)>> \o Row(n, at, p)
      BY <2>3 DEF AList, b
    <3>2. PICK at \in 1..n : b = <<Len(p)>> \o Row(n, at, p)
      BY <3>1
    <3> DEFINE c == <<Len(p)>>
               d == Row(n, at, p)
    <3>3. c \in Seq(Cell) /\ d \in Seq(Cell) /\ b = c \o d
      BY <3>2, RowIs, LenProperties DEF Cell
    <3> HIDE DEF c, d
    <3>4. QED BY <3>3, Behind
  <2>4. CASE AMap(q, r)
    <3>1. PICK n \in Nat, m \in Maps : b = Blank(n) \o DumpedMap(m)
      BY <2>4 DEF AMap, b
    <3> DEFINE c == Blank(n)
               d == DumpedMap(m)
    <3>2. c \in Seq(Cell) /\ d \in Seq(Cell)
      BY BlankIs, MapsAreCells
    <3> HIDE DEF c, d
    <3>3. c \o d \in Seq(Cell)
      BY <3>2, Behind
    <3>4. QED BY <3>1, <3>3 DEF c, d
  <2>5. b \in Seq(Cell)
    BY <2>1, <2>2, <2>3, <2>4, ResponseShape, MapsAreCells
  <2>6. QED BY <2>5, LenProperties
<1>3. EncodedResponse(q, r, i) = <<x, i>> \o b
  BY DEF EncodedResponse
<1>4. b \in Seq(Cell)
  BY <1>2
<1> HIDE DEF x, b
<1>5. QED BY <1>1, <1>2, <1>3, HeaderIs DEF x, b, HeaderLen

\* ... is cut where it ends, by the decoder of its request.
LEMMA ResponseEnds ==
  ASSUME NEW q, Sendable(q), NEW r \in Action(q), NEW i \in Nat,
         NEW buf \in Seq(Cell), Len(buf) >= HeaderLen, Agrees(buf, EncodedResponse(q, r, i))
  PROVE  Ends(ResponseDecoder(q, buf), buf, EncodedResponse(q, r, i))
<1> DEFINE x == r.error
           a == <<x, i>>
           cells == EncodedResponse(q, r, i)
           b == ResponseEncoder(q, r)
<1>1. x \in Nat
  BY Answers
<1>2. cells = a \o b /\ Agrees(buf, cells) /\ b \in Seq(Cell)
  BY EncodedResponseIs DEF EncodedResponse
<1>3. buf[1] = r.error
  <2>1. cells[1] = r.error /\ Len(cells) >= 2 /\ Len(cells) \in Nat
    BY EncodedResponseIs, LenProperties
  <2> HIDE DEF cells
  <2>2. 1 \in 1..Len(buf) /\ 1 \in 1..Len(cells) /\ 1 \in Nat
    BY <2>1, LenProperties DEF HeaderLen
  <2>3. QED BY <1>2, <2>1, <2>2 DEF Agrees
<1> HIDE DEF cells, x
<1>4. a \in Seq(Cell) /\ Len(a) = HeaderLen /\ Len(a) # 0
  BY <1>1, <1>2, HeaderIs DEF HeaderLen
<1> HIDE DEF a
<1>5. CASE FieldsOnly(q, r)
  <2>1. PICK n \in Nat : b = Blank(n) /\ ResponseDecoder(q, buf) = Whole(HeaderLen + n, buf)
    BY <1>3, <1>5 DEF FieldsOnly
  <2>2. Len(b) = n
    BY <2>1, BlankIs
  <2> HIDE DEF b
  <2>3. Len(cells) = HeaderLen + n
    BY <1>2, <1>4, <2>2, Behind
  <2>4. QED BY <2>1, <2>3, WholeEnds DEF cells
<1>6. CASE OneStructure(q, r)
  <2>1. PICK n \in Nat, path \in Nat : \E at \in 1..n :
           /\ b = Structure(n, at, path)
           /\ ResponseDecoder(q, buf) = WithPath(HeaderLen + n, HeaderLen + at, buf)
    BY <1>3, <1>6 DEF OneStructure
  <2>2. PICK at \in 1..n :
           /\ b = Structure(n, at, path)
           /\ ResponseDecoder(q, buf) = WithPath(HeaderLen + n, HeaderLen + at, buf)
    BY <2>1
  <2> HIDE DEF b
  <2>3. cells = a \o Structure(n, at, path)
    BY <1>2, <2>2
  <2>4. Ends(WithPath(Len(a) + n, Len(a) + at, buf), buf, a \o Structure(n, at, path))
    BY <1>2, <1>4, <2>3, OneEnds
  <2>5. QED BY <1>4, <2>2, <2>3, <2>4 DEF cells
<1>7. CASE AList(q, r)
  <2>1. PICK n \in Nat, p \in Seq(Cell) : \E at \in 1..n :
           /\ n # 0 /\ b = <<Len(p)>> \o Row(n, at, p)
           /\ ResponseDecoder(q, buf) = ListDecoder(n, at, buf)
    BY <1>3, <1>7 DEF AList
  <2>2. PICK at \in 1..n :
           /\ n # 0 /\ b = <<Len(p)>> \o Row(n, at, p)
           /\ ResponseDecoder(q, buf) = ListDecoder(n, at, buf)
    BY <2>1
  <2> HIDE DEF b
  <2>3. cells = a \o (<<Len(p)>> \o Row(n, at, p))
    BY <1>2, <2>2
  <2>4. Ends(ListDecoder(n, at, buf), buf, a \o (<<Len(p)>> \o Row(n, at, p)))
    BY <1>2, <1>4, <2>2, <2>3, ListEnds
  <2>5. QED BY <2>2, <2>3, <2>4 DEF cells
<1>8. CASE AMap(q, r)
  <2>1. PICK n \in Nat, m \in Maps : /\ b = Blank(n) \o DumpedMap(m)
                                     /\ ResponseDecoder(q, buf) = ParsedMap(HeaderLen + n, buf)
    BY <1>3, <1>8 DEF AMap
  <2> HIDE DEF b
  <2> DEFINE c == Blank(n)
             d == DumpedMap(m)
             e == a \o c
  <2>2. c \in Seq(Cell) /\ Len(c) = n /\ d \in Seq(Cell) /\ Dumpable(m)
    BY BlankIs, MapsAreCells
  <2>3. b = c \o d
    BY <2>1
  <2> HIDE DEF c, d
  <2>4. cells = e \o d
    <3>1. a \o (c \o d) = (a \o c) \o d
      BY <1>4, <2>2, Regroup
    <3>2. QED BY <1>2, <2>3, <3>1
  <2>5. e \in Seq(Cell) /\ Len(e) = HeaderLen + n /\ Len(e) # 0
    <3>1. e \in Seq(Cell) /\ Len(e) = Len(a) + Len(c)
      BY <1>4, <2>2, Behind
    <3> HIDE DEF e
    <3>2. QED BY <1>4, <2>2, <3>1 DEF HeaderLen
  <2> HIDE DEF e
  <2>6. Agrees(buf, e \o DumpedMap(m))
    BY <1>2, <2>4 DEF d
  <2>7. Ends(ParsedMap(Len(e), buf), buf, e \o DumpedMap(m))
    BY <2>2, <2>5, <2>6, MapEnds
  <2>8. QED BY <2>1, <2>4, <2>5, <2>7 DEF cells, d
<1>9. QED BY <1>5, <1>6, <1>7, <1>8, ResponseShape, MapsAreCells

-----------------------------------------------------------------------------
(* The stream *)

\* A read moves cells from the socket into the buffer; the stream stays.
LEMMA Moved ==
  ASSUME NEW data \in Seq(Cell), NEW s \in Seq(Cell), NEW n \in 1..Len(s)
  PROVE  /\ SubSeq(s, 1, n) \in Seq(Cell) /\ SubSeq(s, n + 1, Len(s)) \in Seq(Cell)
         /\ data \o SubSeq(s, 1, n) \in Seq(Cell)
         /\ (data \o SubSeq(s, 1, n)) \o SubSeq(s, n + 1, Len(s)) = data \o s
<1> DEFINE l == Len(s)
           a == SubSeq(s, 1, n)
           b == SubSeq(s, n + 1, l)
<1>1. l \in Nat /\ n \in 1..l /\ \A i \in 1..l : s[i] \in Cell
  BY LenProperties, ElementOfSeq
<1>2. a \in Seq(Cell) /\ Len(a) = n /\ \A i \in 1..n : a[i] = s[i]
  <2> HIDE DEF l
  <2>1. n \in Nat /\ 1 \in Int /\ n \in Int /\ 1 <= n /\ n - 1 + 1 = n /\ \A i \in 1..n : 1 + i - 1 = i /\ i \in 1..l
    BY <1>1
  <2>2. QED BY <1>1, <2>1, SubSeqProperties
<1>3. b \in Seq(Cell) /\ Len(b) = l - n /\ \A i \in 1..(l - n) : b[i] = s[n + i]
  <2> HIDE DEF l
  <2>1. n + 1 \in Int /\ l \in Int /\ \A i \in (n + 1)..l : s[i] \in Cell
    BY <1>1
  <2>2. /\ b \in Seq(Cell) /\ Len(b) = IF n + 1 <= l THEN l - (n + 1) + 1 ELSE 0
        /\ \A i \in 1..(l - (n + 1) + 1) : b[i] = s[n + 1 + i - 1]
    BY <2>1, SubSeqProperties
  <2> HIDE DEF b
  <2>3. l - (n + 1) + 1 = l - n /\ \A i \in 1..(l - n) : n + 1 + i - 1 = n + i
    BY <1>1
  <2>4. Len(b) = l - n
    BY <1>1, <2>2
  <2>5. QED BY <2>2, <2>3, <2>4
<1> HIDE DEF a, b, l
<1>4. a \o b = s
  <2>1. /\ a \o b \in Seq(Cell) /\ Len(a \o b) = Len(a) + Len(b)
        /\ \A i \in 1..Len(a) : (a \o b)[i] = a[i]
        /\ \A i \in 1..Len(b) : (a \o b)[Len(a) + i] = b[i]
    BY <1>2, <1>3, Behind
  <2>2. Len(a \o b) = l
    BY <1>1, <1>2, <1>3, <2>1
  <2>3. ASSUME NEW i \in 1..l PROVE (a \o b)[i] = s[i]
    <3>1. CASE i <= n
      <4>1. i \in 1..n
        BY <1>1, <3>1
      <4>2. QED BY <1>2, <2>1, <4>1
    <3>2. CASE ~(i <= n)
      <4> DEFINE j == i - n
      <4>1. j \in 1..(l - n) /\ n + j = i
        BY <1>1, <3>2
      <4> HIDE DEF j
      <4>2. (a \o b)[n + j] = b[j]
        BY <1>2, <1>3, <2>1, <4>1
      <4>3. QED BY <1>3, <4>1, <4>2
    <3>3. QED BY <3>1, <3>2
  <2>4. QED BY <2>1, <2>2, <2>3, SeqEqual DEF l
<1>5. (data \o a) \o b = data \o (a \o b) /\ data \o a \in Seq(Cell)
  <2>1. (data \o a) \o b = data \o (a \o b)
    BY <1>2, <1>3, Regroup
  <2>2. data \o a \in Seq(Cell)
    BY <1>2, Behind
  <2>3. QED BY <2>1, <2>2
<1>6. QED BY <1>2, <1>3, <1>4, <1>5 DEF a, b, l

\* What a decoder takes, when the message is in the buffer, and what it leaves.
LEMMA Taken ==
  ASSUME NEW data \in Seq(Cell), NEW c \in Seq(Cell),
         Len(c) <= Len(data), Len(c) # 0, Agrees(data, c)
  PROVE  /\ SubSeq(data, 1, Len(c)) = c
         /\ SubSeq(data, Len(c) + 1, Len(data)) \in Seq(Cell)
         /\ data = c \o SubSeq(data, Len(c) + 1, Len(data))
<1> DEFINE n == Len(c)
           a == SubSeq(data, 1, n)
           b == SubSeq(data, n + 1, Len(data))
<1>1. n \in 1..Len(data) /\ Len(data) \in Nat /\ \A i \in 1..Len(data) : data[i] \in Cell
  BY LenProperties, ElementOfSeq
<1>2. /\ a \in Seq(Cell) /\ b \in Seq(Cell) /\ (<<>> \o a) \o b = <<>> \o data
  BY <1>1, Moved, <<>> \in Seq(Cell)
<1>3. Len(a) = n /\ \A i \in 1..n : a[i] = data[i]
  <2>1. n \in Nat /\ 1 \in Int /\ n \in Int /\ 1 <= n /\ n - 1 + 1 = n
        /\ \A i \in 1..n : 1 + i - 1 = i /\ i \in 1..Len(data)
    BY <1>1
  <2>2. QED BY <1>1, <2>1, SubSeqProperties
<1> HIDE DEF a, b
<1>4. a \o b = data
  BY <1>2, ConcatEmptySeq
<1>5. a = c
  <2>1. ASSUME NEW i \in 1..n PROVE a[i] = c[i]
    <3>1. i \in 1..Len(data) /\ i \in 1..Len(c) /\ i \in Nat
      BY <1>1
    <3>2. QED BY <1>3, <3>1 DEF Agrees
  <2>2. QED BY <1>2, <1>3, <2>1, SeqEqual
<1>6. QED BY <1>2, <1>4, <1>5 DEF a, b

Content(messages, k) == messages[k].content
Size(messages, k) == Len(messages[k].content)

\* The messages behind the first d lie in s one behind the other, and nothing else does.
Framed(messages, d, s) ==
    \E cut \in [d..Len(messages) -> Nat] :
       /\ cut[d] = 0 /\ cut[Len(messages)] = Len(s)
       /\ \A k \in (d + 1)..Len(messages) :
             /\ cut[k] = cut[k - 1] + Size(messages, k)
             /\ \A i \in 1..Size(messages, k) : s[cut[k - 1] + i] = Content(messages, k)[i]
       /\ \A j, k \in d..Len(messages) : j <= k => cut[j] <= cut[k]

\* Nothing is there at first.
LEMMA FramedFirst == Framed(<<>>, 0, <<>>)
<1> DEFINE cut == [k \in 0..0 |-> 0]
<1>1. cut \in [0..0 -> Nat] /\ cut[0] = 0 /\ Len(<<>>) = 0 /\ \A k \in 0..0 : k = 0 /\ cut[k] = 0
  OBVIOUS
<1>2. \A k \in (0 + 1)..0 : FALSE
  OBVIOUS
<1> HIDE DEF cut
<1>3. \A j, k \in 0..0 : j <= k => cut[j] <= cut[k]
  BY <1>1
<1>4. QED BY <1>1, <1>2, <1>3 DEF Framed

\* Bytes come from messages.
LEMMA FramedSome ==
  ASSUME NEW S, NEW messages \in Seq(S), NEW d \in 0..Len(messages), NEW s, Framed(messages, d, s), Len(s) # 0
  PROVE  d < Len(messages)
<1>1. Len(messages) \in Nat
  BY LenProperties
<1>2. QED BY <1>1 DEF Framed

\* A message is written.
LEMMA FramedAppend ==
  ASSUME NEW S, \A x \in S : x.content \in Seq(Cell),
         NEW messages \in Seq(S), NEW d \in 0..Len(messages), NEW s \in Seq(Cell),
         Framed(messages, d, s),
         NEW m \in S, NEW c \in Seq(Cell), m.content = c
  PROVE  Framed(Append(messages, m), d, s \o c)
<1> DEFINE l == Len(messages)
           more == Append(messages, m)
           new == l + 1
<1>1. /\ l \in Nat /\ d \in 0..l /\ new \in Nat /\ new - 1 = l /\ Len(more) = new
      /\ more[new] = m /\ \A k \in 1..l : more[k] = messages[k]
  BY LenProperties, AppendProperties
<1>2. /\ s \o c \in Seq(Cell) /\ Len(s \o c) = Len(s) + Len(c) /\ Len(s) \in Nat /\ Len(c) \in Nat
      /\ \A i \in 1..Len(s) : (s \o c)[i] = s[i]
      /\ \A i \in 1..Len(c) : (s \o c)[Len(s) + i] = c[i]
  BY Behind
<1>3. PICK cut \in [d..l -> Nat] :
         /\ cut[d] = 0 /\ cut[l] = Len(s)
         /\ \A k \in (d + 1)..l :
               /\ cut[k] = cut[k - 1] + Size(messages, k)
               /\ \A i \in 1..Size(messages, k) : s[cut[k - 1] + i] = Content(messages, k)[i]
         /\ \A j, k \in d..l : j <= k => cut[j] <= cut[k]
  BY DEF Framed
<1>4. /\ \A k \in (d + 1)..l : Size(more, k) = Size(messages, k) /\ Content(more, k) = Content(messages, k)
      /\ Size(more, new) = Len(c) /\ Content(more, new) = c
  BY <1>1 DEF Size, Content
<1> HIDE DEF l, more, new
<1> DEFINE cut2 == [k \in d..new |-> IF k = new THEN Len(s) + Len(c) ELSE cut[k]]
<1>5. /\ \A k \in d..l : cut2[k] = cut[k] /\ cut[k] \in Nat /\ cut[k] <= Len(s)
      /\ cut2[new] = Len(s) + Len(c)
      /\ cut2 \in [d..new -> Nat]
  <2>1. \A k \in d..l : k \in d..new /\ k # new /\ k <= l /\ l \in d..l /\ cut[k] \in Nat
    BY <1>1 DEF new
  <2>2. \A k \in d..l : cut2[k] = cut[k] /\ cut[k] <= Len(s)
    BY <1>3, <2>1
  <2>3. new \in d..new /\ \A k \in d..new : k = new \/ k \in d..l
    BY <1>1 DEF new
  <2>4. cut2[new] = Len(s) + Len(c) /\ Len(s) + Len(c) \in Nat
    BY <1>2, <2>3
  <2> HIDE DEF cut2
  <2>5. \A k \in d..new : cut2[k] \in Nat
    BY <2>1, <2>2, <2>3, <2>4
  <2>6. cut2 \in [d..new -> Nat]
    BY <2>5 DEF cut2
  <2>7. QED BY <2>1, <2>2, <2>4, <2>6
<1> HIDE DEF cut2
<1>6. d \in d..l /\ l \in d..l
  BY <1>1
<1>7. cut2[d] = 0 /\ cut2[l] = Len(s)
  BY <1>3, <1>5, <1>6
<1>8. ASSUME NEW k \in (d + 1)..new
      PROVE  /\ cut2[k] = cut2[k - 1] + Size(more, k)
             /\ \A i \in 1..Size(more, k) : (s \o c)[cut2[k - 1] + i] = Content(more, k)[i]
  <2>1. CASE k = new
    <3>1. cut2[new - 1] = Len(s) /\ cut2[new] = Len(s) + Len(c)
      BY <1>1, <1>5, <1>7
    <3>2. cut2[new] = cut2[new - 1] + Size(more, new)
      BY <1>4, <3>1
    <3>3. \A i \in 1..Size(more, new) : (s \o c)[cut2[new - 1] + i] = Content(more, new)[i]
      BY <1>2, <1>4, <3>1
    <3>4. QED BY <2>1, <3>2, <3>3
  <2>2. CASE k # new
    <3> DEFINE h == k - 1
               g == cut[h]
               n == Size(more, k)
    <3>1. k \in (d + 1)..l /\ h \in d..l /\ k \in d..l
      BY <1>1, <2>2 DEF new
    <3>2. /\ cut2[k] = cut[k] /\ cut2[h] = g /\ g \in Nat /\ cut[k] \in Nat /\ cut[k] <= Len(s)
          /\ cut[k] = g + n /\ \A i \in 1..n : s[g + i] = Content(more, k)[i]
      <4>1. cut2[k] = cut[k] /\ cut2[h] = cut[h] /\ cut[h] \in Nat /\ cut[k] \in Nat /\ cut[k] <= Len(s)
        BY <1>5, <3>1
      <4>2. /\ cut[k] = cut[k - 1] + Size(messages, k)
            /\ \A i \in 1..Size(messages, k) : s[cut[k - 1] + i] = Content(messages, k)[i]
        BY <1>3, <3>1
      <4>3. Size(more, k) = Size(messages, k) /\ Content(more, k) = Content(messages, k)
        BY <1>4, <3>1
      <4>4. QED BY <4>1, <4>2, <4>3
    <3>3. n \in Nat
      <4>1. k \in 1..l
        BY <1>1, <3>1
      <4>2. messages[k].content \in Seq(Cell)
        BY <4>1, ElementOfSeq DEF l
      <4>3. QED BY <1>4, <3>1, <4>2, LenProperties DEF Size
    <3> HIDE DEF g, n
    <3>4. \A i \in 1..n : g + i \in 1..Len(s)
      BY <1>2, <3>2, <3>3
    <3>5. \A i \in 1..n : (s \o c)[g + i] = Content(more, k)[i]
      BY <1>2, <3>2, <3>4
    <3>6. QED BY <3>2, <3>5 DEF g, n
  <2>3. QED BY <2>1, <2>2
<1>9. ASSUME NEW j \in d..new, NEW k \in d..new, j <= k PROVE cut2[j] <= cut2[k]
  <2>1. CASE k = new
    <3>1. CASE j = new
      <4>1. cut2[new] \in Nat
        BY <1>1, <1>2, <1>5
      <4>2. QED BY <2>1, <3>1, <4>1
    <3>2. CASE j # new
      <4>1. j \in d..l
        BY <1>1, <1>9, <3>2 DEF new
      <4>2. QED BY <1>2, <1>5, <2>1, <4>1
    <3>3. QED BY <3>1, <3>2
  <2>2. CASE k # new
    <3>1. j \in d..l /\ k \in d..l
      BY <1>1, <1>9, <2>2 DEF new
    <3>2. QED BY <1>3, <1>5, <1>9, <3>1
  <2>3. QED BY <2>1, <2>2
<1>10. QED BY <1>1, <1>2, <1>5, <1>7, <1>8, <1>9, ZenonT(30) DEF Framed, more

\* The first message is taken.
LEMMA FramedDrop ==
  ASSUME NEW S, \A x \in S : x.content \in Seq(Cell),
         NEW messages \in Seq(S), NEW d \in 0..Len(messages), d < Len(messages),
         NEW c \in Seq(Cell), c = messages[d + 1].content
  PROVE  /\ \A s \in Seq(Cell) : Framed(messages, d, s) =>
               /\ Len(c) <= Len(s)
               /\ \A i \in 1..Len(c) : s[i] = c[i]
         /\ \A rest \in Seq(Cell) : Framed(messages, d, c \o rest) => Framed(messages, d + 1, rest)
<1> DEFINE l == Len(messages)
           next == d + 1
           n == Len(c)
<1>1. l \in Nat /\ d \in 0..l /\ next \in (d + 1)..l /\ next - 1 = d /\ n \in Nat
  BY LenProperties
<1>2. Size(messages, next) = n /\ Content(messages, next) = c
  BY DEF Size, Content
<1> HIDE DEF l, next, n
<1>3. ASSUME NEW s \in Seq(Cell), Framed(messages, d, s)
      PROVE  Len(c) <= Len(s) /\ \A i \in 1..Len(c) : s[i] = c[i]
  <2>1. PICK cut \in [d..l -> Nat] :
           /\ cut[d] = 0 /\ cut[l] = Len(s)
           /\ \A k \in (d + 1)..l :
                 /\ cut[k] = cut[k - 1] + Size(messages, k)
                 /\ \A i \in 1..Size(messages, k) : s[cut[k - 1] + i] = Content(messages, k)[i]
           /\ \A j, k \in d..l : j <= k => cut[j] <= cut[k]
    BY <1>3 DEF Framed, l
  <2>2. cut[next] = 0 + n /\ \A i \in 1..n : s[0 + i] = c[i]
    BY <1>1, <1>2, <2>1
  <2>3. cut[next] <= cut[l]
    BY <1>1, <2>1
  <2>4. QED BY <1>1, <2>1, <2>2, <2>3 DEF n
<1>4. ASSUME NEW rest \in Seq(Cell), Framed(messages, d, c \o rest)
      PROVE  Framed(messages, next, rest)
  <2> DEFINE s == c \o rest
  <2>1. /\ Len(s) = n + Len(rest) /\ Len(rest) \in Nat
        /\ \A i \in 1..Len(rest) : s[n + i] = rest[i]
    BY Behind DEF n
  <2>2. PICK cut \in [d..l -> Nat] :
           /\ cut[d] = 0 /\ cut[l] = Len(s)
           /\ \A k \in (d + 1)..l :
                 /\ cut[k] = cut[k - 1] + Size(messages, k)
                 /\ \A i \in 1..Size(messages, k) : s[cut[k - 1] + i] = Content(messages, k)[i]
           /\ \A j, k \in d..l : j <= k => cut[j] <= cut[k]
    BY <1>4 DEF Framed, l
  <2> HIDE DEF s
  <2>3. cut[next] = n
    BY <1>1, <1>2, <2>2
  <2>4. \A k \in next..l : /\ k \in d..l /\ next \in d..l /\ cut[k] \in Nat /\ cut[k] >= n
                           /\ cut[k] - n \in Nat
    <3> TAKE k \in next..l
    <3>1. k \in d..l /\ next \in d..l /\ next <= k
      BY <1>1
    <3>2. cut[k] \in Nat /\ cut[next] <= cut[k]
      BY <2>2, <3>1
    <3>3. QED BY <1>1, <2>3, <3>1, <3>2
  <2> DEFINE cut2 == [k \in next..l |-> cut[k] - n]
  <2>5. cut2 \in [next..l -> Nat] /\ \A k \in next..l : cut2[k] = cut[k] - n
    BY <2>4
  <2> HIDE DEF cut2
  <2>6. cut2[next] = 0 /\ cut2[l] = Len(rest)
    <3>1. next \in next..l /\ l \in next..l
      BY <1>1
    <3>2. n - n = 0 /\ (n + Len(rest)) - n = Len(rest)
      BY <1>1, <2>1
    <3>3. cut2[next] = cut[next] - n /\ cut2[l] = cut[l] - n
      BY <2>5, <3>1
    <3>4. cut[l] = n + Len(rest)
      BY <2>1, <2>2
    <3>5. cut2[next] = n - n
      BY <2>3, <3>3
    <3>6. cut2[l] = (n + Len(rest)) - n
      BY <3>3, <3>4
    <3>7. QED BY <3>2, <3>5, <3>6
  <2>7. ASSUME NEW k \in (next + 1)..l
        PROVE  /\ cut2[k] = cut2[k - 1] + Size(messages, k)
               /\ \A i \in 1..Size(messages, k) : rest[cut2[k - 1] + i] = Content(messages, k)[i]
    <3> DEFINE h == k - 1
               g == cut[h]
               e == cut[k]
               size == Size(messages, k)
    <3>1. h \in next..l /\ k \in next..l /\ k \in (d + 1)..l /\ k \in 1..l
      BY <1>1
    <3>2. /\ e = g + size /\ \A i \in 1..size : s[g + i] = Content(messages, k)[i]
          /\ g \in Nat /\ g >= n /\ e \in Nat
          /\ cut2[k] = e - n /\ cut2[h] = g - n
      BY <2>2, <2>4, <2>5, <3>1
    <3>3. size \in Nat
      <4>1. messages[k].content \in Seq(Cell)
        BY <3>1, ElementOfSeq DEF l
      <4>2. QED BY <4>1, LenProperties DEF Size
    <3>4. e <= n + Len(rest)
      <4>1. k \in d..l /\ l \in d..l /\ k <= l
        BY <1>1, <3>1
      <4>2. QED BY <2>1, <2>2, <4>1
    <3> HIDE DEF g, e, size
    <3>5. ASSUME NEW i \in 1..size PROVE rest[g - n + i] = Content(messages, k)[i]
      <4> DEFINE j == g - n + i
      <4>1. j \in 1..Len(rest) /\ n + j = g + i
        <5>1. n \in Nat /\ i \in Nat /\ i >= 1 /\ i <= size /\ Len(rest) \in Nat
          BY <1>1, <2>1, <3>3
        <5>2. QED BY <3>2, <3>3, <3>4, <5>1
      <4> HIDE DEF j
      <4>2. s[n + j] = rest[j]
        BY <2>1, <4>1
      <4>3. QED BY <3>2, <4>1, <4>2 DEF j
    <3>6. e - n = g - n + size
      BY <1>1, <3>2, <3>3
    <3>7. QED BY <3>2, <3>5, <3>6 DEF size
  <2>8. ASSUME NEW j \in next..l, NEW k \in next..l, j <= k PROVE cut2[j] <= cut2[k]
    <3>1. cut[j] <= cut[k] /\ cut[j] \in Nat /\ cut[k] \in Nat
      BY <2>2, <2>4, <2>8
    <3> DEFINE x == cut[j]
               y == cut[k]
    <3>2. cut2[j] = x - n /\ cut2[k] = y - n
      BY <2>5
    <3> HIDE DEF x, y
    <3>3. x - n <= y - n
      BY <1>1, <3>1 DEF x, y
    <3>4. QED BY <3>2, <3>3
  <2>9. QED BY <2>5, <2>6, <2>7, <2>8 DEF Framed, l
<1>5. QED BY <1>3, <1>4 DEF next

-----------------------------------------------------------------------------
(* The invariant *)

Asked == {Message(i, EncodedRequest(plan[i], i)) : i \in DOMAIN plan}
Answered == UNION {{Message(i, EncodedResponse(plan[i], r, i)) : r \in Action(plan[i])} : i \in DOMAIN plan}

Buffer == [start : Nat, data : Seq(Cell), pending : BOOLEAN]

WireType ==
    /\ plan \in Plans
    /\ c2s \in Seq(Cell) /\ s2c \in Seq(Cell) /\ sbuf \in Buffer /\ cbuf \in Buffer
    /\ requests \in Seq(Asked) /\ served \in Seq(Asked)
    /\ replies \in Seq(Answered) /\ received \in Seq(Answered)

\* What has been handled is what was sent, as far as it goes.
Precedes(handled, sent) == /\ Len(handled) <= Len(sent)
                           /\ \A k \in 1..Len(handled) : handled[k] = sent[k]

\* A call is made once, answered once, and not before it was served.
Once == /\ \A j, k \in 1..Len(requests) : requests[j].call = requests[k].call => j = k
        /\ acting \subseteq Told(served) /\ Told(replies) \subseteq Told(served)
        /\ acting \cap Told(replies) = {}

\* The rest of what was sent is in the read buffer and in the socket.
Streams == /\ Framed(requests, Len(served), sbuf.data \o c2s)
           /\ Framed(replies, Len(received), cbuf.data \o s2c)

Wired == WireType /\ Precedes(served, requests) /\ Precedes(received, replies) /\ Once /\ Streams

-----------------------------------------------------------------------------
(* Calls and their messages *)

\* The calls of a plan.
LEMMA PlanIs ==
  ASSUME plan \in Plans
  PROVE  /\ Len(plan) \in Nat /\ DOMAIN plan = 1..Len(plan) /\ DOMAIN plan \subseteq 1..MaxCalls
         /\ \A i \in DOMAIN plan : /\ plan[i] \in Requests /\ Sendable(plan[i])
                                   /\ plan[i].service = plan[1].service
                                   /\ i \in Nat
<1>1. /\ plan \in Seq(Requests) /\ Len(plan) \in 1..MaxCalls
      /\ \A i \in DOMAIN plan : plan[i].service = plan[1].service
  BY PlanAssumption DEF Consistent
<1>2. Len(plan) \in Nat /\ DOMAIN plan = 1..Len(plan) /\ \A i \in 1..Len(plan) : plan[i] \in Requests
  BY <1>1, LenProperties, ElementOfSeq
<1>3. MaxCalls \in Nat /\ \A q \in Requests : Sendable(q)
  BY RequestAssumption
<1>4. DOMAIN plan \subseteq 1..MaxCalls
  BY <1>1, <1>2, <1>3
<1>5. QED BY <1>1, <1>2, <1>3, <1>4

\* A message of the model is a message of the exchange.
LEMMA MessageIs ==
  ASSUME NEW i, NEW content
  PROVE  /\ Message(i, content).content = content
         /\ Message(i, content).call = Call(i) /\ Message(i, content).call.sequence = i
         /\ Message(i, content) = Abstract!Message(Call(i), content)
  BY DEF Message, Call, Abstract!Message

\* Two calls are told apart by their sequences.
LEMMA CallsDiffer ==
  ASSUME NEW i, NEW j, Call(i) = Call(j)
  PROVE  i = j
<1>1. Call(i).sequence = i /\ Call(j).sequence = j
  BY DEF Call
<1>2. QED BY <1>1

\* What is sent consists of cells, and names its call.
LEMMA AskedIs ==
  ASSUME plan \in Plans, NEW m \in Asked
  PROVE  /\ m.content \in Seq(Cell)
         /\ \E i \in DOMAIN plan : /\ m = Message(i, EncodedRequest(plan[i], i))
                                   /\ m.content = EncodedRequest(plan[i], i)
                                   /\ m.call = Call(i) /\ m.call.sequence = i
<1>1. PICK i \in DOMAIN plan : m = Message(i, EncodedRequest(plan[i], i))
  BY DEF Asked
<1>2. Sendable(plan[i]) /\ i \in Nat
  BY PlanIs
<1>3. EncodedRequest(plan[i], i) \in Seq(Cell)
  BY <1>2, EncodedRequestIs
<1>4. m.content = EncodedRequest(plan[i], i) /\ m.call = Call(i) /\ m.call.sequence = i
  BY <1>1, MessageIs
<1>5. QED BY <1>1, <1>3, <1>4

\* What is answered consists of cells, and names its call.
LEMMA AnsweredIs ==
  ASSUME plan \in Plans, NEW m \in Answered
  PROVE  /\ m.content \in Seq(Cell)
         /\ \E i \in DOMAIN plan : \E r \in Action(plan[i]) :
               /\ m = Message(i, EncodedResponse(plan[i], r, i))
               /\ m.content = EncodedResponse(plan[i], r, i)
               /\ m.call = Call(i) /\ m.call.sequence = i
<1>1. PICK i \in DOMAIN plan : \E r \in Action(plan[i]) : m = Message(i, EncodedResponse(plan[i], r, i))
  BY DEF Answered
<1>2. PICK r \in Action(plan[i]) : m = Message(i, EncodedResponse(plan[i], r, i))
  BY <1>1
<1>3. Sendable(plan[i]) /\ i \in Nat
  BY PlanIs
<1>4. EncodedResponse(plan[i], r, i) \in Seq(Cell)
  BY <1>3, EncodedResponseIs
<1>5. m.content = EncodedResponse(plan[i], r, i) /\ m.call = Call(i) /\ m.call.sequence = i
  BY <1>2, MessageIs
<1>6. QED BY <1>2, <1>4, <1>5

\* The sequences of messages.
LEMMA ToldIs ==
  ASSUME NEW S, NEW messages \in Seq(S), NEW m \in S
  PROVE  /\ Told(Append(messages, m)) = Told(messages) \cup {m.call.sequence}
         /\ \A k \in 1..Len(messages) : messages[k].call.sequence \in Told(messages)
         /\ \A i \in Told(messages) : \E k \in 1..Len(messages) : messages[k].call.sequence = i
<1>1. /\ DOMAIN messages = 1..Len(messages) /\ Len(messages) \in Nat
      /\ Append(messages, m) \in Seq(S) /\ Len(Append(messages, m)) = Len(messages) + 1
      /\ \A k \in 1..Len(messages) : Append(messages, m)[k] = messages[k]
      /\ Append(messages, m)[Len(messages) + 1] = m
  BY LenProperties, AppendProperties
<1>2. DOMAIN Append(messages, m) = 1..(Len(messages) + 1)
  BY <1>1, LenProperties
<1>3. \A k \in 1..(Len(messages) + 1) : k \in 1..Len(messages) \/ k = Len(messages) + 1
  BY <1>1
<1>4. 1..Len(messages) \subseteq 1..(Len(messages) + 1) /\ Len(messages) + 1 \in 1..(Len(messages) + 1)
  BY <1>1
<1>5. Told(Append(messages, m)) = Told(messages) \cup {m.call.sequence}
  BY <1>1, <1>2, <1>3, <1>4 DEF Told
<1>6. QED BY <1>1, <1>5 DEF Told

\* What is at the head of the server's stream, as far as it is in the read buffer, and what
\* a turn of the loop of serverReadCallback makes of it.
LEMMA ServerHead ==
  ASSUME Wired, RequestAt(sbuf.data) > 0
  PROVE  /\ Len(served) < Len(requests)
         /\ RequestAt(sbuf.data) = Len(requests[Len(served) + 1].content)
         /\ RequestAt(sbuf.data) \in Nat /\ RequestAt(sbuf.data) <= Len(sbuf.data)
         /\ Agrees(sbuf.data, requests[Len(served) + 1].content)
         /\ Message(sbuf.data[2], requests[Len(served) + 1].content) = requests[Len(served) + 1]
<1> DEFINE data == sbuf.data
           d == Len(served)
           m == requests[d + 1]
           s == data \o c2s
           n == RequestAt(data)
<1>1. data \in Seq(Cell) /\ c2s \in Seq(Cell) /\ requests \in Seq(Asked) /\ plan \in Plans
  BY DEF Wired, WireType, Buffer
<1>2. d \in Nat /\ Len(requests) \in Nat /\ d \in 0..Len(requests)
  BY LenProperties DEF Wired, WireType, Precedes
<1>3. Framed(requests, d, s)
  BY DEF Wired, Streams
<1>4. data # <<>> /\ Len(data) \in Nat /\ Len(data) # 0
  <2>1. data # <<>>
    BY DEF RequestAt
  <2> HIDE DEF data
  <2>2. QED BY <1>1, <2>1, EmptySeq, LenProperties
<1> HIDE DEF data, d
<1>5. /\ s \in Seq(Cell) /\ Len(s) = Len(data) + Len(c2s) /\ Len(c2s) \in Nat
      /\ \A k \in 1..Len(data) : s[k] = data[k]
  BY <1>1, Behind
<1>6. d < Len(requests)
  <2>1. Len(s) # 0
    BY <1>4, <1>5
  <2> HIDE DEF s
  <2>2. QED BY <1>1, <1>2, <1>3, <2>1, FramedSome
<1>7. m \in Asked
  BY <1>1, <1>2, <1>6, ElementOfSeq
<1> HIDE DEF m
<1>8. m.content \in Seq(Cell) /\ \A x \in Asked : x.content \in Seq(Cell)
  BY <1>1, <1>7, AskedIs
<1> DEFINE c == m.content
<1>9. Agrees(data, c)
  <2>1. \A i \in 1..Len(c) : s[i] = c[i]
    <3>1. c = requests[d + 1].content
      BY DEF m
    <3> HIDE DEF s, c
    <3>2. \A t \in Seq(Cell) : Framed(requests, d, t) => \A i \in 1..Len(c) : t[i] = c[i]
      <4>1. d \in 0..Len(requests) /\ c \in Seq(Cell)
        BY <1>2, <1>8 DEF c
      <4>2. /\ requests \in Seq(Asked) /\ d < Len(requests)
            /\ \A y \in Asked : y.content \in Seq(Cell)
        BY <1>1, <1>6, <1>8
      <4>3. QED BY ONLY <3>1, <4>1, <4>2, FramedDrop, SMTT(30)
    <3>3. QED BY <1>3, <1>5, <3>2
  <2>2. QED BY <1>5, <2>1 DEF Agrees
<1>10. PICK j \in DOMAIN plan : /\ m = Message(j, EncodedRequest(plan[j], j))
                                /\ c = EncodedRequest(plan[j], j)
  BY <1>1, <1>7, AskedIs
<1> DEFINE q == plan[j]
<1>11. j \in Nat /\ Sendable(q) /\ q.service = plan[1].service
  BY <1>1, PlanIs
<1>12. /\ c \in Seq(Cell) /\ Len(c) \in Nat /\ Len(c) >= 2
       /\ c[1] = Ids[q.service][q.op] /\ c[2] = j
  BY <1>8, <1>10, <1>11, EncodedRequestIs, LenProperties
<1> HIDE DEF c
<1>13. data[1] = c[1]
  <2>1. 1 \in 1..Len(data) /\ 1 \in 1..Len(c) /\ 1 \in Nat
    BY <1>4, <1>12
  <2>2. QED BY <1>9, <2>1 DEF Agrees
<1>14. OpOf(data[1]) = q.op
  <2>1. /\ q.op \in DOMAIN Ids[q.service]
        /\ \A op \in DOMAIN Ids[q.service] : Ids[q.service][op] = Ids[q.service][q.op] => op = q.op
    BY <1>11, IdsAreInjective
  <2>2. QED BY <1>11, <1>12, <1>13, <2>1 DEF OpOf
<1>15. n = RequestDecoder(q.service, q.op, data)
  BY <1>4, <1>11, <1>14 DEF RequestAt
<1>16. Ends(n, data, c)
  BY <1>1, <1>9, <1>10, <1>11, <1>15, RequestEnds
<1>17. n > 0
  BY DEF data
<1> HIDE DEF n, q
<1>18. n = Len(c) /\ n \in Nat /\ n <= Len(data)
  BY <1>4, <1>12, <1>16, <1>17 DEF Ends
<1>19. data[2] = j
  <2>1. 2 \in 1..Len(data) /\ 2 \in 1..Len(c) /\ 2 \in Nat
    BY <1>4, <1>12, <1>18
  <2>2. QED BY <1>9, <1>12, <2>1 DEF Agrees
<1>20. Message(data[2], c) = m
  BY <1>10, <1>19
<1>21. QED BY <1>6, <1>9, <1>18, <1>20 DEF n, c, m, d, data

\* What is at the head of the client's stream, and what a turn of the loop of
\* clientReadCallback makes of it.
LEMMA ClientHead ==
  ASSUME Wired, ResponseAt(cbuf.data) > 0
  PROVE  /\ Len(received) < Len(replies)
         /\ ResponseAt(cbuf.data) = Len(replies[Len(received) + 1].content)
         /\ ResponseAt(cbuf.data) \in Nat /\ ResponseAt(cbuf.data) <= Len(cbuf.data)
         /\ Agrees(cbuf.data, replies[Len(received) + 1].content)
         /\ Message(Called(cbuf.data), replies[Len(received) + 1].content) = replies[Len(received) + 1]
<1> DEFINE data == cbuf.data
           d == Len(received)
           m == replies[d + 1]
           s == data \o s2c
           n == ResponseAt(data)
<1>1. data \in Seq(Cell) /\ s2c \in Seq(Cell) /\ replies \in Seq(Answered) /\ plan \in Plans
  BY DEF Wired, WireType, Buffer
<1>2. d \in Nat /\ Len(replies) \in Nat /\ d \in 0..Len(replies)
  BY LenProperties DEF Wired, WireType, Precedes
<1>3. Framed(replies, d, s)
  BY DEF Wired, Streams
<1>4. Len(data) \in Nat /\ Len(data) >= HeaderLen /\ Len(data) # 0
  <2>1. ~(Len(data) < HeaderLen)
    BY DEF ResponseAt
  <2> HIDE DEF data
  <2>2. Len(data) \in Nat
    BY <1>1, LenProperties
  <2>3. QED BY <2>1, <2>2 DEF HeaderLen
<1>5. n > 0
  OBVIOUS
<1> HIDE DEF data, d
<1>6. /\ s \in Seq(Cell) /\ Len(s) = Len(data) + Len(s2c) /\ Len(s2c) \in Nat
      /\ \A k \in 1..Len(data) : s[k] = data[k]
  BY <1>1, Behind
<1>7. d < Len(replies)
  <2>1. Len(s) # 0
    BY <1>4, <1>6
  <2> HIDE DEF s
  <2>2. QED BY <1>1, <1>2, <1>3, <2>1, FramedSome
<1>8. m \in Answered
  BY <1>1, <1>2, <1>7, ElementOfSeq
<1> HIDE DEF m
<1>9. m.content \in Seq(Cell) /\ \A x \in Answered : x.content \in Seq(Cell)
  BY <1>1, <1>8, AnsweredIs
<1> DEFINE c == m.content
<1>10. Agrees(data, c)
  <2>1. \A i \in 1..Len(c) : s[i] = c[i]
    <3>1. c = replies[d + 1].content
      BY DEF m
    <3> HIDE DEF s, c
    <3>2. \A t \in Seq(Cell) : Framed(replies, d, t) => \A i \in 1..Len(c) : t[i] = c[i]
      <4>1. d \in 0..Len(replies) /\ c \in Seq(Cell)
        BY <1>2, <1>9 DEF c
      <4>2. /\ replies \in Seq(Answered) /\ d < Len(replies)
            /\ \A y \in Answered : y.content \in Seq(Cell)
        BY <1>1, <1>7, <1>9
      <4>3. QED BY ONLY <3>1, <4>1, <4>2, FramedDrop, SMTT(30)
    <3>3. QED BY <1>3, <1>6, <3>2
  <2>2. QED BY <1>6, <2>1 DEF Agrees
<1>11. PICK j \in DOMAIN plan : \E r \in Action(plan[j]) :
          m = Message(j, EncodedResponse(plan[j], r, j)) /\ c = EncodedResponse(plan[j], r, j)
  BY <1>1, <1>8, AnsweredIs
<1> DEFINE q == plan[j]
<1>12. PICK r \in Action(q) : m = Message(j, EncodedResponse(q, r, j)) /\ c = EncodedResponse(q, r, j)
  BY <1>11
<1>13. j \in Nat /\ Sendable(q)
  BY <1>1, PlanIs
<1> HIDE DEF c
<1>14. c \in Seq(Cell) /\ Len(c) \in Nat /\ Len(c) >= 2 /\ c[2] = j
  <2> HIDE DEF q
  <2>1. c \in Seq(Cell) /\ Len(c) >= 2 /\ c[2] = j
    BY <1>12, <1>13, EncodedResponseIs
  <2>2. QED BY <2>1, LenProperties
<1>15. Called(data) = j
  <2>1. 2 \in 1..Len(data) /\ 2 \in 1..Len(c) /\ 2 \in Nat
    BY <1>4, <1>14 DEF HeaderLen
  <2>2. QED BY <1>10, <1>14, <2>1 DEF Agrees, Called
<1>16. n = ResponseDecoder(q, data)
  BY <1>5, <1>15 DEF ResponseAt
<1> HIDE DEF n, q
<1>17. Ends(n, data, c)
  BY <1>1, <1>4, <1>10, <1>12, <1>13, <1>16, ResponseEnds
<1>18. n = Len(c) /\ n \in Nat /\ n <= Len(data)
  BY <1>5, <1>4, <1>14, <1>17 DEF Ends
<1>19. Message(Called(data), c) = m
  BY <1>12, <1>15
<1>20. QED BY <1>7, <1>10, <1>18, <1>19 DEF n, c, m, d, data

-----------------------------------------------------------------------------
(* The steps *)

\* At first nothing has been sent, and the exchange is in its initial state.
LEMMA InitWired == WireInit => Wired /\ Abstract!Init
<1> SUFFICES ASSUME WireInit PROVE Wired /\ Abstract!Init
  OBVIOUS
<1>1. /\ plan \in Plans /\ acting = {} /\ c2s = <<>> /\ s2c = <<>>
      /\ sbuf \in Buffer /\ cbuf \in Buffer /\ sbuf.data = <<>> /\ cbuf.data = <<>>
      /\ requests = <<>> /\ served = <<>> /\ replies = <<>> /\ received = <<>>
  BY DEF WireInit, EmptyBuffer, Buffer
<1>2. <<>> \o <<>> = <<>> /\ \A S : <<>> \in Seq(S)
  BY ConcatEmptySeq
<1>3. Len(<<>>) = 0 /\ DOMAIN <<>> = {}
  OBVIOUS
<1>4. WireType
  BY <1>1, <1>2 DEF WireType
<1>5. Precedes(served, requests) /\ Precedes(received, replies)
  BY <1>1, <1>3 DEF Precedes
<1>6. Once
  BY <1>1, <1>3 DEF Once, Told
<1>7. Streams
  BY <1>1, <1>2, <1>3, FramedFirst DEF Streams
<1>8. QED BY <1>1, <1>4, <1>5, <1>6, <1>7 DEF Wired, Abstract!Init

\* Appending keeps the type.
LEMMA Sent ==
  ASSUME NEW S, NEW messages \in Seq(S), NEW m \in S
  PROVE  /\ Append(messages, m) \in Seq(S) /\ Len(Append(messages, m)) = Len(messages) + 1
         /\ Len(messages) \in Nat
         /\ \A k \in 1..Len(messages) : Append(messages, m)[k] = messages[k]
         /\ Append(messages, m)[Len(messages) + 1] = m
  BY LenProperties, AppendProperties

\* A call is in the abstract set of calls.
LEMMA CallIs ==
  ASSUME plan \in Plans, NEW i \in DOMAIN plan
  PROVE  /\ Call(i) \in Calls
         /\ CallRequest(Call(i)) = EncodedRequest(plan[i], i)
         /\ \A r \in Action(plan[i]) : EncodedResponse(plan[i], r, i) \in CallResponse(Call(i))
<1>1. i \in 1..MaxCalls /\ plan[i] \in Requests
  BY PlanIs
<1>2. Call(i) \in Calls
  BY <1>1 DEF Call, Calls
<1>3. Call(i).request = plan[i] /\ Call(i).sequence = i
  BY DEF Call
<1>4. QED BY <1>2, <1>3 DEF CallRequest, CallResponse

\* clientSendRequest: a new call at the end of the requests, its cells at the end of the stream.
LEMMA SendKeeps ==
  ASSUME Wired, NEW i, SendRequest(i)
  PROVE  Wired' /\ Abstract!Next
<1> DEFINE cells == EncodedRequest(plan[i], i)
           m == Message(i, cells)
<1>1. /\ i \in DOMAIN plan /\ i \notin Told(requests)
      /\ c2s' = c2s \o cells /\ requests' = Append(requests, m)
      /\ UNCHANGED <<plan, s2c, sbuf, cbuf, acting, served, replies, received>>
  BY DEF SendRequest
<1>2. WireType /\ Precedes(served, requests) /\ Precedes(received, replies) /\ Once /\ Streams
  BY DEF Wired
<1>3. /\ plan \in Plans /\ c2s \in Seq(Cell) /\ requests \in Seq(Asked) /\ sbuf.data \in Seq(Cell)
      /\ served \in Seq(Asked)
  BY <1>2 DEF WireType, Buffer
<1>4. m \in Asked /\ m.content = cells /\ m.call = Call(i)
  BY <1>1, MessageIs DEF Asked
<1>5. cells \in Seq(Cell) /\ \A x \in Asked : x.content \in Seq(Cell)
  <2>1. m.content \in Seq(Cell) /\ \A x \in Asked : x.content \in Seq(Cell)
    <3> HIDE DEF m
    <3>1. QED BY <1>3, <1>4, AskedIs
  <2>2. QED BY <1>4, <2>1
<1>6. Asked' = Asked /\ Answered' = Answered
  BY <1>1 DEF Asked, Answered, Message, Call
<1> HIDE DEF cells, m
<1>7. /\ requests' \in Seq(Asked) /\ Len(requests') = Len(requests) + 1 /\ Len(requests) \in Nat
      /\ \A k \in 1..Len(requests) : requests'[k] = requests[k]
      /\ requests'[Len(requests) + 1] = m
  BY <1>1, <1>3, <1>4, Sent
<1>8. c2s' \in Seq(Cell)
  BY <1>1, <1>3, <1>5, Behind
<1>9. WireType'
  BY <1>1, <1>2, <1>6, <1>7, <1>8 DEF WireType
<1>10. Len(served) \in Nat /\ Len(served) <= Len(requests)
  BY <1>2, <1>3, LenProperties DEF Precedes
<1>11. Precedes(served, requests)' /\ Precedes(received, replies)'
  <2>1. Precedes(received, replies)'
    BY <1>1, <1>2 DEF Precedes
  <2>2. \A k \in 1..Len(served) : served[k] = requests'[k]
    <3>1. \A k \in 1..Len(served) : k \in 1..Len(requests) /\ served[k] = requests[k]
      BY <1>2, <1>7, <1>10 DEF Precedes
    <3>2. QED BY <1>7, <3>1
  <2>3. Len(served) <= Len(requests')
    BY <1>7, <1>10
  <2>4. QED BY <1>1, <2>1, <2>2, <2>3 DEF Precedes
<1>12. ASSUME NEW k \in 1..Len(requests) PROVE requests[k].call # Call(i)
  <2>1. requests[k] \in Asked
    BY <1>3, ElementOfSeq
  <2>2. PICK j \in DOMAIN plan : requests[k].call = Call(j) /\ requests[k].call.sequence = j
    BY <1>3, <2>1, AskedIs
  <2>3. requests[k].call.sequence \in Told(requests)
    BY <1>3, <1>4, ToldIs
  <2>4. j # i
    BY <1>1, <2>2, <2>3
  <2>5. QED BY <2>2, <2>4, CallsDiffer
<1>13. Once'
  <2>1. ASSUME NEW j \in 1..Len(requests'), NEW k \in 1..Len(requests'),
               requests'[j].call = requests'[k].call
        PROVE  j = k
    <3>1. /\ j \in 1..Len(requests) \/ j = Len(requests) + 1
          /\ k \in 1..Len(requests) \/ k = Len(requests) + 1
      BY <1>7
    <3>2. QED BY <1>2, <1>4, <1>7, <1>12, <2>1, <3>1 DEF Once
  <2>2. Told(served)' = Told(served) /\ Told(replies)' = Told(replies)
    BY <1>1 DEF Told
  <2>3. QED BY <1>1, <1>2, <2>1, <2>2 DEF Once
<1>14. Streams'
  <2> DEFINE s == sbuf.data \o c2s
             d == Len(served)
  <2>1. Framed(requests, d, s)
    BY <1>2 DEF Streams
  <2>2. s \in Seq(Cell) /\ s \o cells = sbuf.data \o (c2s \o cells)
    BY <1>3, <1>5, Behind, Regroup
  <2>3. d \in 0..Len(requests)
    BY <1>7, <1>10
  <2> HIDE DEF s, d
  <2>4. Framed(Append(requests, m), d, s \o cells)
    BY <1>3, <1>4, <1>5, <2>1, <2>2, <2>3, FramedAppend
  <2>5. Framed(requests, Len(served), sbuf.data \o c2s)'
    <3>1. Framed(requests', Len(served'), sbuf'.data \o c2s')
      BY <1>1, <2>2, <2>4 DEF d
    <3>2. QED BY <3>1 DEF Framed, Size, Content
  <2>6. Framed(replies, Len(received), cbuf.data \o s2c)'
    BY <1>1, <1>2 DEF Streams
  <2>7. QED BY <2>5, <2>6 DEF Streams
<1>15. Wired'
  BY <1>9, <1>11, <1>13, <1>14 DEF Wired
<1>16. Abstract!Next
  <2> DEFINE call == Call(i)
  <2>1. call \in Calls /\ CallRequest(call) = cells
    BY <1>1, <1>3, CallIs DEF cells
  <2>2. call \notin Abstract!CallsOf(requests)
    BY <1>3, <1>12, LenProperties DEF Abstract!CallsOf
  <2>3. m = Abstract!Message(call, CallRequest(call))
    BY <2>1, MessageIs DEF m
  <2>4. Abstract!Send(call)
    BY <1>1, <2>2, <2>3 DEF Abstract!Send
  <2>5. QED BY <2>1, <2>4 DEF Abstract!Next
<1>17. QED BY <1>15, <1>16

\* A read moves cells into the read buffer.
LEMMA ReadKeeps ==
  ASSUME Wired, ServerRead \/ ClientRead
  PROVE  Wired' /\ UNCHANGED Abstract!vars
<1>1. WireType /\ Precedes(served, requests) /\ Precedes(received, replies) /\ Once /\ Streams
  BY DEF Wired
<1>2. /\ c2s \in Seq(Cell) /\ sbuf \in Buffer /\ sbuf.data \in Seq(Cell)
      /\ s2c \in Seq(Cell) /\ cbuf \in Buffer /\ cbuf.data \in Seq(Cell)
  BY <1>1 DEF WireType, Buffer
<1>3. UNCHANGED <<plan, acting, requests, served, replies, received>>
  BY DEF ServerRead, ClientRead, history
<1>4. Asked' = Asked /\ Answered' = Answered
  BY <1>3 DEF Asked, Answered, Message, Call
<1>5. /\ c2s' \in Seq(Cell) /\ sbuf' \in Buffer /\ s2c' \in Seq(Cell) /\ cbuf' \in Buffer
      /\ sbuf'.data \o c2s' = sbuf.data \o c2s /\ cbuf'.data \o s2c' = cbuf.data \o s2c
  <2>1. CASE ServerRead
    <3>1. PICK n \in 1..Len(c2s) : /\ sbuf' = Filled(sbuf, SubSeq(c2s, 1, n))
                                   /\ c2s' = SubSeq(c2s, n + 1, Len(c2s))
      BY <2>1 DEF ServerRead
    <3> DEFINE data == sbuf.data
               a == SubSeq(c2s, 1, n)
    <3>2. /\ a \in Seq(Cell) /\ c2s' \in Seq(Cell) /\ data \o a \in Seq(Cell)
          /\ (data \o a) \o c2s' = data \o c2s
      BY <1>2, <3>1, Moved
    <3> HIDE DEF a
    <3>3. sbuf' \in Buffer /\ sbuf'.data = data \o a
      BY <1>2, <3>1, <3>2 DEF Filled, Buffer, a
    <3>4. UNCHANGED <<s2c, cbuf>>
      BY <2>1 DEF ServerRead
    <3>5. QED BY <1>2, <3>2, <3>3, <3>4
  <2>2. CASE ClientRead
    <3>1. PICK n \in 1..Len(s2c) : /\ cbuf' = Filled(cbuf, SubSeq(s2c, 1, n))
                                   /\ s2c' = SubSeq(s2c, n + 1, Len(s2c))
      BY <2>2 DEF ClientRead
    <3> DEFINE data == cbuf.data
               a == SubSeq(s2c, 1, n)
    <3>2. /\ a \in Seq(Cell) /\ s2c' \in Seq(Cell) /\ data \o a \in Seq(Cell)
          /\ (data \o a) \o s2c' = data \o s2c
      BY <1>2, <3>1, Moved
    <3> HIDE DEF a
    <3>3. cbuf' \in Buffer /\ cbuf'.data = data \o a
      BY <1>2, <3>1, <3>2 DEF Filled, Buffer, a
    <3>4. UNCHANGED <<c2s, sbuf>>
      BY <2>2 DEF ClientRead
    <3>5. QED BY <1>2, <3>2, <3>3, <3>4
  <2>3. QED BY <2>1, <2>2
<1>6. WireType'
  BY <1>1, <1>3, <1>4, <1>5 DEF WireType
<1>7. Precedes(served, requests)' /\ Precedes(received, replies)'
  BY <1>1, <1>3 DEF Precedes
<1>8. Once'
  <2>1. Told(served)' = Told(served) /\ Told(replies)' = Told(replies)
    BY <1>3 DEF Told
  <2>2. QED BY <1>1, <1>3, <2>1 DEF Once
<1>9. Streams'
  <2>1. /\ Framed(requests, Len(served), sbuf'.data \o c2s')
        /\ Framed(replies, Len(received), cbuf'.data \o s2c')
    BY <1>1, <1>5 DEF Streams
  <2>2. QED BY <1>3, <2>1 DEF Streams
<1>10. QED BY <1>3, <1>6, <1>7, <1>8, <1>9 DEF Wired, Abstract!vars

\* A message that is not complete leaves the stream as it is.
LEMMA IncompleteKeeps ==
  ASSUME Wired, ServerIncomplete \/ ClientIncomplete
  PROVE  Wired' /\ UNCHANGED Abstract!vars
<1>1. WireType /\ Precedes(served, requests) /\ Precedes(received, replies) /\ Once /\ Streams
  BY DEF Wired
<1>2. sbuf \in Buffer /\ cbuf \in Buffer
  BY <1>1 DEF WireType
<1>3. UNCHANGED <<plan, c2s, s2c, acting, requests, served, replies, received>>
  BY DEF ServerIncomplete, ClientIncomplete, history
<1>4. Asked' = Asked /\ Answered' = Answered
  BY <1>3 DEF Asked, Answered, Message, Call
<1>5. \A size : \A b \in Buffer : ReadOn(b, size) \in Buffer /\ ReadOn(b, size).data = b.data
  BY DEF ReadOn, Buffer
<1>6. sbuf' \in Buffer /\ cbuf' \in Buffer /\ sbuf'.data = sbuf.data /\ cbuf'.data = cbuf.data
  <2>1. CASE ServerIncomplete
    <3>1. sbuf' = ReadOn(sbuf, ServerBuffer) /\ cbuf' = cbuf
      BY <2>1 DEF ServerIncomplete
    <3>2. QED BY <1>2, <1>5, <3>1
  <2>2. CASE ClientIncomplete
    <3>1. cbuf' = ReadOn(cbuf, ClientBuffer) /\ sbuf' = sbuf
      BY <2>2 DEF ClientIncomplete
    <3>2. QED BY <1>2, <1>5, <3>1
  <2>3. QED BY <2>1, <2>2
<1>7. WireType'
  BY <1>1, <1>3, <1>4, <1>6 DEF WireType
<1>8. Precedes(served, requests)' /\ Precedes(received, replies)'
  BY <1>1, <1>3 DEF Precedes
<1>9. Once'
  <2>1. Told(served)' = Told(served) /\ Told(replies)' = Told(replies)
    BY <1>3 DEF Told
  <2>2. QED BY <1>1, <1>3, <2>1 DEF Once
<1>10. Streams'
  BY <1>1, <1>3, <1>6 DEF Streams
<1>11. QED BY <1>3, <1>7, <1>8, <1>9, <1>10 DEF Wired, Abstract!vars

\* Taking the next message keeps the order.
LEMMA NextTaken ==
  ASSUME NEW S, NEW handled \in Seq(S), NEW sent \in Seq(S), Precedes(handled, sent), Len(handled) < Len(sent)
  PROVE  /\ sent[Len(handled) + 1] \in S
         /\ Precedes(Append(handled, sent[Len(handled) + 1]), sent)
<1> DEFINE m == sent[Len(handled) + 1]
<1>1. Len(handled) \in Nat /\ Len(sent) \in Nat /\ m \in S
  BY LenProperties, ElementOfSeq
<1> HIDE DEF m
<1>2. /\ Len(Append(handled, m)) = Len(handled) + 1
      /\ \A k \in 1..Len(handled) : Append(handled, m)[k] = handled[k]
      /\ Append(handled, m)[Len(handled) + 1] = m
  BY <1>1, Sent
<1>3. \A k \in 1..(Len(handled) + 1) : k \in 1..Len(handled) \/ k = Len(handled) + 1
  BY <1>1
<1>4. \A k \in 1..(Len(handled) + 1) : Append(handled, m)[k] = sent[k]
  BY <1>2, <1>3 DEF Precedes, m
<1>5. QED BY <1>1, <1>2, <1>4 DEF Precedes, m

\* A message is taken off a read buffer.
LEMMA ConsumedIs ==
  ASSUME NEW b \in Buffer, NEW n \in Nat, SubSeq(b.data, n + 1, Len(b.data)) \in Seq(Cell)
  PROVE  Consumed(b, n) \in Buffer /\ Consumed(b, n).data = SubSeq(b.data, n + 1, Len(b.data))
<1> DEFINE tail == SubSeq(b.data, n + 1, Len(b.data))
<1>1. Consumed(b, n) = [b EXCEPT !.start = @ + n, !.data = tail]
  BY DEF Consumed
<1>2. tail \in Seq(Cell)
  OBVIOUS
<1> HIDE DEF tail
<1>3. /\ b.start + n \in Nat /\ b.pending \in BOOLEAN
      /\ b = [start |-> b.start, data |-> b.data, pending |-> b.pending]
  BY DEF Buffer
<1>4. Consumed(b, n) = [start |-> b.start + n, data |-> tail, pending |-> b.pending]
  BY <1>1, <1>3
<1>5. QED BY <1>2, <1>3, <1>4 DEF Buffer, tail

\* A turn of the loop of serverReadCallback serves the next request.
LEMMA ServerDecodeKeeps ==
  ASSUME Wired, ServerDecode
  PROVE  Wired' /\ Abstract!Next
<1> DEFINE data == sbuf.data
           n == RequestAt(data)
           i == data[2]
           d == Len(served)
           m == requests[d + 1]
           c == m.content
<1>1. /\ n > 0 /\ sbuf' = Consumed(sbuf, n)
      /\ served' = Append(served, Message(i, SubSeq(data, 1, n)))
      /\ acting' = acting \cup {i}
      /\ UNCHANGED <<plan, waiting, c2s, s2c, cbuf, requests, replies, received>>
  BY DEF ServerDecode
<1>2. WireType /\ Precedes(served, requests) /\ Precedes(received, replies) /\ Once /\ Streams
  BY DEF Wired
<1>3. /\ plan \in Plans /\ c2s \in Seq(Cell) /\ requests \in Seq(Asked) /\ served \in Seq(Asked)
      /\ replies \in Seq(Answered) /\ sbuf \in Buffer /\ data \in Seq(Cell)
  BY <1>2 DEF WireType, Buffer
<1>4. /\ d < Len(requests) /\ n = Len(c) /\ n \in Nat /\ n <= Len(data) /\ Agrees(data, c)
      /\ Message(i, c) = m
  BY <1>1, ServerHead
<1>5. d \in Nat /\ Len(requests) \in Nat /\ d \in 0..Len(requests)
  BY <1>3, <1>4, LenProperties
<1>6. m \in Asked
  BY <1>3, <1>4, <1>5, ElementOfSeq
<1> HIDE DEF data, n, d, m
<1>7. c \in Seq(Cell) /\ \A x \in Asked : x.content \in Seq(Cell)
  BY <1>3, <1>6, AskedIs
<1>8. c = requests[d + 1].content
  BY DEF m
<1> HIDE DEF c
<1>9. /\ SubSeq(data, 1, n) = c /\ SubSeq(data, n + 1, Len(data)) \in Seq(Cell)
      /\ data = c \o SubSeq(data, n + 1, Len(data))
  <2>1. n = Len(c) /\ n <= Len(data) /\ n # 0 /\ Agrees(data, c)
    BY <1>1, <1>4 DEF c
  <2>2. QED BY <1>3, <1>7, <2>1, Taken
<1>10. served' = Append(served, m)
  BY <1>1, <1>4, <1>9
<1>11. sbuf' \in Buffer /\ sbuf'.data = SubSeq(data, n + 1, Len(data))
  <2>1. SubSeq(sbuf.data, n + 1, Len(sbuf.data)) \in Seq(Cell)
    BY <1>9 DEF data
  <2>2. Consumed(sbuf, n) \in Buffer /\ Consumed(sbuf, n).data = SubSeq(sbuf.data, n + 1, Len(sbuf.data))
    BY <1>3, <1>4, <2>1, ConsumedIs
  <2>3. QED BY <1>1, <2>2 DEF data
<1>12. Asked' = Asked /\ Answered' = Answered
  BY <1>1 DEF Asked, Answered, Message, Call
<1>13. /\ served' \in Seq(Asked) /\ Len(served') = d + 1
  BY <1>3, <1>6, <1>10, Sent DEF d
<1>14. WireType'
  BY <1>1, <1>2, <1>11, <1>12, <1>13 DEF WireType
<1>15. Precedes(served, requests)' /\ Precedes(received, replies)'
  <2>1. Precedes(Append(served, m), requests)
    BY <1>2, <1>3, <1>4, NextTaken DEF m, d
  <2>2. QED BY <1>1, <1>2, <1>10, <2>1 DEF Precedes
<1>16. m.call.sequence = i
  BY <1>4, MessageIs
<1>17. i \notin Told(served)
  <2>1. SUFFICES ASSUME i \in Told(served) PROVE FALSE
    OBVIOUS
  <2>2. PICK k \in 1..d : served[k].call.sequence = i
    <3>1. \A j \in Told(served) : \E k \in 1..Len(served) : served[k].call.sequence = j
      BY <1>3, <1>6, ToldIs
    <3>2. QED BY <2>1, <3>1 DEF d
  <2>3. served[k] = requests[k] /\ k \in 1..Len(requests) /\ k # d + 1 /\ d + 1 \in 1..Len(requests)
    BY <1>2, <1>4, <1>5 DEF Precedes, d
  <2>4. requests[k] \in Asked
    BY <1>3, <2>3, ElementOfSeq
  <2>5. requests[k].call = Call(i)
    BY <1>3, <2>2, <2>3, <2>4, AskedIs
  <2>6. m.call = Call(i)
    BY <1>4, MessageIs
  <2>7. QED BY <1>2, <2>3, <2>5, <2>6 DEF Once, m
<1>18. Once'
  <2>1. Told(served)' = Told(served) \cup {i}
    <3>1. Told(Append(served, m)) = Told(served) \cup {i}
      BY <1>3, <1>6, <1>16, ToldIs
    <3>2. QED BY <1>10, <3>1 DEF Told
  <2>2. Told(replies)' = Told(replies)
    BY <1>1 DEF Told
  <2>3. QED BY <1>1, <1>2, <1>17, <2>1, <2>2 DEF Once
<1>19. Streams'
  <2> DEFINE tail == SubSeq(data, n + 1, Len(data))
             rest == tail \o c2s
  <2>1. data = c \o tail /\ tail \in Seq(Cell)
    BY <1>9
  <2> HIDE DEF tail
  <2>2. data \o c2s = c \o rest /\ rest \in Seq(Cell)
    <3>1. (c \o tail) \o c2s = c \o (tail \o c2s)
      BY <1>3, <1>7, <2>1, Regroup, SMTT(30)
    <3>2. tail \o c2s \in Seq(Cell)
      BY <1>3, <2>1, Behind
    <3>3. QED BY <2>1, <3>1, <3>2
  <2>3. Framed(requests, d, c \o rest)
    BY <1>2, <2>2 DEF Streams, data, d
  <2> HIDE DEF rest
  <2>4. Framed(requests, d + 1, rest)
    <3>1. \A t \in Seq(Cell) : Framed(requests, d, c \o t) => Framed(requests, d + 1, t)
      BY <1>3, <1>4, <1>5, <1>7, <1>8, FramedDrop
    <3>2. QED BY <2>2, <2>3, <3>1
  <2>5. Framed(requests, Len(served'), sbuf'.data \o c2s')
    BY <1>1, <1>11, <1>13, <2>4 DEF rest, tail
  <2>6. Framed(replies, Len(received), cbuf.data \o s2c)
    BY <1>2 DEF Streams
  <2>7. QED BY <1>1, <2>5, <2>6 DEF Streams
<1>20. Abstract!Serve
  BY <1>1, <1>4, <1>10 DEF Abstract!Serve, m, d
<1>21. QED BY <1>14, <1>15, <1>18, <1>19, <1>20 DEF Wired, Abstract!Next

\* A turn of the loop of clientReadCallback hands the next response to its callback.
LEMMA ClientDecodeKeeps ==
  ASSUME Wired, ClientDecode
  PROVE  Wired' /\ Abstract!Next
<1> DEFINE data == cbuf.data
           n == ResponseAt(data)
           i == Called(data)
           d == Len(received)
           m == replies[d + 1]
           c == m.content
<1>1. /\ n > 0 /\ cbuf' = Consumed(cbuf, n)
      /\ received' = Append(received, Message(i, SubSeq(data, 1, n)))
      /\ UNCHANGED <<plan, c2s, s2c, sbuf, acting, requests, served, replies>>
  BY DEF ClientDecode
<1>2. WireType /\ Precedes(served, requests) /\ Precedes(received, replies) /\ Once /\ Streams
  BY DEF Wired
<1>3. /\ plan \in Plans /\ s2c \in Seq(Cell) /\ replies \in Seq(Answered) /\ received \in Seq(Answered)
      /\ cbuf \in Buffer /\ data \in Seq(Cell)
  BY <1>2 DEF WireType, Buffer
<1>4. /\ d < Len(replies) /\ n = Len(c) /\ n \in Nat /\ n <= Len(data) /\ Agrees(data, c)
      /\ Message(i, c) = m
  BY <1>1, ClientHead
<1>5. d \in Nat /\ Len(replies) \in Nat /\ d \in 0..Len(replies)
  BY <1>3, <1>4, LenProperties
<1>6. m \in Answered
  BY <1>3, <1>4, <1>5, ElementOfSeq
<1> HIDE DEF data, n, d, m
<1>7. c \in Seq(Cell) /\ \A x \in Answered : x.content \in Seq(Cell)
  BY <1>3, <1>6, AnsweredIs
<1>8. c = replies[d + 1].content
  BY DEF m
<1> HIDE DEF c
<1>9. /\ SubSeq(data, 1, n) = c /\ SubSeq(data, n + 1, Len(data)) \in Seq(Cell)
      /\ data = c \o SubSeq(data, n + 1, Len(data))
  <2>1. n = Len(c) /\ n <= Len(data) /\ n # 0 /\ Agrees(data, c)
    BY <1>1, <1>4 DEF c
  <2>2. QED BY <1>3, <1>7, <2>1, Taken
<1>10. received' = Append(received, m)
  BY <1>1, <1>4, <1>9
<1>11. cbuf' \in Buffer /\ cbuf'.data = SubSeq(data, n + 1, Len(data))
  <2>1. SubSeq(cbuf.data, n + 1, Len(cbuf.data)) \in Seq(Cell)
    BY <1>9 DEF data
  <2>2. Consumed(cbuf, n) \in Buffer /\ Consumed(cbuf, n).data = SubSeq(cbuf.data, n + 1, Len(cbuf.data))
    BY <1>3, <1>4, <2>1, ConsumedIs
  <2>3. QED BY <1>1, <2>2 DEF data
<1>12. Asked' = Asked /\ Answered' = Answered
  BY <1>1 DEF Asked, Answered, Message, Call
<1>13. /\ received' \in Seq(Answered) /\ Len(received') = d + 1
  BY <1>3, <1>6, <1>10, Sent DEF d
<1>14. WireType'
  BY <1>1, <1>2, <1>11, <1>12, <1>13 DEF WireType
<1>15. Precedes(served, requests)' /\ Precedes(received, replies)'
  <2>1. Precedes(Append(received, m), replies)
    BY <1>2, <1>3, <1>4, NextTaken DEF m, d
  <2>2. QED BY <1>1, <1>2, <1>10, <2>1 DEF Precedes
<1>16. Once'
  <2>1. Told(served)' = Told(served) /\ Told(replies)' = Told(replies)
    BY <1>1 DEF Told
  <2>2. QED BY <1>1, <1>2, <2>1 DEF Once
<1>17. Streams'
  <2> DEFINE tail == SubSeq(data, n + 1, Len(data))
             rest == tail \o s2c
  <2>1. data = c \o tail /\ tail \in Seq(Cell)
    BY <1>9
  <2> HIDE DEF tail
  <2>2. data \o s2c = c \o rest /\ rest \in Seq(Cell)
    <3>1. (c \o tail) \o s2c = c \o (tail \o s2c)
      BY <1>3, <1>7, <2>1, Regroup, SMTT(30)
    <3>2. tail \o s2c \in Seq(Cell)
      BY <1>3, <2>1, Behind
    <3>3. QED BY <2>1, <3>1, <3>2
  <2>3. Framed(replies, d, c \o rest)
    BY <1>2, <2>2 DEF Streams, data, d
  <2> HIDE DEF rest
  <2>4. Framed(replies, d + 1, rest)
    <3>1. \A t \in Seq(Cell) : Framed(replies, d, c \o t) => Framed(replies, d + 1, t)
      BY <1>3, <1>4, <1>5, <1>7, <1>8, FramedDrop
    <3>2. QED BY <2>2, <2>3, <3>1
  <2>5. Framed(replies, Len(received'), cbuf'.data \o s2c')
    BY <1>1, <1>11, <1>13, <2>4 DEF rest, tail
  <2>6. Framed(requests, Len(served), sbuf.data \o c2s)
    BY <1>2 DEF Streams
  <2>7. QED BY <1>1, <2>5, <2>6 DEF Streams
<1>18. Abstract!Receive
  BY <1>1, <1>4, <1>10 DEF Abstract!Receive, m, d
<1>19. QED BY <1>14, <1>15, <1>16, <1>17, <1>18 DEF Wired, Abstract!Next

\* An action answers, and serverDoActionCallback writes: a response to a request that was served
\* and not answered, at the end of the replies and of the stream.
LEMMA AnswerKeeps ==
  ASSUME Wired, NEW i, i \in DOMAIN plan, Answer(i)
  PROVE  Wired' /\ Abstract!Next
<1>1. PICK r \in Action(plan[i]) : /\ s2c' = s2c \o EncodedResponse(plan[i], r, i)
                                   /\ replies' = Append(replies, Message(i, EncodedResponse(plan[i], r, i)))
  BY DEF Answer
<1> DEFINE cells == EncodedResponse(plan[i], r, i)
           m == Message(i, cells)
<1>2. /\ i \in acting /\ acting' = acting \ {i}
      /\ s2c' = s2c \o cells /\ replies' = Append(replies, m)
      /\ UNCHANGED <<plan, c2s, sbuf, cbuf, requests, served, received>>
  BY <1>1 DEF Answer
<1>3. WireType /\ Precedes(served, requests) /\ Precedes(received, replies) /\ Once /\ Streams
  BY DEF Wired
<1>4. /\ plan \in Plans /\ s2c \in Seq(Cell) /\ replies \in Seq(Answered) /\ cbuf.data \in Seq(Cell)
      /\ received \in Seq(Answered) /\ served \in Seq(Asked)
  BY <1>3 DEF WireType, Buffer
<1>5. m \in Answered /\ m.content = cells /\ m.call = Call(i) /\ m.call.sequence = i
  BY MessageIs DEF Answered
<1>6. cells \in Seq(Cell) /\ \A x \in Answered : x.content \in Seq(Cell)
  <2>1. m.content \in Seq(Cell) /\ \A x \in Answered : x.content \in Seq(Cell)
    <3> HIDE DEF m
    <3>1. QED BY <1>4, <1>5, AnsweredIs
  <2>2. QED BY <1>5, <2>1
<1>7. Asked' = Asked /\ Answered' = Answered
  BY <1>2 DEF Asked, Answered, Message, Call
<1> HIDE DEF cells, m
<1>8. /\ replies' \in Seq(Answered) /\ Len(replies') = Len(replies) + 1 /\ Len(replies) \in Nat
      /\ \A k \in 1..Len(replies) : replies'[k] = replies[k]
      /\ replies'[Len(replies) + 1] = m
  BY <1>2, <1>4, <1>5, Sent
<1>9. s2c' \in Seq(Cell)
  BY <1>2, <1>4, <1>6, Behind
<1>10. WireType'
  BY <1>2, <1>3, <1>7, <1>8, <1>9 DEF WireType
<1>11. Len(received) \in Nat /\ Len(received) <= Len(replies)
  BY <1>3, <1>4, LenProperties DEF Precedes
<1>12. Precedes(served, requests)' /\ Precedes(received, replies)'
  <2>1. Precedes(served, requests)'
    BY <1>2, <1>3 DEF Precedes
  <2>2. \A k \in 1..Len(received) : received[k] = replies'[k]
    <3>1. \A k \in 1..Len(received) : k \in 1..Len(replies) /\ received[k] = replies[k]
      BY <1>3, <1>8, <1>11 DEF Precedes
    <3>2. QED BY <1>8, <3>1
  <2>3. Len(received) <= Len(replies')
    BY <1>8, <1>11
  <2>4. QED BY <1>2, <2>1, <2>2, <2>3 DEF Precedes
<1>13. Once'
  <2>1. Told(served)' = Told(served)
    BY <1>2 DEF Told
  <2>2. Told(replies)' = Told(replies) \cup {i}
    <3>1. Told(Append(replies, m)) = Told(replies) \cup {i}
      BY <1>4, <1>5, ToldIs
    <3>2. QED BY <1>2, <3>1 DEF Told
  <2>3. QED BY <1>2, <1>3, <2>1, <2>2 DEF Once
<1>14. Streams'
  <2> DEFINE s == cbuf.data \o s2c
             d == Len(received)
  <2>1. Framed(replies, d, s)
    BY <1>3 DEF Streams
  <2>2. s \in Seq(Cell) /\ s \o cells = cbuf.data \o (s2c \o cells)
    BY <1>4, <1>6, Behind, Regroup
  <2>3. d \in 0..Len(replies)
    BY <1>8, <1>11
  <2> HIDE DEF s, d
  <2>4. Framed(Append(replies, m), d, s \o cells)
    BY <1>4, <1>5, <1>6, <2>1, <2>2, <2>3, FramedAppend
  <2>5. Framed(replies, Len(received), cbuf.data \o s2c)'
    <3>1. Framed(replies', Len(received'), cbuf'.data \o s2c')
      BY <1>2, <2>2, <2>4 DEF d
    <3>2. QED BY <3>1 DEF Framed, Size, Content
  <2>6. Framed(requests, Len(served), sbuf.data \o c2s)'
    BY <1>2, <1>3 DEF Streams
  <2>7. QED BY <2>5, <2>6 DEF Streams
<1>15. Wired'
  BY <1>10, <1>12, <1>13, <1>14 DEF Wired
<1>16. Abstract!Next
  <2> DEFINE call == Call(i)
  <2>1. call \in Calls /\ cells \in CallResponse(call)
    BY <1>4, CallIs DEF cells
  <2>2. call \in Abstract!CallsOf(served)
    <3>1. i \in Told(served)
      BY <1>2, <1>3 DEF Once
    <3>2. PICK k \in DOMAIN served : served[k].call.sequence = i
      BY <3>1 DEF Told
    <3>3. served[k] \in Asked
      BY <1>4, <3>2, LenProperties, ElementOfSeq
    <3>4. served[k].call = call
      BY <1>4, <3>2, <3>3, AskedIs
    <3>5. QED BY <3>4 DEF Abstract!CallsOf
  <2>3. call \notin Abstract!CallsOf(replies)
    <3>1. SUFFICES ASSUME NEW k \in DOMAIN replies, replies[k].call = call PROVE FALSE
      BY DEF Abstract!CallsOf
    <3>2. replies[k].call.sequence = i
      BY <3>1, MessageIs DEF Call
    <3>3. i \in Told(replies)
      BY <3>2 DEF Told
    <3>4. QED BY <1>2, <1>3, <3>3 DEF Once
  <2>4. m = Abstract!Message(call, cells)
    BY MessageIs DEF m
  <2>5. Abstract!Reply(call)
    BY <1>2, <2>1, <2>2, <2>3, <2>4 DEF Abstract!Reply
  <2>6. QED BY <2>1, <2>5 DEF Abstract!Next
<1>17. QED BY <1>15, <1>16

\* Every step keeps the invariant and is a step of the exchange, or changes none of its variables.
LEMMA StepWired == Wired /\ [WireNext]_wire_vars => Wired' /\ [Abstract!Next]_(Abstract!vars)
<1> SUFFICES ASSUME Wired, [WireNext]_wire_vars
             PROVE  Wired' /\ (Abstract!Next \/ UNCHANGED Abstract!vars)
  OBVIOUS
<1>1. CASE \E i \in DOMAIN plan : SendRequest(i) \/ Answer(i)
  BY <1>1, SendKeeps, AnswerKeeps
<1>2. CASE ServerRead \/ ClientRead
  BY <1>2, ReadKeeps
<1>3. CASE ServerDecode
  BY <1>3, ServerDecodeKeeps
<1>4. CASE ClientDecode
  BY <1>4, ClientDecodeKeeps
<1>5. CASE ServerIncomplete \/ ClientIncomplete
  BY <1>5, IncompleteKeeps
<1>6. CASE UNCHANGED wire_vars
  <2>1. UNCHANGED <<plan, c2s, s2c, sbuf, cbuf, acting, requests, served, replies, received>>
    BY <1>6 DEF wire_vars, history
  <2>2. Asked' = Asked /\ Answered' = Answered
    BY <2>1 DEF Asked, Answered, Message, Call
  <2>3. WireType'
    BY <2>1, <2>2 DEF Wired, WireType
  <2>4. Precedes(served, requests)' /\ Precedes(received, replies)'
    BY <2>1 DEF Wired, Precedes
  <2>5. Once'
    <3>1. Told(served)' = Told(served) /\ Told(replies)' = Told(replies)
      BY <2>1 DEF Told
    <3>2. QED BY <2>1, <3>1 DEF Wired, Once
  <2>6. Streams'
    BY <2>1 DEF Wired, Streams
  <2>7. QED BY <2>1, <2>3, <2>4, <2>5, <2>6 DEF Wired, Abstract!vars
<1>7. QED BY <1>1, <1>2, <1>3, <1>4, <1>5, <1>6 DEF WireNext

\* serverReadCallback and clientReadCallback see the messages the encoders have written, whole
\* and in the order of the writes, and hand a response to the caller of its own request, for any
\* requests and maps, any chunks in which the bytes are read and any sizes of the read buffers.
THEOREM WireImplementsExchange == WireSpec => ImplementsExchange
<1>1. QED
  BY InitWired, StepWired, PTL DEF WireSpec, ImplementsExchange, Abstract!Spec
=============================================================================
