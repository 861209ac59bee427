-------------------------- MODULE ConnectionProofs --------------------------
(***************************************************************************)
(* Proofs about the connection, for any number of reads and writes of any  *)
(* size: is_reading and is_writing count exactly the jobs and the threads  *)
(* on their way to one, and read_job and write_job are in the pool once;   *)
(* each context is in one list or thread and is called back once; and ref  *)
(* counts exactly those who may still use the connection, so that the last *)
(* of them frees it; and the bytes of the writes follow one another on the *)
(* wire, unmixed and in the order of the calls.                            *)
(***************************************************************************)
EXTENDS Connection, FiniteSetTheorems, SequenceTheorems, TLAPS

\* Which control points of the epoll thread and of the closer go together with what
\* they look at.
Control == /\ watched \in Directions <=> epoll # "wait"
           /\ closed = 0 <=> closer \in {"none", "mark"}

\* The contexts in the lists of a direction belong to operations of that direction.
OpsOf(d) == {o \in Ops : Dir(o) = d}
Sorted == \A d \in Directions : list[d] \in Seq(OpsOf(d)) /\ batch[d] \in Seq(OpsOf(d))

SchedIInv == SchedExact /\ JobLinkedOnce /\ Control /\ Sorted

-----------------------------------------------------------------------------
(* Counting operations *)

\* The operations of a direction at some control points are finitely many.
LEMMA CountedFinite ==
  ASSUME NEW d \in Directions
  PROVE  /\ IsFiniteSet(Counted(d)) /\ Cardinality(Counted(d)) \in Nat
         /\ IsFiniteSet(Claiming(d)) /\ Cardinality(Claiming(d)) \in Nat
<1>1. IsFiniteSet(Ops) /\ Counted(d) \subseteq Ops /\ Claiming(d) \subseteq Ops
  BY ConnectionAssumption DEF Counted, Claiming
<1>2. QED BY <1>1, FS_Subset, FS_CardinalityType

\* An operation has one of the two directions.
LEMMA DirType == \A o \in Ops : Dir(o) \in Directions /\ (Dir(o) = "write" => o \in Writes)
  BY DEF Dir, Directions, Ops

\* The number of claimed jobs is at most that of the threads that have counted themselves.
LEMMA ClaimingBelowCounted ==
  ASSUME NEW d \in Directions
  PROVE  Cardinality(Claiming(d)) <= Cardinality(Counted(d))
<1>1. Claiming(d) \subseteq Counted(d)
  BY DEF Claiming, Counted
<1>2. QED BY <1>1, CountedFinite, FS_Subset

\* Adding or removing an element changes a cardinality unless it was, or was not, there.
LEMMA AddAndRemove ==
  \A S, x : IsFiniteSet(S) =>
     /\ Cardinality(S \cup {x}) = IF x \in S THEN Cardinality(S) ELSE Cardinality(S) + 1
     /\ Cardinality(S \ {x}) = IF x \in S THEN Cardinality(S) - 1 ELSE Cardinality(S)
<1> TAKE S, x
<1> HAVE IsFiniteSet(S)
<1>1. QED BY FS_AddElement, FS_RemoveElement

\* A call that moves from one control point to another changes the two counts of its
\* own direction by whether it is among them before and after.
Counting == {"uncount", "claim", "post"}
Posters == {"claim", "post"}
Moved(d, o, pc) ==
    /\ Cardinality(Counted(d)') = Cardinality(Counted(d))
           - If(d = Dir(o) /\ op[o] \in Counting) + If(d = Dir(o) /\ pc \in Counting)
    /\ Cardinality(Claiming(d)') = Cardinality(Claiming(d))
           - If(d = Dir(o) /\ op[o] \in Posters) + If(d = Dir(o) /\ pc \in Posters)
LEMMA MoveOp ==
  ASSUME TypeOK, NEW o \in Ops, NEW pc, op' = [op EXCEPT ![o] = pc], NEW d \in Directions
  PROVE  Moved(d, o, pc)
<1>1. \A p \in Ops : op'[p] = IF p = o THEN pc ELSE op[p]
  BY DEF TypeOK
<1>2. CASE d # Dir(o)
  <2>1. Counted(d)' = Counted(d) /\ Claiming(d)' = Claiming(d)
    BY <1>1, <1>2 DEF Counted, Claiming
  <2>2. QED BY <1>2, <2>1, CountedFinite DEF Moved, If
<1>3. CASE d = Dir(o)
  <2>1. Counted(d)' = IF pc \in Counting THEN Counted(d) \cup {o}
                      ELSE Counted(d) \ {o}
    BY <1>1, <1>3 DEF Counting, Counted
  <2>2. Claiming(d)' = IF pc \in Posters THEN Claiming(d) \cup {o}
                       ELSE Claiming(d) \ {o}
    BY <1>1, <1>3 DEF Posters, Claiming
  <2>3. /\ o \in Counted(d) <=> op[o] \in Counting
        /\ o \in Claiming(d) <=> op[o] \in Posters
    BY <1>3 DEF Counting, Posters, Counted, Claiming
  <2>4. /\ IsFiniteSet(Counted(d)) /\ Cardinality(Counted(d)) \in Nat
        /\ IsFiniteSet(Claiming(d)) /\ Cardinality(Claiming(d)) \in Nat
    BY CountedFinite
  <2>5. /\ Cardinality(Counted(d) \cup {o})
              = IF o \in Counted(d) THEN Cardinality(Counted(d)) ELSE Cardinality(Counted(d)) + 1
        /\ Cardinality(Counted(d) \ {o})
              = IF o \in Counted(d) THEN Cardinality(Counted(d)) - 1 ELSE Cardinality(Counted(d))
    BY <2>4, AddAndRemove
  <2>6. /\ Cardinality(Claiming(d) \cup {o})
              = IF o \in Claiming(d) THEN Cardinality(Claiming(d)) ELSE Cardinality(Claiming(d)) + 1
        /\ Cardinality(Claiming(d) \ {o})
              = IF o \in Claiming(d) THEN Cardinality(Claiming(d)) - 1 ELSE Cardinality(Claiming(d))
    BY <2>4, AddAndRemove
  <2>7. QED BY <1>3, <2>1, <2>2, <2>3, <2>4, <2>5, <2>6 DEF Moved, If
<1>4. QED BY <1>2, <1>3

-----------------------------------------------------------------------------
(* Steps that neither schedule nor move a counted call *)

\* The scheduling invariants speak only of these variables.
LEMMA KeepsSched ==
  ASSUME SchedExact, JobLinkedOnce, TypeOK', UNCHANGED <<sched, job, op, epoll, watched>>
  PROVE  SchedExact' /\ JobLinkedOnce'
  BY DEF SchedExact, JobLinkedOnce, Counted, EpollCounted, Claiming, EpollClaiming

\* The epoll thread, the closer and the lists keep their place.
LEMMA KeepsControl ==
  ASSUME Control, Sorted, UNCHANGED <<epoll, watched, closed, closer, list, batch>>
  PROVE  Control' /\ Sorted'
  BY DEF Control, Sorted

-----------------------------------------------------------------------------
(* The steps *)

\* connRead and connWrite up to the increment, and their way out, touch neither counter.
LEMMA CallersTypes ==
  ASSUME SchedIInv, NEW o \in Ops, Refuse(o) \/ Enter(o) \/ Call(o), sched' \in [Directions -> Nat]
  PROVE  TypeOK' /\ Control' /\ Sorted'
<1>0. TypeOK /\ Control /\ Sorted
  BY DEF SchedIInv, SchedExact
<1>1. Dir(o) \in Directions /\ o \in OpsOf(Dir(o))
  BY DirType DEF OpsOf
<1>2. ASSUME Refuse(o) \/ Enter(o) \/ Hold(o) \/ Count(o) \/ Uncount(o) \/ Claim(o) \/ Post(o)
      PROVE  TypeOK' /\ Control' /\ Sorted'
  <2>1. /\ op' \in [Ops -> {"idle", "refused", "hold", "link", "count", "uncount",
                             "claim", "post", "out"}]
        /\ ref' \in Int /\ job' \in [Directions -> Nat]
    <3>1. \E pc \in {"refused", "hold", "link", "claim", "uncount", "post", "out"} :
             op' = [op EXCEPT ![o] = pc]
      BY <1>2 DEF Refuse, Enter, Hold, Count, Uncount, Claim, Post
    <3>2. ref' = ref \/ ref' = ref + 1
      BY <1>2 DEF Refuse, Enter, Hold, Count, Uncount, Claim, Post, conn
    <3>3. job' = job \/ job' = [job EXCEPT ![Dir(o)] = @ + 1]
      BY <1>2 DEF Refuse, Enter, Hold, Count, Uncount, Claim, Post, conn
    <3>4. ref \in Int /\ job \in [Directions -> Nat]
      BY <1>0 DEF TypeOK
    <3>5. ref' \in Int /\ job' \in [Directions -> Nat]
      BY <3>2, <3>3, <3>4
    <3>6. QED BY <1>0, <3>1, <3>5 DEF TypeOK
  <2>2. UNCHANGED <<freed, closed, list, calls, left, pools, epolls, closers, kernel, history>>
    BY <1>2 DEF Refuse, Enter, Hold, Count, Uncount, Claim, Post, conn
  <2>3. TypeOK'
    BY <1>0, <2>1, <2>2 DEF TypeOK, pools, epolls, closers, kernel, history
  <2>4. QED BY <1>0, <2>2, <2>3, KeepsControl DEF pools, epolls, closers
<1>3. ASSUME Link(o)
      PROVE  TypeOK' /\ Control' /\ Sorted'
  <2>1. list' = [list EXCEPT ![Dir(o)] = Append(@, o)]
    BY <1>3 DEF Link
  <2>2. list' \in [Directions -> Seq(Ops)]
    <3>1. list \in [Directions -> Seq(Ops)]
      BY <1>0 DEF TypeOK
    <3>2. Append(list[Dir(o)], o) \in Seq(Ops)
      BY <1>1, <3>1
    <3>3. QED BY <2>1, <3>1, <3>2
  <2>3. order' \in Seq(Writes)
    <3>1. order \in Seq(Writes)
      BY <1>0 DEF TypeOK
    <3>2. o \in Writes => Append(order, o) \in Seq(Writes)
      BY <3>1
    <3>3. QED BY <1>3, <3>1, <3>2 DEF Link
  <2>4. TypeOK'
    BY <1>0, <1>3, <2>2, <2>3 DEF TypeOK, Link, pools, epolls, closers, kernel
  <2>5. Control'
    BY <1>0, <1>3 DEF Control, Link, epolls, closers
  <2>6. Sorted'
    <3> SUFFICES ASSUME NEW d \in Directions
                 PROVE  list'[d] \in Seq(OpsOf(d)) /\ batch'[d] \in Seq(OpsOf(d))
      BY DEF Sorted, OpsOf
    <3>1. list[d] \in Seq(OpsOf(d)) /\ batch'[d] \in Seq(OpsOf(d))
      BY <1>0, <1>3 DEF Sorted, Link, pools
    <3>2. list'[d] = IF d = Dir(o) THEN Append(list[d], o) ELSE list[d]
      BY <1>0, <1>1, <2>1 DEF TypeOK
    <3>3. QED BY <1>1, <3>1, <3>2
  <2>7. QED BY <2>4, <2>5, <2>6
<1>4. QED BY <1>2, <1>3 DEF Call

\* A call schedules the job only when it has raised the counter from zero, and no job is
\* then in the pool or on its way there.
LEMMA CallersKeep ==
  ASSUME SchedIInv, NEW o \in Ops, Refuse(o) \/ Enter(o) \/ Call(o)
  PROVE  SchedIInv'
<1> DEFINE D == Dir(o)
<1>0. TypeOK /\ D \in Directions
  BY DirType DEF SchedIInv, SchedExact
<1>1. /\ sched \in [Directions -> Nat] /\ job \in [Directions -> Nat]
      /\ op \in [Ops -> {"idle", "refused", "hold", "link", "count", "uncount",
                         "claim", "post", "out"}]
  BY <1>0 DEF TypeOK
<1>2. \A d \in Directions :
         /\ sched[d] = job[d] + Cardinality(Counted(d)) + If(EpollCounted(d))
         /\ job[d] + Cardinality(Claiming(d)) + If(EpollClaiming(d)) <= 1
         /\ Cardinality(Counted(d)) \in Nat /\ Cardinality(Claiming(d)) \in Nat
         /\ Cardinality(Claiming(d)) <= Cardinality(Counted(d))
         /\ If(EpollClaiming(d)) <= If(EpollCounted(d))
         /\ If(EpollClaiming(d)) \in Nat /\ If(EpollCounted(d)) \in Nat
  <2>1. \A d \in Directions : /\ If(EpollClaiming(d)) <= If(EpollCounted(d))
                              /\ If(EpollClaiming(d)) \in Nat /\ If(EpollCounted(d)) \in Nat
    BY DEF If, EpollClaiming, EpollCounted
  <2>2. QED BY <2>1, CountedFinite, ClaimingBelowCounted DEF SchedIInv, SchedExact, JobLinkedOnce
<1>3. \A d \in Directions : /\ If(EpollCounted(d))' = If(EpollCounted(d))
                            /\ If(EpollClaiming(d))' = If(EpollClaiming(d))
  BY DEF Refuse, Enter, Call, Hold, Link, Count, Uncount, Claim, Post, epolls,
         If, EpollCounted, EpollClaiming
<1>4. CASE Refuse(o) \/ Enter(o) \/ Hold(o) \/ Link(o) \/ Claim(o)
  <2>1. PICK pc : /\ op' = [op EXCEPT ![o] = pc]
                  /\ pc \in Counting <=> op[o] \in Counting
                  /\ pc \in Posters <=> op[o] \in Posters
    BY <1>4 DEF Counting, Posters, Refuse, Enter, Hold, Link, Claim
  <2>2. \A d \in Directions : /\ Cardinality(Counted(d)') = Cardinality(Counted(d))
                              /\ Cardinality(Claiming(d)') = Cardinality(Claiming(d))
    <3>1. \A d \in Directions : Moved(d, o, pc)
      BY <1>0, <2>1, MoveOp
    <3>2. QED BY <1>2, <2>1, <3>1 DEF Moved, Counting, Posters, If
  <2>3. UNCHANGED <<sched, job>>
    BY <1>4 DEF Refuse, Enter, Hold, Link, Claim, conn
  <2>4. QED BY <1>1, <1>2, <1>3, <2>2, <2>3, CallersTypes DEF SchedIInv, SchedExact, JobLinkedOnce
<1>5. CASE Count(o)
  <2>1. /\ op' = [op EXCEPT ![o] = IF sched[D] = 0 THEN "claim" ELSE "uncount"]
        /\ sched' = [sched EXCEPT ![D] = @ + 1] /\ job' = job /\ op[o] = "count"
    BY <1>5 DEF Count
  <2>2. \A d \in Directions :
           /\ Cardinality(Counted(d)') = Cardinality(Counted(d)) + If(d = D)
           /\ Cardinality(Claiming(d)') = Cardinality(Claiming(d)) + If(d = D /\ sched[D] = 0)
    <3>1. \A d \in Directions : Moved(d, o, IF sched[D] = 0 THEN "claim" ELSE "uncount")
      BY <1>0, <2>1, MoveOp
    <3>2. QED BY <1>2, <2>1, <3>1 DEF Moved, Counting, Posters, If
  <2>3. sched' \in [Directions -> Nat] /\ \A d \in Directions : sched'[d] = sched[d] + If(d = D)
    BY <1>0, <1>1, <2>1 DEF If
  <2>4. QED BY <1>1, <1>2, <1>3, <1>5, <2>1, <2>2, <2>3, CallersTypes
            DEF SchedIInv, SchedExact, JobLinkedOnce, If, Call
<1>6. CASE Uncount(o)
  <2>1. /\ op' = [op EXCEPT ![o] = "out"]
        /\ sched' = [sched EXCEPT ![D] = @ - 1] /\ job' = job /\ op[o] = "uncount"
    BY <1>6 DEF Uncount
  <2>2. \A d \in Directions :
           /\ Cardinality(Counted(d)') = Cardinality(Counted(d)) - If(d = D)
           /\ Cardinality(Claiming(d)') = Cardinality(Claiming(d))
    <3>1. \A d \in Directions : Moved(d, o, "out")
      BY <1>0, <2>1, MoveOp
    <3>2. QED BY <1>2, <2>1, <3>1 DEF Moved, Counting, Posters, If
  <2>3. \A d \in Directions : sched'[d] = sched[d] - If(d = D)
    BY <1>0, <1>1, <2>1 DEF If
  <2>4. sched' \in [Directions -> Nat]
    <3>1. o \in Counted(D) /\ IsFiniteSet(Counted(D)) /\ Cardinality(Counted(D)) \in Nat
      BY <1>0, <2>1, CountedFinite DEF Counted
    <3>2. Cardinality(Counted(D)) # 0
      BY <3>1, FS_EmptySet
    <3>3. sched[D] \in Nat /\ sched[D] >= 1
      <4>1. /\ sched[D] = job[D] + Cardinality(Counted(D)) + If(EpollCounted(D))
            /\ If(EpollCounted(D)) \in Nat
        BY <1>0, <1>2
      <4>2. job[D] \in Nat /\ sched[D] \in Nat
        BY <1>0, <1>1
      <4>3. QED BY <3>1, <3>2, <4>1, <4>2
    <3>4. sched[D] - 1 \in Nat
      BY <3>3
    <3>5. QED BY <1>1, <2>1, <3>4
  <2>5. QED BY <1>1, <1>2, <1>3, <1>6, <2>1, <2>2, <2>3, <2>4, CallersTypes
            DEF SchedIInv, SchedExact, JobLinkedOnce, If, Call
<1>7. CASE Post(o)
  <2>1. /\ op' = [op EXCEPT ![o] = "out"]
        /\ job' = [job EXCEPT ![D] = @ + 1] /\ sched' = sched /\ op[o] = "post"
    BY <1>7 DEF Post
  <2>2. \A d \in Directions :
           /\ Cardinality(Counted(d)') = Cardinality(Counted(d)) - If(d = D)
           /\ Cardinality(Claiming(d)') = Cardinality(Claiming(d)) - If(d = D)
    <3>1. \A d \in Directions : Moved(d, o, "out")
      BY <1>0, <2>1, MoveOp
    <3>2. QED BY <1>2, <2>1, <3>1 DEF Moved, Counting, Posters, If
  <2>3. \A d \in Directions : job'[d] = job[d] + If(d = D)
    BY <1>0, <1>1, <2>1 DEF If
  <2>4. QED BY <1>1, <1>2, <1>3, <1>7, <2>1, <2>2, <2>3, CallersTypes
            DEF SchedIInv, SchedExact, JobLinkedOnce, If, Call
<1>8. QED BY <1>4, <1>5, <1>6, <1>7 DEF Call

\* socketDoRead and socketDoWrite move contexts between the list of their direction, their
\* own and a callback.
LEMMA PoolTypes ==
  ASSUME SchedIInv, NEW d \in Directions, Pool(d), sched' \in [Directions -> Nat]
  PROVE  TypeOK' /\ Control' /\ Sorted'
<1>0. TypeOK /\ Control /\ Sorted
  BY DEF SchedIInv, SchedExact
<1>1. /\ list \in [Directions -> Seq(Ops)] /\ batch \in [Directions -> Seq(Ops)]
      /\ list[d] \in Seq(OpsOf(d)) /\ batch[d] \in Seq(OpsOf(d))
  BY <1>0 DEF TypeOK, Sorted
<1>2. OpsOf(d) \subseteq Ops /\ (d = "write" => OpsOf(d) \subseteq Writes)
  BY DirType DEF OpsOf
<1>3. /\ list' \in [Directions -> Seq(Ops)] /\ batch' \in [Directions -> Seq(Ops)]
      /\ list'[d] \in Seq(OpsOf(d)) /\ batch'[d] \in Seq(OpsOf(d))
      /\ \A e \in Directions : e # d => list'[e] = list[e] /\ batch'[e] = batch[e]
  <2>1. \E s, t \in Seq(OpsOf(d)) : list' = [list EXCEPT ![d] = s] /\ batch' = [batch EXCEPT ![d] = t]
    <3>1. CASE Take(d) \/ Rejoin(d)
      <4>1. <<>> \in Seq(OpsOf(d)) /\ batch[d] \o list[d] \in Seq(OpsOf(d))
        BY <1>1, ConcatProperties
      <4>2. QED BY <1>1, <3>1, <4>1 DEF Take, Rejoin
    <3>2. CASE \E pc : batch[d] # <<>> /\ CallBack(d, pc) /\ list' = list
      <4>1. Tail(batch[d]) \in Seq(OpsOf(d))
        BY <1>1, <3>2, HeadTailProperties
      <4>2. QED BY <1>1, <3>2, <4>1 DEF CallBack
    <3>3. CASE UNCHANGED <<list, batch>>
      BY <1>1, <3>3
    <3>4. QED BY <3>1, <3>2, <3>3
              DEF Pool, Start, Test, Error, WouldBlock, ReadSome, WriteSome, FailNext, Return, Drop, conn
  <2>2. Seq(OpsOf(d)) \subseteq Seq(Ops)
    BY <1>2
  <2>3. QED BY <1>1, <2>1, <2>2
<1>4. TypeOK'
  <2>1. pool' \in [Directions -> PoolPoints] /\ next' \in [Directions -> {"idle", "io", "rejoin", "fail"}]
    <3>1. /\ pool \in [Directions -> PoolPoints]
          /\ next \in [Directions -> {"idle", "io", "rejoin", "fail"}]
      BY <1>0 DEF TypeOK
    <3>2. \E pc \in PoolPoints : pool' = [pool EXCEPT ![d] = pc]
      BY <3>1 DEF Pool, Start, Take, Test, Error, WouldBlock, ReadSome, WriteSome, FailNext, Return,
                  Rejoin, Drop, CallBack, PoolPoints
    <3>3. next' = next \/ \E pc \in {"io", "rejoin", "fail"} : next' = [next EXCEPT ![d] = pc]
      BY DEF Pool, Start, Take, Test, Error, WouldBlock, ReadSome, WriteSome, FailNext, Return,
             Rejoin, Drop, CallBack
    <3>4. QED BY <3>1, <3>2, <3>3
  <2>2. cur' \in [Directions -> Ops \cup {NoOp}]
    <3>1. cur \in [Directions -> Ops \cup {NoOp}] /\ (batch[d] # <<>> => Head(batch[d]) \in Ops)
      <4>1. batch[d] # <<>> => Head(batch[d]) \in OpsOf(d)
        BY <1>1, HeadTailProperties
      <4>2. QED BY <1>0, <1>2, <4>1 DEF TypeOK
    <3>2. \/ cur' = cur
          \/ cur' = [cur EXCEPT ![d] = NoOp]
          \/ batch[d] # <<>> /\ cur' = [cur EXCEPT ![d] = Head(batch[d])]
      BY DEF Pool, Start, Take, Test, Error, WouldBlock, ReadSome, WriteSome, FailNext, Return,
             Rejoin, Drop, CallBack
    <3>3. QED BY <3>1, <3>2
  <2>3. /\ ref' \in Int /\ freed' \in BOOLEAN /\ calls' \in [Ops -> Nat]
        /\ closed' = closed /\ op' = op /\ order' = order
    <3>1. ref \in Int /\ freed \in BOOLEAN /\ calls \in [Ops -> Nat]
      BY <1>0 DEF TypeOK
    <3>2. /\ ref' = ref \/ ref' = ref - 1
          /\ freed' = freed \/ freed' = (freed \/ ref = 1)
          /\ calls' = calls \/ calls' = [calls EXCEPT ![cur[d]] = @ + 1]
          /\ closed' = closed /\ op' = op /\ order' = order
      BY DEF Pool, Start, Take, Test, Error, WouldBlock, ReadSome, WriteSome, FailNext, Return,
             Rejoin, Drop, IODone, conn, users, history
    <3>3. ref' \in Int /\ freed' \in BOOLEAN
      <4>1. ref' \in Int
        BY <3>1, <3>2
      <4>2. (freed \/ ref = 1) \in BOOLEAN
        OBVIOUS
      <4>3. freed' \in BOOLEAN
        BY <3>1, <3>2, <4>2, Zenon
      <4>4. QED BY <4>1, <4>3
    <3>4. calls' \in [Ops -> Nat]
      BY <3>1, <3>2
    <3>5. QED BY <3>2, <3>3, <3>4
  <2>4. job' \in [Directions -> Nat]
    <3>1. job \in [Directions -> Nat]
      BY <1>0 DEF TypeOK
    <3>2. CASE Start(d)
      <4>1. job' = [job EXCEPT ![d] = @ - 1] /\ job[d] > 0
        BY <3>2 DEF Start
      <4>2. job[d] - 1 \in Nat
        BY <3>1, <4>1
      <4>3. QED BY <3>1, <4>1, <4>2
    <3>3. CASE job' = job
      BY <3>1, <3>3
    <3>4. QED BY <3>2, <3>3 DEF Pool, Take, Test, Error, WouldBlock, ReadSome, WriteSome, FailNext,
                 Return, Rejoin, Drop, conn
  <2>5. /\ units' \in [Directions -> Nat] /\ left' \in [Ops -> Nat] /\ wire' \in Seq(Writes)
    <3>1. /\ units \in [Directions -> Nat] /\ left \in [Ops -> Nat] /\ wire \in Seq(Writes)
      BY <1>0 DEF TypeOK
    <3>2. CASE UNCHANGED <<units, left, wire>>
      BY <3>1, <3>2
    <3>3. CASE (d = "read" /\ ReadSome) \/ (d = "write" /\ WriteSome)
      <4> DEFINE o == Head(batch[d])
      <4>1. o \in OpsOf(d) /\ batch[d] # <<>>
        BY <1>1, <3>3 DEF ReadSome, WriteSome
      <4>2. o \in Ops /\ (d = "write" => o \in Writes)
        BY <1>2, <4>1
      <4>3. /\ Movable(d) \in Nat /\ units[d] - Movable(d) \in Nat /\ left[o] - Movable(d) \in Nat
        BY <3>1, <4>2 DEF Movable
      <4>4. units' = [units EXCEPT ![d] = @ - Movable(d)]
        BY <3>3 DEF ReadSome, WriteSome
      <4>5. \/ left' = left /\ wire' = wire
            \/ /\ d = "write" /\ left' = [left EXCEPT ![o] = @ - Movable(d)]
               /\ wire' = wire \o [i \in 1..Movable(d) |-> o]
        BY <3>3 DEF ReadSome, WriteSome, users, history
      <4>6. units' \in [Directions -> Nat]
        BY <3>1, <4>3, <4>4
      <4>7. left' \in [Ops -> Nat]
        BY <3>1, <4>2, <4>3, <4>5
      <4>8. wire' \in Seq(Writes)
        <5>1. CASE d = "write"
          <6>1. [i \in 1..Movable(d) |-> o] \in Seq(Writes)
            BY <4>2, <4>3, <5>1
          <6>2. wire \o [i \in 1..Movable(d) |-> o] \in Seq(Writes)
            BY <3>1, <6>1, ConcatProperties
          <6>3. QED BY <3>1, <4>5, <6>2
        <5>2. QED BY <3>1, <4>5, <5>1
      <4>9. QED BY <4>6, <4>7, <4>8
    <3>4. QED BY <3>2, <3>3 DEF Pool, Start, Take, Test, Error, WouldBlock, FailNext, Return, Rejoin,
                 Drop, users, kernel, history
  <2>6. /\ UNCHANGED <<epolls, closers, supply>> /\ link' \in {"up", "eof", "down"} /\ edge' \in BOOLEAN
    <3>1. link \in {"up", "eof", "down"} /\ edge \in BOOLEAN
      BY <1>0 DEF TypeOK
    <3>2. QED BY <3>1 DEF Pool, Start, Take, Test, Error, WouldBlock, ReadSome, WriteSome, FailNext,
                 Return, Rejoin, Drop, kernel
  <2>7. QED BY <1>0, <1>3, <2>1, <2>2, <2>3, <2>4, <2>5, <2>6 DEF TypeOK, epolls, closers
<1>5. UNCHANGED <<closed, epolls, closers>>
  BY DEF Pool, Start, Take, Test, Error, WouldBlock, ReadSome, WriteSome, FailNext, Return, Rejoin,
         Drop, conn
<1>6. Control'
  BY <1>0, <1>5 DEF Control, epolls, closers
<1>7. Sorted'
  <2> SUFFICES ASSUME NEW e \in Directions
               PROVE  list'[e] \in Seq(OpsOf(e)) /\ batch'[e] \in Seq(OpsOf(e))
    BY DEF Sorted, OpsOf
  <2>1. CASE e = d
    BY <1>3, <2>1
  <2>2. CASE e # d
    BY <1>0, <1>3, <2>2 DEF Sorted
  <2>3. QED BY <2>1, <2>2
<1>8. QED BY <1>4, <1>6, <1>7

\* A pool thread takes the job out and lowers the counter in one step.
LEMMA PoolKeeps ==
  ASSUME SchedIInv, NEW d \in Directions, Pool(d)
  PROVE  SchedIInv'
<1>0. TypeOK
  BY DEF SchedIInv, SchedExact
<1>1. UNCHANGED <<op, epolls>>
  BY DEF Pool, Start, Take, Test, Error, WouldBlock, ReadSome, WriteSome, FailNext, Return, Rejoin,
         Drop, users
<1>2. CASE UNCHANGED <<sched, job>>
  <2>1. sched' \in [Directions -> Nat]
    BY <1>0, <1>2 DEF TypeOK
  <2>2. TypeOK' /\ Control' /\ Sorted'
    BY <2>1, PoolTypes
  <2>3. SchedExact' /\ JobLinkedOnce'
    BY <1>1, <1>2, <2>2, KeepsSched DEF SchedIInv, epolls
  <2>4. QED BY <2>2, <2>3 DEF SchedIInv
<1>3. CASE Start(d)
  <2>1. sched \in [Directions -> Nat] /\ job \in [Directions -> Nat]
    BY <1>0 DEF TypeOK
  <2>2. /\ job' = [job EXCEPT ![d] = @ - 1] /\ job[d] > 0
        /\ sched' = [sched EXCEPT ![d] = @ - 1]
    BY <1>3 DEF Start
  <2>3. \A e \in Directions :
           /\ sched[e] = job[e] + Cardinality(Counted(e)) + If(EpollCounted(e))
           /\ job[e] + Cardinality(Claiming(e)) + If(EpollClaiming(e)) <= 1
           /\ Cardinality(Counted(e)) \in Nat /\ Cardinality(Claiming(e)) \in Nat
           /\ If(EpollClaiming(e)) \in Nat /\ If(EpollCounted(e)) \in Nat
    BY CountedFinite DEF SchedIInv, SchedExact, JobLinkedOnce, If
  <2>4. \A e \in Directions : /\ sched'[e] = IF e = d THEN sched[e] - 1 ELSE sched[e]
                              /\ job'[e] = IF e = d THEN job[e] - 1 ELSE job[e]
    BY <2>1, <2>2
  <2>5. sched[d] - 1 \in Nat
    BY <2>1, <2>2, <2>3
  <2>6. sched' \in [Directions -> Nat]
    BY <2>1, <2>2, <2>5
  <2>7. TypeOK' /\ Control' /\ Sorted'
    BY <2>6, PoolTypes
  <2>8. \A e \in Directions : /\ Counted(e)' = Counted(e) /\ EpollCounted(e)' = EpollCounted(e)
                              /\ Claiming(e)' = Claiming(e) /\ EpollClaiming(e)' = EpollClaiming(e)
    BY <1>1 DEF epolls, Counted, EpollCounted, Claiming, EpollClaiming
  <2>9. \A e \in Directions :
           /\ sched'[e] = job'[e] + Cardinality(Counted(e)) + If(EpollCounted(e))
           /\ job'[e] + Cardinality(Claiming(e)) + If(EpollClaiming(e)) <= 1
    BY <2>1, <2>3, <2>4
  <2>10. QED BY <2>7, <2>8, <2>9 DEF SchedIInv, SchedExact, JobLinkedOnce
<1>4. QED BY <1>2, <1>3 DEF Pool, Take, Test, Error, WouldBlock, ReadSome, WriteSome, FailNext,
             Return, Rejoin, Drop, conn

\* The epoll thread looks at a direction exactly while it is not waiting.
LEMMA EpollTypes ==
  ASSUME SchedIInv, Epoll, sched' \in [Directions -> Nat]
  PROVE  TypeOK' /\ Control' /\ Sorted'
<1>0. TypeOK /\ Control /\ Sorted
  BY DEF SchedIInv, SchedExact
<1>1. /\ ref \in Int /\ job \in [Directions -> Nat]
      /\ epoll \in {"wait", "count", "uncount", "claim", "post"}
      /\ todo \subseteq Directions /\ watched \in Directions \cup {NoDir}
      /\ watched \in Directions <=> epoll # "wait"
  BY <1>0 DEF TypeOK, Control
<1>2. /\ ref' \in Int /\ job' \in [Directions -> Nat]
  <2>1. ref' = ref \/ ref' = ref + 1
    BY DEF Epoll, Event, Look, EpollCount, EpollUncount, EpollClaim, EpollPost, HangUp, conn
  <2>2. job' = job \/ job' = [job EXCEPT ![watched] = @ + 1]
    BY DEF Epoll, Event, Look, EpollCount, EpollUncount, EpollClaim, EpollPost, HangUp, conn
  <2>3. ref' \in Int
    BY <1>1, <2>1
  <2>4. job' \in [Directions -> Nat]
    BY <1>1, <2>2
  <2>5. QED BY <2>3, <2>4
<1>3. /\ epoll' \in {"wait", "count", "uncount", "claim", "post"}
      /\ todo' \subseteq Directions /\ watched' \in Directions \cup {NoDir}
      /\ watched' \in Directions <=> epoll' # "wait"
  BY <1>1 DEF Epoll, Event, Look, EpollCount, EpollUncount, EpollClaim, EpollPost, HangUp, epolls,
              Directions, NoDir
<1>4. /\ edge' = edge \/ edge' = FALSE
      /\ UNCHANGED <<freed, closed, list, users, pools, pending, link, units, supply, history>>
      /\ closer' = closer \/ (closer = "none" /\ closer' = "mark")
  BY DEF Epoll, Event, Look, EpollCount, EpollUncount, EpollClaim, EpollPost, HangUp, conn, closers,
         kernel
<1>5. TypeOK'
  BY <1>0, <1>2, <1>3, <1>4 DEF TypeOK, users, pools, history
<1>6. Control'
  BY <1>0, <1>3, <1>4 DEF Control
<1>7. Sorted'
  BY <1>0, <1>4 DEF Sorted, pools
<1>8. QED BY <1>5, <1>6, <1>7

\* So does the epoll thread, which may have looked at the counter long before.
LEMMA EpollKeeps ==
  ASSUME SchedIInv, Epoll
  PROVE  SchedIInv'
<1> DEFINE w == watched
<1>0. /\ TypeOK /\ (w \in Directions <=> epoll # "wait")
      /\ sched \in [Directions -> Nat] /\ job \in [Directions -> Nat]
  BY DEF SchedIInv, SchedExact, Control, TypeOK
<1>1. \A d \in Directions :
         /\ sched[d] = job[d] + Cardinality(Counted(d)) + If(EpollCounted(d))
         /\ job[d] + Cardinality(Claiming(d)) + If(EpollClaiming(d)) <= 1
         /\ Cardinality(Counted(d)) \in Nat /\ Cardinality(Claiming(d)) \in Nat
         /\ Cardinality(Claiming(d)) <= Cardinality(Counted(d))
         /\ sched[d] \in Nat /\ job[d] \in Nat
  BY <1>0, CountedFinite, ClaimingBelowCounted DEF SchedIInv, SchedExact, JobLinkedOnce
<1>2. \A d \in Directions : Counted(d)' = Counted(d) /\ Claiming(d)' = Claiming(d)
  BY DEF Epoll, Event, Look, EpollCount, EpollUncount, EpollClaim, EpollPost, HangUp, users,
         Counted, Claiming
<1>3. CASE Event \/ HangUp \/ EpollClaim \/ \E d \in Directions : Look(d)
  <2>1. UNCHANGED <<sched, job>>
    BY <1>3 DEF Event, HangUp, EpollClaim, Look, conn
  <2>2. \A d \in Directions : /\ EpollCounted(d)' <=> EpollCounted(d)
                              /\ EpollClaiming(d)' <=> EpollClaiming(d)
    BY <1>3 DEF Event, HangUp, EpollClaim, Look, epolls, EpollCounted, EpollClaiming
  <2>3. \A d \in Directions : /\ If(EpollCounted(d))' = If(EpollCounted(d))
                              /\ If(EpollClaiming(d))' = If(EpollClaiming(d))
    BY <2>2 DEF If
  <2>4. TypeOK' /\ Control' /\ Sorted'
    BY <1>0, <2>1, EpollTypes
  <2>5. QED BY <1>1, <1>2, <2>1, <2>3, <2>4 DEF SchedIInv, SchedExact, JobLinkedOnce
<1>4. CASE EpollCount
  <2>1. /\ epoll = "count" /\ w \in Directions /\ watched' = w /\ job' = job
        /\ sched' = [sched EXCEPT ![w] = @ + 1]
        /\ epoll' = IF sched[w] = 0 THEN "claim" ELSE "uncount"
    BY <1>0, <1>4 DEF EpollCount
  <2>2. \A d \in Directions :
           /\ If(EpollCounted(d)) = 0 /\ If(EpollClaiming(d)) = 0
           /\ If(EpollCounted(d))' = If(d = w)
           /\ If(EpollClaiming(d))' = If(d = w /\ sched[w] = 0)
    BY <2>1 DEF If, EpollCounted, EpollClaiming
  <2>3. /\ sched' \in [Directions -> Nat]
        /\ \A d \in Directions : sched'[d] = sched[d] + If(d = w)
    BY <1>0, <2>1 DEF If
  <2>4. TypeOK' /\ Control' /\ Sorted'
    BY <2>3, EpollTypes
  <2>5. \A d \in Directions :
           /\ sched'[d] = job'[d] + Cardinality(Counted(d)') + If(EpollCounted(d))'
           /\ job'[d] + Cardinality(Claiming(d)') + If(EpollClaiming(d))' <= 1
    BY <1>1, <1>2, <2>1, <2>2, <2>3 DEF If
  <2>6. QED BY <2>4, <2>5 DEF SchedIInv, SchedExact, JobLinkedOnce
<1>5. CASE EpollUncount
  <2>1. /\ epoll = "uncount" /\ w \in Directions /\ epoll' = "wait" /\ job' = job
        /\ sched' = [sched EXCEPT ![w] = @ - 1]
    BY <1>0, <1>5 DEF EpollUncount
  <2>2. \A d \in Directions :
           /\ If(EpollCounted(d)) = If(d = w) /\ If(EpollClaiming(d)) = 0
           /\ If(EpollCounted(d))' = 0 /\ If(EpollClaiming(d))' = 0
    BY <2>1 DEF If, EpollCounted, EpollClaiming
  <2>3. sched[w] - 1 \in Nat
    BY <1>1, <2>1, <2>2 DEF If
  <2>4. /\ sched' \in [Directions -> Nat]
        /\ \A d \in Directions : sched'[d] = sched[d] - If(d = w)
    BY <1>0, <2>1, <2>3 DEF If
  <2>5. TypeOK' /\ Control' /\ Sorted'
    BY <2>4, EpollTypes
  <2>6. \A d \in Directions :
           /\ sched'[d] = job'[d] + Cardinality(Counted(d)') + If(EpollCounted(d))'
           /\ job'[d] + Cardinality(Claiming(d)') + If(EpollClaiming(d))' <= 1
    BY <1>1, <1>2, <2>1, <2>2, <2>4 DEF If
  <2>7. QED BY <2>5, <2>6 DEF SchedIInv, SchedExact, JobLinkedOnce
<1>6. CASE EpollPost
  <2>1. /\ epoll = "post" /\ w \in Directions /\ epoll' = "wait" /\ sched' = sched
        /\ job' = [job EXCEPT ![w] = @ + 1]
    BY <1>0, <1>6 DEF EpollPost
  <2>2. \A d \in Directions :
           /\ If(EpollCounted(d)) = If(d = w) /\ If(EpollClaiming(d)) = If(d = w)
           /\ If(EpollCounted(d))' = 0 /\ If(EpollClaiming(d))' = 0
    BY <2>1 DEF If, EpollCounted, EpollClaiming
  <2>3. \A d \in Directions : job'[d] = job[d] + If(d = w)
    BY <1>0, <2>1 DEF If
  <2>4. TypeOK' /\ Control' /\ Sorted'
    BY <1>0, <2>1, EpollTypes
  <2>5. \A d \in Directions :
           /\ sched'[d] = job'[d] + Cardinality(Counted(d)') + If(EpollCounted(d))'
           /\ job'[d] + Cardinality(Claiming(d)') + If(EpollClaiming(d))' <= 1
    BY <1>1, <1>2, <2>1, <2>2, <2>3 DEF If
  <2>6. QED BY <2>4, <2>5 DEF SchedIInv, SchedExact, JobLinkedOnce
<1>7. QED BY <1>3, <1>4, <1>5, <1>6 DEF Epoll

\* socketCloseConnection takes the lists but no job.
LEMMA CloserKeeps ==
  ASSUME SchedIInv, Closer
  PROVE  SchedIInv'
<1>0. TypeOK /\ Control /\ Sorted
  BY DEF SchedIInv, SchedExact
<1>1. UNCHANGED <<sched, job, op, epoll, watched>>
  BY DEF Closer, Mark, Drain, FailPending, OnClose, CloserDrop, conn, users, epolls
<1>2. UNCHANGED <<left, pools, todo, kernel, history>>
  BY DEF Closer, Mark, Drain, FailPending, OnClose, CloserDrop, users, epolls
<1>3. /\ list' \in [Directions -> Seq(Ops)] /\ pending' \in Seq(Ops)
      /\ \A d \in Directions : list'[d] \in Seq(OpsOf(d))
  <2>1. /\ list \in [Directions -> Seq(Ops)] /\ pending \in Seq(Ops)
        /\ \A d \in Directions : list[d] \in Seq(OpsOf(d))
    BY <1>0 DEF TypeOK, Sorted
  <2>2. CASE \E d \in Directions : Drain(d)
    <3>1. PICK d \in Directions : pending' = list[d] /\ list' = [list EXCEPT ![d] = <<>>]
      BY <2>2 DEF Drain
    <3>2. pending' \in Seq(Ops)
      BY <2>1, <3>1
    <3>3. \A e \in Directions : list'[e] = IF e = d THEN <<>> ELSE list[e]
      BY <2>1, <3>1
    <3>4. list' \in [Directions -> Seq(Ops)]
      BY <2>1, <3>1
    <3>5. \A e \in Directions : list'[e] \in Seq(OpsOf(e))
      <4>1. \A e \in Directions : <<>> \in Seq(OpsOf(e))
        OBVIOUS
      <4>2. QED BY <2>1, <3>3, <4>1
    <3>6. QED BY <3>2, <3>4, <3>5
  <2>3. CASE list' = list /\ (pending' = pending \/ (pending # <<>> /\ pending' = Tail(pending)))
    <3>1. pending # <<>> => Tail(pending) \in Seq(Ops)
      BY <2>1, HeadTailProperties
    <3>2. QED BY <2>1, <2>3, <3>1
  <2>4. QED BY <2>2, <2>3 DEF Closer, Mark, FailPending, OnClose, CloserDrop, conn
<1>4. /\ ref' \in Int /\ freed' \in BOOLEAN /\ calls' \in [Ops -> Nat]
  <2>1. ref \in Int /\ freed \in BOOLEAN /\ calls \in [Ops -> Nat]
    BY <1>0 DEF TypeOK
  <2>2. /\ ref' = ref \/ ref' = ref - 1
        /\ freed' = freed \/ freed' = (freed \/ ref = 1)
        /\ calls' = calls \/ calls' = [calls EXCEPT ![Head(pending)] = @ + 1]
    BY DEF Closer, Mark, Drain, FailPending, OnClose, CloserDrop, IODone, conn, users
  <2>3. ref' \in Int
    BY <2>1, <2>2
  <2>4. (freed \/ ref = 1) \in BOOLEAN
    OBVIOUS
  <2>5. freed' \in BOOLEAN
    BY <2>1, <2>2, <2>4, Zenon
  <2>6. calls' \in [Ops -> Nat]
    BY <2>1, <2>2
  <2>7. QED BY <2>3, <2>5, <2>6
<1>5. /\ closed' \in 0..1
      /\ closed' = 0 <=> closer' \in {"none", "mark"}
      /\ closer' \in {"none", "mark", "marked", "fail reads", "fail writes", "drop", "end"}
  <2>1. /\ closed \in 0..1 /\ (closed = 0 <=> closer \in {"none", "mark"})
        /\ closer \in {"none", "mark", "marked", "fail reads", "fail writes", "drop", "end"}
    BY <1>0 DEF TypeOK, Control
  <2>2. CASE Mark
    BY <2>1, <2>2 DEF Mark
  <2>3. CASE \E d \in Directions : Drain(d)
    BY <2>1, <2>3 DEF Drain
  <2>4. CASE FailPending \/ OnClose \/ CloserDrop
    BY <2>1, <2>4 DEF FailPending, OnClose, CloserDrop, conn
  <2>5. QED BY <2>2, <2>3, <2>4 DEF Closer
<1>6. TypeOK'
  BY <1>0, <1>1, <1>2, <1>3, <1>4, <1>5 DEF TypeOK, pools, kernel, history
<1>7. Control'
  BY <1>0, <1>1, <1>5 DEF Control
<1>8. Sorted'
  BY <1>0, <1>2, <1>3 DEF Sorted, pools
<1>9. QED BY <1>1, <1>6, <1>7, <1>8, KeepsSched DEF SchedIInv

\* The kernel and the peer touch nothing of the connection.
LEMMA KernelKeeps ==
  ASSUME SchedIInv, Kernel \/ Traffic
  PROVE  SchedIInv'
<1>0. TypeOK /\ Control /\ Sorted
  BY DEF SchedIInv, SchedExact
<1>1. UNCHANGED <<conn, users, pools, epolls, closers, history>>
  BY DEF Kernel, Traffic, PeerShutdown, GoDown, Arrive
<1>2. /\ link' \in {"up", "eof", "down"} /\ edge' \in BOOLEAN
      /\ units' \in [Directions -> Nat] /\ supply' \in [Directions -> Nat]
  <2>1. /\ link \in {"up", "eof", "down"} /\ edge \in BOOLEAN
        /\ units \in [Directions -> Nat] /\ supply \in [Directions -> Nat]
    BY <1>0 DEF TypeOK
  <2>2. CASE PeerShutdown \/ GoDown \/ Traffic
    BY <2>1, <2>2 DEF PeerShutdown, GoDown, Traffic
  <2>3. ASSUME NEW d \in Directions, Arrive(d)
        PROVE  /\ link' = link /\ edge' = TRUE
               /\ units' \in [Directions -> Nat] /\ supply' \in [Directions -> Nat]
    <3>1. units[d] + 1 \in Nat /\ supply[d] - 1 \in Nat
      BY <2>1, <2>3 DEF Arrive
    <3>2. QED BY <2>1, <2>3, <3>1 DEF Arrive
  <2>4. QED BY <2>1, <2>2, <2>3 DEF Kernel
<1>3. TypeOK'
  BY <1>0, <1>1, <1>2 DEF TypeOK, conn, users, pools, epolls, closers, history
<1>4. Control' /\ Sorted'
  BY <1>0, <1>1, KeepsControl DEF conn, pools, epolls, closers
<1>5. QED BY <1>1, <1>3, <1>4, KeepsSched DEF SchedIInv, conn, users, epolls

-----------------------------------------------------------------------------
(* The theorems *)

\* In a new connection nothing is scheduled.
LEMMA InitSched == Init => SchedIInv
<1> HAVE Init
<1>1. TypeOK
  <2>1. /\ <<>> \in Seq(Ops) /\ <<>> \in Seq(Writes)
        /\ Size \in [Ops -> Nat] /\ Ready \in [Directions -> Nat] /\ Supply \in [Directions -> Nat]
    BY ConnectionAssumption
  <2>2. /\ ref \in Int /\ freed \in BOOLEAN /\ closed \in 0..1 /\ edge \in BOOLEAN
        /\ epoll = "wait" /\ todo = {} /\ watched = NoDir /\ closer = "none" /\ link = "up"
        /\ pending \in Seq(Ops) /\ order \in Seq(Writes) /\ wire \in Seq(Writes)
        /\ left \in [Ops -> Nat] /\ units \in [Directions -> Nat] /\ supply \in [Directions -> Nat]
    <3>0. freed = FALSE /\ edge = TRUE
      BY DEF Init
    <3>1. /\ ref = 1 /\ closed = 0
          /\ epoll = "wait" /\ todo = {} /\ watched = NoDir /\ closer = "none" /\ link = "up"
          /\ pending = <<>> /\ order = <<>> /\ wire = <<>>
          /\ left = Size /\ units = Ready /\ supply = Supply
      BY DEF Init
    <3>2. ref \in Int /\ closed \in 0..1
      BY <3>1
    <3>3. freed \in BOOLEAN /\ edge \in BOOLEAN
      BY <3>0, Zenon
    <3>4. QED BY <2>1, <3>1, <3>2, <3>3
  <2>3. /\ list \in [Directions -> Seq(Ops)] /\ batch \in [Directions -> Seq(Ops)]
        /\ sched \in [Directions -> Nat] /\ job \in [Directions -> Nat] /\ calls \in [Ops -> Nat]
        /\ op \in [Ops -> {"idle"}] /\ pool \in [Directions -> {"idle"}]
        /\ next \in [Directions -> {"idle"}] /\ cur \in [Directions -> {NoOp}]
    BY <2>1 DEF Init
  <2>4. QED BY <2>2, <2>3 DEF TypeOK, PoolPoints
<1>2. \A d \in Directions : /\ Counted(d) = {} /\ Claiming(d) = {}
                            /\ ~EpollCounted(d) /\ ~EpollClaiming(d)
                            /\ sched[d] = 0 /\ job[d] = 0
  BY DEF Init, Counted, Claiming, EpollCounted, EpollClaiming, Directions, NoDir
<1>3. SchedExact /\ JobLinkedOnce
  BY <1>1, <1>2, FS_EmptySet DEF SchedExact, JobLinkedOnce, If
<1>4. Control /\ Sorted
  BY DEF Init, Control, Sorted, Directions, NoDir
<1>5. QED BY <1>3, <1>4 DEF SchedIInv

\* Every step keeps the scheduling invariant, traffic or none.
LEMMA SchedStep == SchedIInv /\ [NextTraffic]_vars => SchedIInv'
<1> SUFFICES ASSUME SchedIInv, [NextTraffic]_vars PROVE SchedIInv'
  OBVIOUS
<1>1. CASE User
  BY <1>1, CallersKeep DEF User
<1>2. CASE \E d \in Directions : Pool(d)
  BY <1>2, PoolKeeps
<1>3. CASE Epoll
  BY <1>3, EpollKeeps
<1>4. CASE Closer
  BY <1>4, CloserKeeps
<1>5. CASE Kernel \/ Traffic
  BY <1>5, KernelKeeps
<1>6. CASE UNCHANGED vars
  <2>1. UNCHANGED <<conn, users, pools, epolls, closers, kernel, history>>
    BY <1>6 DEF vars
  <2>2. TypeOK /\ Control /\ Sorted
    BY DEF SchedIInv, SchedExact
  <2>3. TypeOK'
    BY <2>1, <2>2 DEF TypeOK, conn, users, pools, epolls, closers, kernel, history
  <2>4. Control' /\ Sorted'
    BY <2>1, <2>2, KeepsControl DEF conn, pools, epolls, closers
  <2>5. QED BY <2>1, <2>3, <2>4, KeepsSched DEF SchedIInv, conn, users, epolls
<1>7. QED BY <1>1, <1>2, <1>3, <1>4, <1>5, <1>6 DEF NextTraffic, Next

\* The inductive invariant holds of both specifications.
THEOREM SchedInvariance == (Spec => []SchedIInv) /\ (TrafficSpec => []SchedIInv)
<1>1. [Next]_vars => [NextTraffic]_vars
  BY DEF NextTraffic
<1>2. QED BY <1>1, InitSched, SchedStep, PTL DEF Spec, TrafficSpec

\* is_reading and is_writing are, at any time, the number of jobs in the pool plus that of
\* the threads between their increment and what it leads to: none is lost and none is left
\* behind, however the callers, the pool and the epoll thread interleave.
THEOREM SchedulingIsExact == Spec => []SchedExact
<1>1. SchedIInv => SchedExact
  BY DEF SchedIInv
<1>2. QED BY <1>1, SchedInvariance, PTL

\* read_job and write_job, which are list elements, are never put into the pool again while
\* they are there or while another thread is about to put them there.
THEOREM JobIsLinkedOnce == Spec => []JobLinkedOnce
<1>1. SchedIInv => JobLinkedOnce
  BY DEF SchedIInv
<1>2. QED BY <1>1, SchedInvariance, PTL

-----------------------------------------------------------------------------
(* The places of a context, and the references *)

\* What a pool thread has at hand between jobs and in a callback, and what the epoll
\* thread still has to do when the connection closes.
Hands == /\ \A d \in Directions : /\ pool[d] \in {"idle", "take"} => batch[d] = <<>>
                                  /\ pool[d] = "call" => cur[d] \in Ops /\ next[d] # "idle"
         /\ closer # "none" => epoll = "wait" /\ todo = {}

PlaceIInv == SchedIInv /\ CalledOnce /\ Hands

-----------------------------------------------------------------------------
(* Sequences without repetition *)

\* An empty list holds no context.
LEMMA EmptyList == Range(<<>>) = {} /\ IsInjective(<<>>)
  BY DEF Range, IsInjective

\* listAddTail adds one context.
LEMMA AppendList ==
  ASSUME NEW S, NEW s \in Seq(S), NEW o \in S
  PROVE  /\ Range(Append(s, o)) = Range(s) \cup {o}
         /\ IsInjective(s) /\ o \notin Range(s) => IsInjective(Append(s, o))
<1> DEFINE t == Append(s, o)
<1>1. /\ DOMAIN t = 1..(Len(s) + 1) /\ DOMAIN s = 1..Len(s) /\ Len(s) \in Nat
      /\ \A i \in 1..Len(s) : t[i] = s[i]
      /\ t[Len(s) + 1] = o
  OBVIOUS
<1> HIDE DEF t
<1>2. Range(t) = Range(s) \cup {o}
  BY <1>1 DEF Range
<1>3. ASSUME IsInjective(s), o \notin Range(s) PROVE IsInjective(t)
  BY <1>1, <1>3 DEF IsInjective, Range
<1>4. QED BY <1>2, <1>3 DEF t

\* Taking the first context of a list leaves the others.
LEMMA TailList ==
  ASSUME NEW S, NEW s \in Seq(S), s # <<>>, IsInjective(s)
  PROVE  /\ Head(s) \in Range(s) /\ Head(s) \in S
         /\ Range(Tail(s)) = Range(s) \ {Head(s)} /\ IsInjective(Tail(s))
<1>1. /\ DOMAIN s = 1..Len(s) /\ Len(s) \in Nat /\ Len(s) >= 1
      /\ DOMAIN Tail(s) = 1..(Len(s) - 1)
      /\ \A i \in 1..(Len(s) - 1) : Tail(s)[i] = s[i + 1]
      /\ Head(s) = s[1] /\ Head(s) \in S
  BY HeadTailProperties
<1>2. IsInjective(Tail(s))
  BY <1>1 DEF IsInjective
<1>3. \A i \in 1..(Len(s) - 1) : Tail(s)[i] # Head(s)
  BY <1>1 DEF IsInjective
<1>4. ASSUME NEW i \in 2..Len(s) PROVE s[i] \in Range(Tail(s))
  <2>1. i - 1 \in DOMAIN Tail(s) /\ Tail(s)[i - 1] = s[i]
    BY <1>1
  <2>2. QED BY <2>1 DEF Range
<1>5. Range(Tail(s)) = Range(s) \ {Head(s)}
  <2>1. \A x \in Range(Tail(s)) : x \in Range(s) /\ x # Head(s)
    BY <1>1, <1>3 DEF Range
  <2>2. ASSUME NEW x \in Range(s), x # Head(s) PROVE x \in Range(Tail(s))
    <3>1. PICK i \in 1..Len(s) : x = s[i]
      BY <1>1 DEF Range
    <3>2. i \in 2..Len(s)
      BY <1>1, <2>2, <3>1
    <3>3. QED BY <1>4, <3>1, <3>2
  <2>3. QED BY <2>1, <2>2
<1>6. Head(s) \in Range(s)
  <2>1. 1 \in DOMAIN s /\ s[1] = Head(s)
    BY <1>1
  <2>2. QED BY <2>1 DEF Range
<1>7. QED BY <1>1, <1>2, <1>5, <1>6

\* listJoinInit joins two lists.
LEMMA JoinList ==
  ASSUME NEW S, NEW s \in Seq(S), NEW t \in Seq(S)
  PROVE  /\ Range(s \o t) = Range(s) \cup Range(t)
         /\ IsInjective(s) /\ IsInjective(t) /\ Range(s) \cap Range(t) = {} => IsInjective(s \o t)
<1> DEFINE u == s \o t
<1>1. /\ DOMAIN u = 1..(Len(s) + Len(t)) /\ Len(s) \in Nat /\ Len(t) \in Nat
      /\ DOMAIN s = 1..Len(s) /\ DOMAIN t = 1..Len(t)
      /\ \A i \in 1..(Len(s) + Len(t)) : u[i] = IF i <= Len(s) THEN s[i] ELSE t[i - Len(s)]
  BY ConcatProperties
<1> HIDE DEF u
<1>2. Range(u) = Range(s) \cup Range(t)
  <2>1. Range(s) \subseteq Range(u)
    BY <1>1 DEF Range
  <2>2. ASSUME NEW j \in 1..Len(t) PROVE t[j] \in Range(u)
    <3>1. Len(s) + j \in DOMAIN u /\ u[Len(s) + j] = t[j]
      BY <1>1
    <3>2. QED BY <3>1 DEF Range
  <2>3. \A i \in DOMAIN u : u[i] \in Range(s) \cup Range(t)
    BY <1>1 DEF Range
  <2>4. QED BY <1>1, <2>1, <2>2, <2>3 DEF Range
<1>3. ASSUME IsInjective(s), IsInjective(t), Range(s) \cap Range(t) = {} PROVE IsInjective(u)
  <2> SUFFICES ASSUME NEW i \in DOMAIN u, NEW j \in DOMAIN u, u[i] = u[j] PROVE i = j
    BY DEF IsInjective
  <2>1. CASE i <= Len(s) /\ j <= Len(s)
    BY <1>1, <1>3, <2>1 DEF IsInjective
  <2>2. CASE i > Len(s) /\ j > Len(s)
    <3>1. i - Len(s) \in DOMAIN t /\ j - Len(s) \in DOMAIN t /\ t[i - Len(s)] = t[j - Len(s)]
      BY <1>1, <2>2
    <3>2. i - Len(s) = j - Len(s)
      BY <1>3, <3>1 DEF IsInjective
    <3>3. QED BY <1>1, <3>2
  <2>3. CASE i <= Len(s) /\ j > Len(s)
    <3>1. i \in DOMAIN s /\ u[i] = s[i] /\ j - Len(s) \in DOMAIN t /\ u[j] = t[j - Len(s)]
      BY <1>1, <2>3
    <3>2. QED BY <1>3, <3>1 DEF Range
  <2>4. CASE i > Len(s) /\ j <= Len(s)
    <3>1. j \in DOMAIN s /\ u[j] = s[j] /\ i - Len(s) \in DOMAIN t /\ u[i] = t[i - Len(s)]
      BY <1>1, <2>4
    <3>2. QED BY <1>3, <3>1 DEF Range
  <2>5. QED BY <1>1, <2>1, <2>2, <2>3, <2>4
<1>4. QED BY <1>2, <1>3 DEF u

-----------------------------------------------------------------------------
(* Each context is in one place and called back once *)

\* The places of a direction's contexts are told apart.
Apart(d) == /\ IsInjective(list[d]) /\ IsInjective(batch[d])
            /\ Range(list[d]) \cap Range(batch[d]) = {}
            /\ Local(d) \cap InCallback(d) = {}

\* What has begun and is not over: connRead or connWrite have linked its context.
Linked(o) == op[o] \notin {"idle", "refused", "hold", "link"}

\* The invariant, in terms of the contexts each direction holds.
LEMMA CalledOnceMeans ==
  CalledOnce <=> /\ IsInjective(pending)
                 /\ \A d \in Directions : /\ Apart(d) /\ Held(d) \cap Range(pending) = {}
                                          /\ \A o \in Held(d) : Dir(o) = d
                 /\ \A o \in Ops : IF Linked(o) THEN calls[o] = 1 - If(HeldBySomeone(o))
                                                ELSE calls[o] = 0 /\ ~HeldBySomeone(o)
  BY DEF CalledOnce, Separate, Apart, Linked
LEMMA CalledOnceNext ==
  ASSUME IsInjective(pending'),
         \A d \in Directions : /\ Apart(d)' /\ Held(d)' \cap Range(pending') = {}
                               /\ \A o \in Held(d)' : Dir(o) = d,
         \A o \in Ops : IF Linked(o)' THEN calls'[o] = 1 - If(HeldBySomeone(o))'
                                       ELSE calls'[o] = 0 /\ ~HeldBySomeone(o)'
  PROVE  CalledOnce'
  BY DEF CalledOnce, Separate, Apart, Linked

\* A step that moves contexts only from one place of a direction to another one of it
\* keeps the invariant.
LEMMA MoveWithin ==
  ASSUME CalledOnce, UNCHANGED <<calls, pending>>, \A o \in Ops : Linked(o)' <=> Linked(o),
         \A d \in Directions : Apart(d)' /\ Held(d)' = Held(d)
  PROVE  CalledOnce'
<1>1. \A o \in Ops : HeldBySomeone(o)' <=> HeldBySomeone(o)
  BY DEF HeldBySomeone, Directions
<1>2. \A o \in Ops : If(HeldBySomeone(o))' = If(HeldBySomeone(o))
  BY <1>1 DEF If
<1>3. QED BY <1>1, <1>2, CalledOnceMeans, CalledOnceNext DEF Linked

\* A step that leaves all contexts where they are.
LEMMA KeepsPlaces ==
  ASSUME CalledOnce, UNCHANGED <<list, batch, cur, pending, calls>>,
         \A o \in Ops : Linked(o)' <=> Linked(o),
         \A d \in Directions : pool'[d] = "call" <=> pool[d] = "call"
  PROVE  CalledOnce'
<1>1. \A d \in Directions : /\ Local(d)' = Local(d) /\ InCallback(d)' = InCallback(d)
                            /\ list'[d] = list[d] /\ batch'[d] = batch[d]
  BY DEF Local, InCallback
<1>2. \A d \in Directions : Apart(d)' /\ Held(d)' = Held(d)
  BY <1>1, CalledOnceMeans DEF Apart, Held
<1>3. QED BY <1>2, MoveWithin

\* connRead and connWrite put a context into the list of its direction when it is in no
\* other place; their other steps move none.
LEMMA CallersPlace ==
  ASSUME PlaceIInv, NEW o \in Ops, Refuse(o) \/ Enter(o) \/ Call(o)
  PROVE  CalledOnce' /\ Hands'
<1>0. TypeOK /\ Sorted /\ CalledOnce /\ Hands
  BY DEF PlaceIInv, SchedIInv, SchedExact
<1>1. Hands'
  BY <1>0 DEF Hands, Refuse, Enter, Call, Hold, Link, Count, Uncount, Claim, Post, pools, epolls,
              closers
<1>2. CASE Refuse(o) \/ Enter(o) \/ Hold(o) \/ Count(o) \/ Uncount(o) \/ Claim(o) \/ Post(o)
  <2>1. UNCHANGED <<list, batch, cur, pool, pending, calls>>
    BY <1>2 DEF Refuse, Enter, Hold, Count, Uncount, Claim, Post, conn, pools, closers
  <2>2. \A p \in Ops : Linked(p)' <=> Linked(p)
    <3>1. \E pc : /\ op' = [op EXCEPT ![o] = pc]
                  /\ op[o] \in {"idle", "refused", "hold", "link"}
                        <=> pc \in {"idle", "refused", "hold", "link"}
      BY <1>2 DEF Refuse, Enter, Hold, Count, Uncount, Claim, Post
    <3>2. QED BY <1>0, <3>1 DEF TypeOK, Linked
  <2>3. QED BY <1>0, <1>1, <2>1, <2>2, KeepsPlaces
<1>3. CASE Link(o)
  <2> DEFINE D == Dir(o)
  <2>1. /\ D \in Directions
        /\ op[o] = "link" /\ op' = [op EXCEPT ![o] = "count"]
        /\ list' = [list EXCEPT ![D] = Append(@, o)]
        /\ UNCHANGED <<batch, cur, pool, pending, calls>>
    BY <1>3, DirType DEF Link, pools, closers
  <2>2. ~Linked(o) /\ calls[o] = 0 /\ ~HeldBySomeone(o)
    BY <1>0, <2>1, CalledOnceMeans DEF Linked
  <2>3. /\ o \notin Held("read") /\ o \notin Held("write") /\ o \notin Range(pending)
        /\ \A d \in Directions : o \notin Held(d)
    BY <2>2 DEF HeldBySomeone, Directions
  <2>4. /\ list[D] \in Seq(Ops)
        /\ list'[D] = Append(list[D], o)
        /\ \A d \in Directions : d # D => list'[d] = list[d]
    BY <1>0, <2>1 DEF TypeOK
  <2>5. Range(list'[D]) = Range(list[D]) \cup {o} /\ IsInjective(list'[D])
    <3>1. IsInjective(list[D]) /\ o \notin Range(list[D])
      BY <1>0, <2>1, <2>3, CalledOnceMeans DEF Apart, Held, Local
    <3>2. QED BY <2>4, <3>1, AppendList
  <2>6. \A d \in Directions : Held(d)' = IF d = D THEN Held(d) \cup {o} ELSE Held(d)
    BY <2>1, <2>4, <2>5 DEF Held, Local, InCallback
  <2>7. \A d \in Directions : Apart(d)'
    <3> SUFFICES ASSUME NEW d \in Directions PROVE Apart(d)'
      OBVIOUS
    <3>1. Apart(d) /\ o \notin Range(list[d]) \cup Range(batch[d]) \cup InCallback(d)
      BY <1>0, <2>3, CalledOnceMeans DEF Held, Local
    <3>2. CASE d = D
      BY <2>1, <2>5, <3>1, <3>2 DEF Apart, Local, InCallback
    <3>3. CASE d # D
      BY <2>1, <2>4, <3>1, <3>3 DEF Apart, Local, InCallback
    <3>4. QED BY <3>2, <3>3
  <2>8. \A p \in Ops : HeldBySomeone(p)' <=> (p = o \/ HeldBySomeone(p))
    BY <2>1, <2>6 DEF HeldBySomeone, Directions
  <2>9. \A p \in Ops : Linked(p)' <=> (p = o \/ Linked(p))
    BY <1>0, <2>1 DEF TypeOK, Linked
  <2>10. \A p \in Ops : IF Linked(p)' THEN calls[p] = 1 - If(HeldBySomeone(p))'
                                      ELSE calls[p] = 0 /\ ~HeldBySomeone(p)'
    BY <1>0, <2>2, <2>8, <2>9, CalledOnceMeans DEF If
  <2>11. \A d \in Directions : /\ Held(d)' \cap Range(pending') = {}
                               /\ \A p \in Held(d)' : Dir(p) = d
    BY <1>0, <2>1, <2>3, <2>6, CalledOnceMeans
  <2>12. IsInjective(pending')
    BY <1>0, <2>1, CalledOnceMeans
  <2>13. calls' = calls
    BY <2>1
  <2>14. CalledOnce'
    BY <2>7, <2>10, <2>11, <2>12, <2>13, CalledOnceNext
  <2>15. QED BY <1>1, <2>14
<1>4. QED BY <1>2, <1>3 DEF Call

\* A pool thread moves contexts between the list of its direction, its batch and the
\* callback; only the return of a callback lets one go.
LEMMA PoolPlace ==
  ASSUME PlaceIInv, NEW d \in Directions, Pool(d)
  PROVE  CalledOnce' /\ Hands'
<1>0. TypeOK /\ Sorted /\ CalledOnce /\ Hands
  BY DEF PlaceIInv, SchedIInv, SchedExact
<1>1. /\ list[d] \in Seq(Ops) /\ batch[d] \in Seq(Ops) /\ pool[d] \in PoolPoints
      /\ Apart(d) /\ (pool[d] \in {"idle", "take"} => batch[d] = <<>>)
      /\ (pool[d] = "call" => cur[d] \in Ops /\ next[d] # "idle")
  BY <1>0, CalledOnceMeans DEF TypeOK, Hands
<1>2. UNCHANGED <<op, epolls, closers>> /\ \A p \in Ops : Linked(p)' <=> Linked(p)
  BY DEF Pool, Start, Take, Test, Error, WouldBlock, ReadSome, WriteSome, FailNext, Return, Rejoin,
         Drop, users, Linked
<1>3. \A e \in Directions : e # d => /\ list'[e] = list[e] /\ batch'[e] = batch[e]
                                     /\ cur'[e] = cur[e] /\ pool'[e] = pool[e] /\ next'[e] = next[e]
  <2>1. /\ list' = list \/ \E x : list' = [list EXCEPT ![d] = x]
        /\ batch' = batch \/ \E x : batch' = [batch EXCEPT ![d] = x]
        /\ cur' = cur \/ \E x : cur' = [cur EXCEPT ![d] = x]
        /\ pool' = pool \/ \E x : pool' = [pool EXCEPT ![d] = x]
        /\ next' = next \/ \E x : next' = [next EXCEPT ![d] = x]
    BY DEF Pool, Start, Take, Test, Error, WouldBlock, ReadSome, WriteSome, CallBack, FailNext, Return,
           Rejoin, Drop, conn
  <2>2. QED BY <1>0, <2>1 DEF TypeOK
<1>4. ASSUME /\ Apart(d)' /\ Held(d)' = Held(d) /\ UNCHANGED calls
             /\ pool'[d] \in {"idle", "take"} => batch'[d] = <<>>
             /\ pool'[d] = "call" => cur'[d] \in Ops /\ next'[d] # "idle"
      PROVE  CalledOnce' /\ Hands'
  <2>1. \A e \in Directions : Apart(e)' /\ Held(e)' = Held(e)
    <3>1. ASSUME NEW e \in Directions, e # d PROVE Apart(e)' /\ Held(e)' = Held(e)
      <4>1. Apart(e)
        BY <1>0, CalledOnceMeans
      <4>2. QED BY <1>3, <3>1, <4>1 DEF Apart, Held, Local, InCallback
    <3>2. QED BY <1>4, <3>1
  <2>2. CalledOnce'
    BY <1>0, <1>2, <1>4, <2>1, MoveWithin DEF closers
  <2>3. Hands'
    BY <1>0, <1>2, <1>3, <1>4 DEF Hands, epolls, closers
  <2>4. QED BY <2>2, <2>3
<1>5. CASE Start(d) \/ Test(d) \/ Error(d) \/ WouldBlock(d) \/ Drop(d)
           \/ (d = "write" /\ WriteSome /\ pool' = [pool EXCEPT ![d] = "rejoin"] /\ batch' = batch)
  <2>1. /\ UNCHANGED <<list, batch, cur, calls>>
        /\ pool[d] # "call" /\ pool'[d] # "call"
        /\ pool'[d] \in {"idle", "take"} => batch[d] = <<>>
    <3>1. pool \in [Directions -> PoolPoints]
      BY <1>0 DEF TypeOK
    <3>2. CASE Start(d) \/ Test(d) \/ Error(d) \/ WouldBlock(d) \/ Drop(d)
      BY <1>1, <3>1, <3>2 DEF Start, Test, Error, WouldBlock, Drop, conn, users
    <3>3. CASE d = "write" /\ WriteSome /\ pool' = [pool EXCEPT ![d] = "rejoin"] /\ batch' = batch
      <4>1. pool'[d] = "rejoin" /\ pool[d] = "io"
        BY <3>1, <3>3 DEF WriteSome
      <4>2. cur' = cur
        BY <3>1, <3>3, <4>1 DEF WriteSome, CallBack
      <4>3. QED BY <3>3, <4>1, <4>2 DEF WriteSome, conn
    <3>4. QED BY <1>5, <3>2, <3>3
  <2>2. Held(d)' = Held(d) /\ Apart(d)'
    BY <1>1, <2>1 DEF Held, Apart, Local, InCallback
  <2>3. QED BY <1>4, <2>1, <2>2
<1>6. CASE Take(d)
  <2>1. /\ batch[d] = <<>> /\ pool[d] = "take" /\ pool'[d] = "test"
        /\ batch'[d] = list[d] /\ list'[d] = <<>> /\ UNCHANGED <<cur, calls>>
    BY <1>0, <1>1, <1>6 DEF Take, TypeOK, users
  <2>2. Held(d)' = Held(d) /\ Apart(d)'
    BY <1>1, <2>1, EmptyList DEF Held, Apart, Local, InCallback
  <2>3. QED BY <1>4, <2>1, <2>2
<1>7. CASE Rejoin(d)
  <2>1. /\ pool[d] = "rejoin" /\ pool'[d] = "io"
        /\ batch'[d] = <<>> /\ list'[d] = batch[d] \o list[d] /\ UNCHANGED <<cur, calls>>
    BY <1>0, <1>7 DEF Rejoin, TypeOK, users
  <2>2. Range(list'[d]) = Range(batch[d]) \cup Range(list[d]) /\ IsInjective(list'[d])
    BY <1>1, <2>1, JoinList DEF Apart
  <2>3. Held(d)' = Held(d) /\ Apart(d)'
    BY <1>1, <2>1, <2>2, EmptyList DEF Held, Apart, Local, InCallback
  <2>4. QED BY <1>4, <2>1, <2>3
<1>8. CASE \E pc \in {"io", "rejoin", "fail"} :
              CallBack(d, pc) /\ batch[d] # <<>> /\ pool[d] # "call" /\ UNCHANGED <<list, calls>>
  <2>1. PICK pc \in {"io", "rejoin", "fail"} : CallBack(d, pc)
    BY <1>8
  <2>2. /\ pool'[d] = "call" /\ next'[d] = pc /\ cur'[d] = Head(batch[d]) /\ batch'[d] = Tail(batch[d])
        /\ list'[d] = list[d]
    BY <1>0, <1>8, <2>1 DEF CallBack, TypeOK
  <2>3. /\ Head(batch[d]) \in Range(batch[d]) /\ Head(batch[d]) \in Ops
        /\ Range(Tail(batch[d])) = Range(batch[d]) \ {Head(batch[d])} /\ IsInjective(Tail(batch[d]))
    BY <1>1, <1>8, TailList DEF Apart
  <2>4. Held(d)' = Held(d) /\ Apart(d)'
    BY <1>1, <1>8, <2>2, <2>3 DEF Held, Apart, Local, InCallback
  <2>5. QED BY <1>4, <1>8, <2>2, <2>3, <2>4
<1>9. CASE Return(d)
  <2> DEFINE o == cur[d]
  <2>1. /\ pool[d] = "call" /\ pool'[d] = next[d] /\ UNCHANGED <<list, batch>>
        /\ calls' = [calls EXCEPT ![o] = @ + 1]
        /\ o \in Ops /\ next[d] \in {"io", "rejoin", "fail"}
    BY <1>0, <1>1, <1>9 DEF Return, TypeOK
  <2>2. Held(d) = Local(d) \cup {o} /\ o \notin Local(d)
    BY <1>1, <2>1 DEF Held, InCallback, Apart
  <2>3. Held(d)' = Held(d) \ {o} /\ Apart(d)'
    BY <1>1, <2>1, <2>2 DEF Held, InCallback, Local, Apart
  <2>4. /\ Dir(o) = d /\ o \notin Range(pending)
        /\ \A e \in Directions : e # d => o \notin Held(e)
    BY <1>0, <2>2, CalledOnceMeans
  <2>5. \A e \in Directions : Apart(e)' /\ Held(e)' = Held(e) \ {o}
    <3>1. ASSUME NEW e \in Directions, e # d PROVE Apart(e)' /\ Held(e)' = Held(e)
      <4>1. Apart(e)
        BY <1>0, CalledOnceMeans
      <4>2. QED BY <1>3, <3>1, <4>1 DEF Apart, Held, Local, InCallback
    <3>2. QED BY <2>3, <2>4, <3>1
  <2>6. pending' = pending
    BY <1>2 DEF closers
  <2>7. \A p \in Ops : HeldBySomeone(p)' <=> (p # o /\ HeldBySomeone(p))
    BY <2>4, <2>5, <2>6 DEF HeldBySomeone, Directions
  <2>8. Linked(o) /\ calls[o] = 0 /\ HeldBySomeone(o)
    <3>1. HeldBySomeone(o)
      BY <2>2 DEF HeldBySomeone, Directions
    <3>2. QED BY <1>0, <2>1, <3>1, CalledOnceMeans DEF If
  <2>9. \A p \in Ops : calls'[p] = IF p = o THEN 1 ELSE calls[p]
    <3>1. calls \in [Ops -> Nat]
      BY <1>0 DEF TypeOK
    <3>2. \A p \in Ops : calls'[p] = IF p = o THEN calls[o] + 1 ELSE calls[p]
      BY <2>1, <3>1
    <3>3. QED BY <2>8, <3>2
  <2>10. \A p \in Ops : IF Linked(p)' THEN calls'[p] = 1 - If(HeldBySomeone(p))'
                                      ELSE calls'[p] = 0 /\ ~HeldBySomeone(p)'
    BY <1>0, <1>2, <2>7, <2>8, <2>9, CalledOnceMeans DEF If
  <2>11. \A e \in Directions : /\ Held(e)' \cap Range(pending') = {}
                               /\ \A p \in Held(e)' : Dir(p) = e
    BY <1>0, <2>5, <2>6, CalledOnceMeans
  <2>12. IsInjective(pending')
    BY <1>0, <2>6, CalledOnceMeans
  <2>13. CalledOnce'
    BY <2>5, <2>10, <2>11, <2>12, CalledOnceNext
  <2>14. Hands'
    BY <1>0, <1>2, <1>3, <2>1 DEF Hands, epolls, closers
  <2>15. QED BY <2>13, <2>14
<1>10. QED
  <2>1. (d = "read" /\ ReadSome) \/ (d = "write" /\ WriteSome) \/ FailNext(d) =>
           \/ \E pc \in {"io", "rejoin", "fail"} :
                 CallBack(d, pc) /\ batch[d] # <<>> /\ pool[d] # "call" /\ UNCHANGED <<list, calls>>
           \/ d = "write" /\ WriteSome /\ pool' = [pool EXCEPT ![d] = "rejoin"] /\ batch' = batch
    BY DEF ReadSome, WriteSome, FailNext, conn, users
  <2>2. QED BY <1>5, <1>6, <1>7, <1>8, <1>9, <2>1 DEF Pool

\* The epoll thread and the kernel have no context.
LEMMA EpollPlace ==
  ASSUME PlaceIInv, Epoll \/ Kernel \/ Traffic
  PROVE  CalledOnce' /\ Hands'
<1>0. TypeOK /\ CalledOnce /\ Hands
  BY DEF PlaceIInv, SchedIInv, SchedExact
<1>1. /\ UNCHANGED <<list, op, calls, pools, pending>>
      /\ (closer' # "none" => epoll' = "wait" /\ todo' = {})
  BY <1>0 DEF Hands, Epoll, Event, Look, EpollCount, EpollUncount, EpollClaim, EpollPost, HangUp,
         Kernel, Traffic, PeerShutdown, GoDown, Arrive, conn, users, epolls, closers
<1>2. CalledOnce'
  <2>1. UNCHANGED <<list, batch, cur, pending, calls>> /\ pool' = pool /\ op' = op
    BY <1>1 DEF pools
  <2>2. \A o \in Ops : Linked(o)' <=> Linked(o)
    BY <2>1 DEF Linked
  <2>3. QED BY <1>0, <2>1, <2>2, KeepsPlaces
<1>3. Hands'
  BY <1>0, <1>1 DEF Hands, pools
<1>4. QED BY <1>2, <1>3

\* socketCloseConnection takes over what is in the lists and fails it.
LEMMA CloserPlace ==
  ASSUME PlaceIInv, Closer
  PROVE  CalledOnce' /\ Hands'
<1>0. TypeOK /\ CalledOnce /\ Hands
  BY DEF PlaceIInv, SchedIInv, SchedExact
<1>1. /\ UNCHANGED <<op, pools, epolls>> /\ closer # "none"
      /\ \A p \in Ops : Linked(p)' <=> Linked(p)
  BY DEF Closer, Mark, Drain, FailPending, OnClose, CloserDrop, users, Linked
<1>2. Hands'
  BY <1>0, <1>1 DEF Hands, pools, epolls
<1>3. CASE Mark \/ OnClose \/ CloserDrop
  <2>1. UNCHANGED <<list, batch, cur, pool, pending, calls>>
    BY <1>1, <1>3 DEF Mark, OnClose, CloserDrop, conn, users, pools
  <2>2. QED BY <1>0, <1>1, <1>2, <2>1, KeepsPlaces
<1>4. ASSUME NEW d \in Directions, Drain(d)
      PROVE  CalledOnce'
  <2>1. /\ pending = <<>> /\ pending' = list[d] /\ UNCHANGED <<batch, cur, pool, calls>>
        /\ list'[d] = <<>> /\ \A e \in Directions : e # d => list'[e] = list[e]
    BY <1>0, <1>4 DEF Drain, TypeOK, users, pools
  <2>2. \A e \in Directions : Held(e)' = IF e = d THEN Held(e) \ Range(list[d]) ELSE Held(e)
    <3>1. Apart(d)
      BY <1>0, CalledOnceMeans
    <3>2. QED BY <2>1, <3>1, EmptyList DEF Held, Apart, Local, InCallback
  <2>3. \A e \in Directions : Apart(e)'
    <3>1. \A e \in Directions : Apart(e)
      BY <1>0, CalledOnceMeans
    <3>2. QED BY <2>1, <3>1, EmptyList DEF Apart, Local, InCallback
  <2>4. /\ Range(list[d]) \subseteq Held(d) /\ IsInjective(list[d])
        /\ \A e \in Directions : e # d => Held(e) \cap Held(d) = {}
    BY <1>0, CalledOnceMeans DEF Held, Local, Apart
  <2>5. \A p \in Ops : HeldBySomeone(p)' <=> HeldBySomeone(p)
    BY <2>1, <2>2, <2>4, EmptyList DEF HeldBySomeone, Directions
  <2>6. \A p \in Ops : IF Linked(p)' THEN calls'[p] = 1 - If(HeldBySomeone(p))'
                                     ELSE calls'[p] = 0 /\ ~HeldBySomeone(p)'
    BY <1>0, <1>1, <2>1, <2>5, CalledOnceMeans DEF If
  <2>7. \A e \in Directions : /\ Held(e)' \cap Range(pending') = {}
                              /\ \A p \in Held(e)' : Dir(p) = e
    BY <1>0, <2>1, <2>2, <2>4, CalledOnceMeans
  <2>8. QED BY <2>1, <2>3, <2>4, <2>6, <2>7, CalledOnceNext
<1>5. CASE FailPending
  <2> DEFINE o == Head(pending)
  <2>1. /\ pending # <<>> /\ pending' = Tail(pending) /\ UNCHANGED <<list, batch, cur, pool>>
        /\ calls' = [calls EXCEPT ![o] = @ + 1] /\ pending \in Seq(Ops) /\ IsInjective(pending)
    BY <1>0, <1>5, CalledOnceMeans DEF FailPending, pools, TypeOK
  <2>2. /\ o \in Range(pending) /\ o \in Ops
        /\ Range(pending') = Range(pending) \ {o} /\ IsInjective(pending')
    BY <2>1, TailList
  <2>3. \A e \in Directions : Held(e)' = Held(e) /\ Apart(e)' /\ o \notin Held(e)
    <3>1. \A e \in Directions : Apart(e) /\ o \notin Held(e)
      BY <1>0, <2>2, CalledOnceMeans
    <3>2. QED BY <2>1, <3>1 DEF Held, Apart, Local, InCallback
  <2>4. \A p \in Ops : HeldBySomeone(p)' <=> (p # o /\ HeldBySomeone(p))
    BY <2>2, <2>3 DEF HeldBySomeone, Directions
  <2>5. Linked(o) /\ calls[o] = 0
    <3>1. HeldBySomeone(o)
      BY <2>2 DEF HeldBySomeone
    <3>2. QED BY <1>0, <2>2, <3>1, CalledOnceMeans DEF If
  <2>6. \A p \in Ops : calls'[p] = IF p = o THEN 1 ELSE calls[p]
    <3>1. calls \in [Ops -> Nat]
      BY <1>0 DEF TypeOK
    <3>2. \A p \in Ops : calls'[p] = IF p = o THEN calls[o] + 1 ELSE calls[p]
      BY <2>1, <2>2, <3>1
    <3>3. QED BY <2>5, <3>2
  <2>7. \A p \in Ops : IF Linked(p)' THEN calls'[p] = 1 - If(HeldBySomeone(p))'
                                     ELSE calls'[p] = 0 /\ ~HeldBySomeone(p)'
    BY <1>0, <1>1, <2>4, <2>5, <2>6, CalledOnceMeans DEF If
  <2>8. \A e \in Directions : /\ Held(e)' \cap Range(pending') = {}
                              /\ \A p \in Held(e)' : Dir(p) = e
    BY <1>0, <2>2, <2>3, CalledOnceMeans
  <2>9. CalledOnce'
    BY <2>2, <2>3, <2>7, <2>8, CalledOnceNext
  <2>10. QED BY <1>2, <2>9
<1>6. QED BY <1>2, <1>3, <1>4, <1>5 DEF Closer

\* A new connection has no context.
LEMMA InitPlace == Init => CalledOnce /\ Hands
<1> HAVE Init
<1>1. \A d \in Directions : /\ list[d] = <<>> /\ batch[d] = <<>> /\ pool[d] = "idle"
                            /\ Held(d) = {} /\ Apart(d)
  BY EmptyList DEF Init, Apart, Held, Local, InCallback
<1>2. pending = <<>> /\ closer = "none" /\ \A o \in Ops : op[o] = "idle" /\ calls[o] = 0
  BY DEF Init
<1>3. \A o \in Ops : ~HeldBySomeone(o) /\ ~Linked(o)
  BY <1>1, <1>2, EmptyList DEF HeldBySomeone, Directions, Linked
<1>4. CalledOnce
  BY <1>1, <1>2, <1>3, EmptyList, CalledOnceMeans
<1>5. QED BY <1>1, <1>2, <1>4 DEF Hands

\* A step of nobody.
LEMMA StutterPlace == PlaceIInv /\ UNCHANGED vars => CalledOnce' /\ Hands'
<1> HAVE PlaceIInv /\ UNCHANGED vars
<1>1. CalledOnce /\ Hands /\ UNCHANGED <<conn, users, pools, epolls, closers>>
  BY DEF PlaceIInv, vars
<1>2. UNCHANGED <<list, batch, cur, pool, pending, calls, op>>
  BY <1>1 DEF conn, users, pools, closers
<1>3. CalledOnce'
  BY <1>1, <1>2, KeepsPlaces DEF Linked
<1>4. Hands'
  BY <1>1 DEF Hands, pools, epolls, closers
<1>5. QED BY <1>3, <1>4

\* Every step keeps every context in its place or moves it to the next.
LEMMA PlaceStep == PlaceIInv /\ [NextTraffic]_vars => PlaceIInv'
<1> SUFFICES ASSUME PlaceIInv, [NextTraffic]_vars PROVE PlaceIInv'
  OBVIOUS
<1>1. SchedIInv'
  BY SchedStep DEF PlaceIInv
<1>2. CASE User
  BY <1>1, <1>2, CallersPlace DEF User, PlaceIInv
<1>3. CASE \E d \in Directions : Pool(d)
  BY <1>1, <1>3, PoolPlace DEF PlaceIInv
<1>4. CASE Epoll \/ Kernel \/ Traffic
  BY <1>1, <1>4, EpollPlace DEF PlaceIInv
<1>5. CASE Closer
  BY <1>1, <1>5, CloserPlace DEF PlaceIInv
<1>6. CASE UNCHANGED vars
  BY <1>1, <1>6, StutterPlace DEF PlaceIInv
<1>7. QED BY <1>2, <1>3, <1>4, <1>5, <1>6 DEF NextTraffic, Next

\* The invariant of the places holds of both specifications.
THEOREM PlaceInvariance == (Spec => []PlaceIInv) /\ (TrafficSpec => []PlaceIInv)
<1>1. Init => PlaceIInv
  BY InitSched, InitPlace DEF PlaceIInv
<1>2. [Next]_vars => [NextTraffic]_vars
  BY DEF NextTraffic
<1>3. QED BY <1>1, <1>2, PlaceStep, PTL DEF Spec, TrafficSpec

\* Every accepted operation is called back at most once, and until then its context is in
\* exactly one list or thread, whoever performs it, fails it or closes the connection.
THEOREM CalledBackOnce == Spec => []CalledOnce
<1>1. PlaceIInv => CalledOnce
  BY DEF PlaceIInv
<1>2. QED BY <1>1, PlaceInvariance, PTL

-----------------------------------------------------------------------------
(* The references *)

RefIInv == PlaceIInv /\ RefExact

\* The operations that hold a reference, and those about to insert a job, are finitely many.
LEMMA HoldersFinite ==
  /\ IsFiniteSet(Holding) /\ Cardinality(Holding) \in Nat
  /\ \A d \in Directions : IsFiniteSet(Posting(d)) /\ Cardinality(Posting(d)) \in Nat
<1>1. IsFiniteSet(Ops) /\ Holding \subseteq Ops /\ \A d \in Directions : Posting(d) \subseteq Ops
  BY ConnectionAssumption DEF Holding, Posting
<1>2. QED BY <1>1, FS_Subset, FS_CardinalityType

\* A call that moves on counts as a holder from its own reference on, and as a poster
\* between the job's reference and the insertion.
Holds(pc) == pc \in {"link", "count", "uncount", "claim", "post", "out"}
LEMMA MoveHolder ==
  ASSUME TypeOK, NEW o \in Ops, NEW pc, op' = [op EXCEPT ![o] = pc], calls' = calls, calls[o] = 0 \/ (Holds(pc) /\ Holds(op[o]))
  PROVE  /\ Cardinality(Holding') = Cardinality(Holding) - If(Holds(op[o])) + If(Holds(pc))
         /\ \A d \in Directions : Cardinality(Posting(d)') = Cardinality(Posting(d))
               - If(d = Dir(o) /\ op[o] = "post") + If(d = Dir(o) /\ pc = "post")
<1>1. \A p \in Ops : op'[p] = IF p = o THEN pc ELSE op[p]
  BY DEF TypeOK
<1>2. Cardinality(Holding') = Cardinality(Holding) - If(Holds(op[o])) + If(Holds(pc))
  <2>1. CASE calls[o] # 0
    <3>1. Holding' = Holding
      BY <1>1, <2>1 DEF Holding, Holds
    <3>2. QED BY <2>1, <3>1, HoldersFinite DEF If
  <2>2. CASE calls[o] = 0
    <3>1. Holding' = IF Holds(pc) THEN Holding \cup {o} ELSE Holding \ {o}
      BY <1>1, <2>2 DEF Holding, Holds
    <3>2. o \in Holding <=> Holds(op[o])
      BY <2>2 DEF Holding, Holds
    <3>3. /\ Cardinality(Holding \cup {o})
                = IF o \in Holding THEN Cardinality(Holding) ELSE Cardinality(Holding) + 1
          /\ Cardinality(Holding \ {o})
                = IF o \in Holding THEN Cardinality(Holding) - 1 ELSE Cardinality(Holding)
          /\ Cardinality(Holding) \in Nat
      BY HoldersFinite, AddAndRemove
    <3>4. QED BY <3>1, <3>2, <3>3 DEF If
  <2>3. QED BY <2>1, <2>2
<1>3. ASSUME NEW d \in Directions
      PROVE  Cardinality(Posting(d)') = Cardinality(Posting(d))
               - If(d = Dir(o) /\ op[o] = "post") + If(d = Dir(o) /\ pc = "post")
  <2>1. CASE d # Dir(o)
    <3>1. Posting(d)' = Posting(d)
      BY <1>1, <2>1 DEF Posting
    <3>2. QED BY <2>1, <3>1, HoldersFinite DEF If
  <2>2. CASE d = Dir(o)
    <3>1. Posting(d)' = IF pc = "post" THEN Posting(d) \cup {o} ELSE Posting(d) \ {o}
      BY <1>1, <2>2 DEF Posting
    <3>2. o \in Posting(d) <=> op[o] = "post"
      BY <2>2 DEF Posting
    <3>3. /\ Cardinality(Posting(d) \cup {o})
                = IF o \in Posting(d) THEN Cardinality(Posting(d)) ELSE Cardinality(Posting(d)) + 1
          /\ Cardinality(Posting(d) \ {o})
                = IF o \in Posting(d) THEN Cardinality(Posting(d)) - 1 ELSE Cardinality(Posting(d))
          /\ Cardinality(Posting(d)) \in Nat
      BY HoldersFinite, AddAndRemove
    <3>4. QED BY <2>2, <3>1, <3>2, <3>3 DEF If
  <2>3. QED BY <2>1, <2>2
<1>4. QED BY <1>2, <1>3

\* Those who may still use the connection.
Users == If(closer # "end") + Cardinality(Holding) + JobRefs("read") + JobRefs("write")

\* Their number, and that of the references of each direction's job, is a number.
LEMMA UsersType ==
  ASSUME TypeOK
  PROVE  /\ Cardinality(Holding) \in Nat /\ Users \in Nat
         /\ \A d \in Directions :
               /\ JobRefs(d) \in Nat /\ job[d] \in Nat /\ Cardinality(Posting(d)) \in Nat
<1>1. \A d \in Directions : job[d] \in Nat /\ Cardinality(Posting(d)) \in Nat
  BY HoldersFinite DEF TypeOK
<1>2. \A d \in Directions : JobRefs(d) \in Nat
  BY <1>1 DEF JobRefs, If
<1>3. Cardinality(Holding) \in Nat
  BY HoldersFinite
<1>4. Users \in Nat
  BY <1>2, <1>3 DEF Users, Directions, If
<1>5. QED BY <1>1, <1>2, <1>3, <1>4

\* The three ways in which a step keeps the references exact: nobody comes or goes ...
LEMMA SameUsers ==
  ASSUME RefExact, UNCHANGED <<ref, freed>>, Users' = Users
  PROVE  RefExact'
  BY DEF RefExact, Users

\* ... somebody comes, to a connection that is not freed ...
LEMMA OneMoreUser ==
  ASSUME RefExact, ref' = ref + 1, freed' = freed, ~freed, Users' = Users + 1
  PROVE  RefExact'
  BY DEF RefExact, Users

\* ... or somebody drops a reference, and frees the connection if it is the last.
LEMMA OneUserLess ==
  ASSUME RefExact, ref \in Int, IODone, Users = Users' + 1, Users' \in Nat
  PROVE  RefExact'
<1>1. ref = Users /\ ref' = ref - 1 /\ (freed => ref = 0)
  BY DEF RefExact, Users, IODone
<1>2. ref' = Users' /\ ref # 0 /\ (ref = 1 => ref' = 0)
  <2> DEFINE before == Users
             after == Users'
  <2>1. /\ ref = before /\ ref' = ref - 1 /\ before = after + 1 /\ after \in Nat /\ ref \in Int
    BY <1>1
  <2> HIDE DEF before, after
  <2>2. ref' = after /\ ref # 0 /\ (ref = 1 => ref' = 0)
    BY <2>1
  <2>3. QED BY <2>2 DEF after
<1>3. ~freed
  BY <1>1, <1>2
<1>4. freed' => ref' = 0
  BY <1>2, <1>3 DEF IODone
<1>5. QED BY <1>2, <1>4 DEF RefExact, Users

\* The number of users after a step is a number too.
LEMMA UsersNext ==
  ASSUME TypeOK'
  PROVE  Users' \in Nat
<1>1. /\ IsFiniteSet(Ops) /\ Holding' \subseteq Ops
      /\ \A d \in Directions : Posting(d)' \subseteq Ops
  BY ConnectionAssumption DEF Holding, Posting
<1>2. /\ Cardinality(Holding') \in Nat
      /\ \A d \in Directions : Cardinality(Posting(d)') \in Nat
  BY <1>1, FS_Subset, FS_CardinalityType
<1>3. \A d \in Directions : job'[d] \in Nat
  BY DEF TypeOK
<1>4. \A d \in Directions : JobRefs(d)' \in Nat
  BY <1>2, <1>3 DEF JobRefs, If
<1>5. QED BY <1>2, <1>4 DEF Users, Directions, If

\* connRead and connWrite take a reference for their operation and one for the job they insert.
LEMMA CallersRef ==
  ASSUME RefIInv, NEW o \in Ops, Refuse(o) \/ Enter(o) \/ Call(o)
  PROVE  RefExact'
<1> DEFINE D == Dir(o)
           pc == op'[o]
<1>0. TypeOK /\ CalledOnce /\ RefExact /\ D \in Directions
  BY DirType DEF RefIInv, PlaceIInv, SchedIInv, SchedExact
<1>1. op' = [op EXCEPT ![o] = pc]
  <2>1. \E x : op' = [op EXCEPT ![o] = x]
    BY DEF Refuse, Enter, Call, Hold, Link, Count, Uncount, Claim, Post
  <2>2. QED BY <1>0, <2>1 DEF TypeOK
<1>2. /\ UNCHANGED <<calls, pool, watched, epoll, closer>>
      /\ calls[o] = 0 \/ (Holds(op[o]) /\ Holds(pc))
  <2>1. UNCHANGED <<calls, pool, watched, epoll, closer>>
    BY DEF Refuse, Enter, Call, Hold, Link, Count, Uncount, Claim, Post, pools, epolls, closers
  <2>2. op[o] \in {"idle", "hold"} => calls[o] = 0
    BY <1>0 DEF CalledOnce
  <2>3. op[o] \notin {"idle", "hold"} => Holds(op[o]) /\ Holds(pc)
    BY <1>0 DEF Refuse, Enter, Call, Hold, Link, Count, Uncount, Claim, Post, Holds, TypeOK
  <2>4. QED BY <2>1, <2>2, <2>3
<1>3. /\ Cardinality(Holding') = Cardinality(Holding) - If(Holds(op[o])) + If(Holds(pc))
      /\ \A d \in Directions : Cardinality(Posting(d)') = Cardinality(Posting(d))
            - If(d = D /\ op[o] = "post") + If(d = D /\ pc = "post")
  BY <1>0, <1>1, <1>2, MoveHolder
<1>4. /\ Cardinality(Holding) \in Nat /\ Users \in Nat
      /\ \A d \in Directions :
            JobRefs(d) \in Nat /\ job[d] \in Nat /\ Cardinality(Posting(d)) \in Nat
  BY <1>0, UsersType
<1>5. ASSUME NEW n \in Int, \A d \in Directions : job'[d] = job[d] + (IF d = D THEN n ELSE 0)
      PROVE  Users' = Users - If(Holds(op[o])) + If(Holds(pc)) - If(op[o] = "post") + If(pc = "post") + n
  <2>1. \A d \in Directions : JobRefs(d)' = JobRefs(d)
           + (IF d = D THEN n - If(op[o] = "post") + If(pc = "post") ELSE 0)
    BY <1>2, <1>3, <1>4, <1>5 DEF JobRefs, If
  <2>2. If(closer # "end")' = If(closer # "end")
    BY <1>2 DEF If
  <2>3. QED BY <1>0, <1>3, <1>4, <2>1, <2>2 DEF Users, Directions, If
<1>. DEFINE Change == If(Holds(pc)) - If(Holds(op[o])) + If(pc = "post") - If(op[o] = "post")
<1>5a. ASSUME job' = job
       PROVE  Users' = Users + Change
  <2>1. \A d \in Directions : job'[d] = job[d] + (IF d = D THEN 0 ELSE 0)
    BY <1>4, <1>5a
  <2>2. Users' = Users - If(Holds(op[o])) + If(Holds(pc)) - If(op[o] = "post") + If(pc = "post") + 0
    BY <1>5, <2>1
  <2>3. QED BY <1>4, <2>2 DEF If
<1>6. CASE Refuse(o) \/ Enter(o) \/ Link(o) \/ Count(o) \/ Uncount(o)
  <2>1. UNCHANGED <<ref, freed, job>>
    BY <1>6 DEF Refuse, Enter, Link, Count, Uncount, conn
  <2>2. /\ Holds(op[o]) <=> Holds(pc)
        /\ op[o] # "post" /\ pc # "post"
    BY <1>0, <1>6 DEF Refuse, Enter, Link, Count, Uncount, Holds, TypeOK
  <2>3. Users' = Users
    BY <1>4, <1>5a, <2>1, <2>2 DEF If
  <2>4. QED BY <1>0, <2>1, <2>3, SameUsers
<1>7. CASE Hold(o)
  <2>1. ref' = ref + 1 /\ ~freed /\ UNCHANGED <<freed, job>>
    BY <1>7 DEF Hold
  <2>2. op[o] = "hold" /\ pc = "link"
    BY <1>0, <1>7 DEF Hold, TypeOK
  <2>3. Users' = Users + 1
    BY <1>4, <1>5a, <2>1, <2>2 DEF If, Holds
  <2>4. QED BY <1>0, <2>1, <2>3, OneMoreUser
<1>8. CASE Claim(o)
  <2>1. ref' = ref + 1 /\ ~freed /\ UNCHANGED <<freed, job>>
    BY <1>8 DEF Claim
  <2>2. op[o] = "claim" /\ pc = "post"
    BY <1>0, <1>8 DEF Claim, TypeOK
  <2>3. Users' = Users + 1
    BY <1>4, <1>5a, <2>1, <2>2 DEF If, Holds
  <2>4. QED BY <1>0, <2>1, <2>3, OneMoreUser
<1>9. CASE Post(o)
  <2>1. UNCHANGED <<ref, freed>> /\ job' = [job EXCEPT ![D] = @ + 1]
    BY <1>9 DEF Post
  <2>2. op[o] = "post" /\ pc = "out"
    BY <1>0, <1>9 DEF Post, TypeOK
  <2>3. \A d \in Directions : job'[d] = job[d] + (IF d = D THEN 1 ELSE 0)
    <3>1. job \in [Directions -> Nat]
      BY <1>0 DEF TypeOK
    <3>2. QED BY <2>1, <3>1
  <2>4. Users' = Users
    BY <1>4, <1>5, <2>2, <2>3 DEF If, Holds
  <2>5. QED BY <1>0, <2>1, <2>4, SameUsers
<1>10. QED BY <1>6, <1>7, <1>8, <1>9 DEF Call

\* Steps in which no operation moves or is called back change neither count of operations ...
LEMMA SameHolders ==
  ASSUME UNCHANGED <<op, calls>>
  PROVE  /\ Cardinality(Holding') = Cardinality(Holding)
         /\ \A d \in Directions : Cardinality(Posting(d)') = Cardinality(Posting(d))
  BY DEF Holding, Posting

\* ... and the callback of a context that was somewhere takes away its holder.
LEMMA HolderCalledBack ==
  ASSUME TypeOK, CalledOnce, op' = op, NEW o \in Ops, HeldBySomeone(o),
         calls' = [calls EXCEPT ![o] = @ + 1]
  PROVE  /\ Cardinality(Holding') = Cardinality(Holding) - 1
         /\ \A d \in Directions : Cardinality(Posting(d)') = Cardinality(Posting(d))
<1>1. Linked(o) /\ calls[o] = 0
  BY CalledOnceMeans DEF If
<1>2. o \in Holding
  BY <1>1 DEF Linked, Holding, TypeOK
<1>3. \A p \in Ops : calls'[p] = IF p = o THEN 1 ELSE calls[p]
  <2>1. calls \in [Ops -> Nat]
    BY DEF TypeOK
  <2>2. \A p \in Ops : calls'[p] = IF p = o THEN calls[o] + 1 ELSE calls[p]
    BY <2>1
  <2>3. QED BY <1>1, <2>2
<1>4. Holding' = Holding \ {o}
  BY <1>3 DEF Holding
<1>5. Cardinality(Holding') = Cardinality(Holding) - 1
  BY <1>2, <1>4, HoldersFinite, AddAndRemove
<1>6. QED BY <1>5 DEF Posting

\* The epoll thread takes the reference of the job it inserts while the connection is open.
LEMMA EpollRef ==
  ASSUME RefIInv, Epoll \/ Kernel \/ Traffic
  PROVE  RefExact'
<1>0. TypeOK /\ Control /\ RefExact /\ Hands
  BY DEF RefIInv, PlaceIInv, SchedIInv, SchedExact
<1>1. /\ UNCHANGED <<op, calls, pool, freed>>
      /\ (closer # "end" /\ closer' # "end") \/ UNCHANGED closer
  BY DEF Epoll, Event, Look, EpollCount, EpollUncount, EpollClaim, EpollPost, HangUp,
         Kernel, Traffic, PeerShutdown, GoDown, Arrive, conn, users, pools, closers
<1>2. /\ Cardinality(Holding') = Cardinality(Holding)
      /\ \A d \in Directions : Cardinality(Posting(d)') = Cardinality(Posting(d))
  BY <1>1, SameHolders
<1>3. /\ Cardinality(Holding) \in Nat /\ Users \in Nat
      /\ \A d \in Directions :
            JobRefs(d) \in Nat /\ job[d] \in Nat /\ Cardinality(Posting(d)) \in Nat
  BY <1>0, UsersType
<1>4. If(closer # "end")' = If(closer # "end")
  BY <1>1 DEF If
<1>5. ASSUME \A d \in Directions : JobRefs(d)' = JobRefs(d)
      PROVE  Users' = Users
  BY <1>2, <1>4, <1>5 DEF Users, Directions
<1>6. CASE EpollClaim
  <2>1. /\ epoll = "claim" /\ epoll' = "post" /\ watched' = watched /\ watched \in Directions
        /\ ref' = ref + 1 /\ job' = job
    BY <1>0, <1>6 DEF EpollClaim, Control
  <2>2. \A d \in Directions : JobRefs(d)' = JobRefs(d) + If(d = watched)
    BY <1>1, <1>2, <1>3, <2>1 DEF JobRefs, If
  <2>3. Users' = Users + 1
    BY <1>2, <1>3, <1>4, <2>1, <2>2 DEF Users, Directions, If
  <2>4. closer = "none"
    BY <1>0, <2>1 DEF Hands
  <2>5. Users # 0
    BY <1>3, <2>4 DEF Users, If, Directions
  <2>6. ~freed
    BY <1>0, <2>5 DEF RefExact, Users
  <2>7. QED BY <1>0, <1>1, <2>1, <2>3, <2>6, OneMoreUser
<1>7. CASE EpollPost
  <2>1. /\ epoll = "post" /\ epoll' = "wait" /\ watched \in Directions /\ watched' \notin Directions
        /\ ref' = ref /\ job' = [job EXCEPT ![watched] = @ + 1]
    BY <1>0, <1>7 DEF EpollPost, Control, NoDir, Directions
  <2>2. \A d \in Directions : job'[d] = job[d] + If(d = watched)
    <3>1. job \in [Directions -> Nat]
      BY <1>0 DEF TypeOK
    <3>2. QED BY <2>1, <3>1 DEF If
  <2>3. \A d \in Directions : JobRefs(d)' = JobRefs(d)
    BY <1>1, <1>2, <1>3, <2>1, <2>2 DEF JobRefs, If
  <2>4. QED BY <1>0, <1>1, <1>5, <2>1, <2>3, SameUsers
<1>8. CASE Event \/ EpollCount \/ EpollUncount \/ HangUp \/ Kernel \/ Traffic
           \/ \E d \in Directions : Look(d)
  <2>1. /\ UNCHANGED <<ref, job>> /\ epoll # "post" /\ epoll' # "post"
        \/ UNCHANGED <<ref, job, epoll, watched>>
    BY <1>8 DEF Event, Look, EpollCount, EpollUncount, HangUp,
                Kernel, Traffic, PeerShutdown, GoDown, Arrive, conn, epolls
  <2>2. \A d \in Directions : JobRefs(d)' = JobRefs(d)
    BY <1>1, <1>2, <2>1 DEF JobRefs, If
  <2>3. QED BY <1>0, <1>1, <1>5, <2>1, <2>2, SameUsers
<1>9. QED BY <1>6, <1>7, <1>8 DEF Epoll

\* A pool thread keeps the job's reference until it is done, and drops that of each operation
\* once its callback has returned.
LEMMA PoolRef ==
  ASSUME RefIInv, NEW d \in Directions, Pool(d), TypeOK'
  PROVE  RefExact'
<1>0. TypeOK /\ CalledOnce /\ RefExact /\ Hands /\ ref \in Int
  BY DEF RefIInv, PlaceIInv, SchedIInv, SchedExact, TypeOK
<1>1. /\ UNCHANGED <<op, epoll, watched, closer>>
      /\ pool \in [Directions -> PoolPoints] /\ job \in [Directions -> Nat]
  BY <1>0 DEF Pool, Start, Take, Test, Error, WouldBlock, ReadSome, WriteSome, FailNext, Return, Rejoin,
         Drop, users, epolls, closers, TypeOK
<1>2. /\ Cardinality(Holding) \in Nat /\ Users \in Nat
      /\ \A e \in Directions :
            JobRefs(e) \in Nat /\ job[e] \in Nat /\ Cardinality(Posting(e)) \in Nat
  BY <1>0, UsersType
<1>3. If(closer # "end")' = If(closer # "end")
  BY <1>1 DEF If
<1>4. CASE Start(d)
  <2>1. /\ UNCHANGED <<ref, freed, calls>> /\ pool[d] = "idle"
        /\ job' = [job EXCEPT ![d] = @ - 1] /\ pool' = [pool EXCEPT ![d] = "take"]
    BY <1>4 DEF Start, users
  <2>2. /\ Cardinality(Holding') = Cardinality(Holding)
        /\ \A e \in Directions : Cardinality(Posting(e)') = Cardinality(Posting(e))
    BY <1>1, <2>1, SameHolders
  <2>3. \A e \in Directions : /\ job'[e] = job[e] - If(e = d)
                              /\ If(pool[e] # "idle")' = If(pool[e] # "idle") + If(e = d)
    BY <1>1, <2>1 DEF If
  <2>4. \A e \in Directions : JobRefs(e)' = JobRefs(e)
    BY <1>1, <1>2, <2>2, <2>3 DEF JobRefs, If
  <2>5. Users' = Users
    BY <1>3, <2>2, <2>4 DEF Users, Directions
  <2>6. QED BY <1>0, <2>1, <2>5, SameUsers
<1>5. CASE Drop(d)
  <2>1. /\ IODone /\ UNCHANGED <<calls, job>> /\ pool[d] # "idle"
        /\ pool' = [pool EXCEPT ![d] = "idle"]
    BY <1>5 DEF Drop, users
  <2>2. /\ Cardinality(Holding') = Cardinality(Holding)
        /\ \A e \in Directions : Cardinality(Posting(e)') = Cardinality(Posting(e))
    BY <1>1, <2>1, SameHolders
  <2>3. \A e \in Directions : If(pool[e] # "idle")' = If(pool[e] # "idle") - If(e = d)
    BY <1>1, <2>1 DEF If
  <2>4. \A e \in Directions : JobRefs(e)' = JobRefs(e) - If(e = d)
    BY <1>1, <1>2, <2>1, <2>2, <2>3 DEF JobRefs, If
  <2>5. Users = Users' + 1
    BY <1>2, <1>3, <2>2, <2>4 DEF Users, Directions, If
  <2>6. Users' \in Nat
    BY UsersNext
  <2>7. QED BY <1>0, <2>1, <2>5, <2>6, OneUserLess
<1>6. CASE Return(d)
  <2>1. /\ IODone /\ job' = job /\ pool[d] = "call" /\ pool' = [pool EXCEPT ![d] = next[d]]
        /\ calls' = [calls EXCEPT ![cur[d]] = @ + 1]
        /\ cur[d] \in Ops /\ next[d] # "idle"
    BY <1>0, <1>6 DEF Return, Hands
  <2>2. HeldBySomeone(cur[d])
    BY <2>1 DEF HeldBySomeone, Held, InCallback, Directions
  <2>3. /\ Cardinality(Holding') = Cardinality(Holding) - 1
        /\ \A e \in Directions : Cardinality(Posting(e)') = Cardinality(Posting(e))
    BY <1>0, <1>1, <2>1, <2>2, HolderCalledBack
  <2>4. \A e \in Directions : If(pool[e] # "idle")' = If(pool[e] # "idle")
    BY <1>1, <2>1 DEF If
  <2>5. \A e \in Directions : JobRefs(e)' = JobRefs(e)
    BY <1>1, <2>1, <2>3, <2>4 DEF JobRefs
  <2>6. Users = Users' + 1
    BY <1>2, <1>3, <2>3, <2>5 DEF Users, Directions, If
  <2>7. Users' \in Nat
    BY UsersNext
  <2>8. QED BY <1>0, <2>1, <2>6, <2>7, OneUserLess
<1>7. CASE \/ Take(d) \/ Test(d) \/ Error(d) \/ WouldBlock(d)
           \/ (d = "read" /\ ReadSome) \/ (d = "write" /\ WriteSome) \/ FailNext(d) \/ Rejoin(d)
  <2>1. /\ UNCHANGED <<ref, freed, calls, job>> /\ pool[d] # "idle"
        /\ \E pc \in PoolPoints \ {"idle"} : pool' = [pool EXCEPT ![d] = pc]
    BY <1>7 DEF Take, Test, Error, WouldBlock, ReadSome, WriteSome, CallBack, FailNext, Rejoin, conn,
                users, PoolPoints
  <2>2. /\ Cardinality(Holding') = Cardinality(Holding)
        /\ \A e \in Directions : Cardinality(Posting(e)') = Cardinality(Posting(e))
    BY <1>1, <2>1, SameHolders
  <2>3. \A e \in Directions : If(pool[e] # "idle")' = If(pool[e] # "idle")
    BY <1>1, <2>1 DEF If
  <2>4. \A e \in Directions : JobRefs(e)' = JobRefs(e)
    BY <1>1, <2>1, <2>2, <2>3 DEF JobRefs
  <2>5. Users' = Users
    BY <1>3, <2>2, <2>4 DEF Users, Directions
  <2>6. QED BY <1>0, <2>1, <2>5, SameUsers
<1>8. QED BY <1>4, <1>5, <1>6, <1>7 DEF Pool

\* socketCloseConnection drops the references of the operations it fails, and the connection's own.
LEMMA CloserRef ==
  ASSUME RefIInv, Closer, TypeOK'
  PROVE  RefExact'
<1>0. TypeOK /\ CalledOnce /\ RefExact /\ ref \in Int
  BY DEF RefIInv, PlaceIInv, SchedIInv, SchedExact, TypeOK
<1>1. UNCHANGED <<op, job, pool, epoll, watched>>
  BY DEF Closer, Mark, Drain, FailPending, OnClose, CloserDrop, conn, users, pools, epolls
<1>2. /\ Cardinality(Holding) \in Nat /\ Users \in Nat
      /\ \A d \in Directions :
            JobRefs(d) \in Nat /\ job[d] \in Nat /\ Cardinality(Posting(d)) \in Nat
  BY <1>0, UsersType
<1>3. ASSUME \A d \in Directions : Cardinality(Posting(d)') = Cardinality(Posting(d))
      PROVE  JobRefs("read")' = JobRefs("read") /\ JobRefs("write")' = JobRefs("write")
  BY <1>1, <1>3 DEF JobRefs, Directions
<1>4. Users' \in Nat
  BY UsersNext
<1>5. CASE Mark \/ OnClose \/ \E d \in Directions : Drain(d)
  <2>1. UNCHANGED <<ref, freed, calls>> /\ closer # "end" /\ closer' # "end"
    BY <1>5 DEF Mark, OnClose, Drain, conn, users
  <2>2. Users' = Users
    BY <1>1, <1>3, <2>1, SameHolders DEF Users
  <2>3. QED BY <1>0, <2>1, <2>2, SameUsers
<1>6. CASE CloserDrop
  <2>1. IODone /\ UNCHANGED calls /\ closer = "drop" /\ closer' = "end"
    BY <1>6 DEF CloserDrop, users
  <2>2. /\ Cardinality(Holding') = Cardinality(Holding)
        /\ JobRefs("read")' = JobRefs("read") /\ JobRefs("write")' = JobRefs("write")
    BY <1>1, <1>3, <2>1, SameHolders
  <2>3. Users = Users' + 1
    BY <1>2, <2>1, <2>2 DEF Users, Directions, If
  <2>4. QED BY <1>0, <1>4, <2>1, <2>3, OneUserLess
<1>7. CASE FailPending
  <2>1. /\ IODone /\ pending # <<>> /\ closer' = closer /\ pending \in Seq(Ops) /\ IsInjective(pending)
        /\ calls' = [calls EXCEPT ![Head(pending)] = @ + 1]
    BY <1>0, <1>7, CalledOnceMeans DEF FailPending, TypeOK
  <2>2. Head(pending) \in Ops /\ HeldBySomeone(Head(pending))
    BY <2>1, TailList DEF HeldBySomeone
  <2>3. /\ Cardinality(Holding') = Cardinality(Holding) - 1
        /\ JobRefs("read")' = JobRefs("read") /\ JobRefs("write")' = JobRefs("write")
    BY <1>0, <1>1, <1>3, <2>1, <2>2, HolderCalledBack
  <2>4. If(closer # "end")' = If(closer # "end") /\ If(closer # "end") \in Nat
    BY <2>1 DEF If
  <2>5. Users = Users' + 1
    BY <1>2, <2>3, <2>4 DEF Users, Directions
  <2>6. QED BY <1>0, <1>4, <2>1, <2>5, OneUserLess
<1>8. QED BY <1>5, <1>6, <1>7 DEF Closer

\* A new connection is used by those that may still close it.
LEMMA InitRef == Init => RefExact
<1> HAVE Init
<1>1. /\ closer = "none" /\ ref = 1 /\ freed = FALSE /\ epoll = "wait"
      /\ \A d \in Directions : job[d] = 0 /\ pool[d] = "idle"
      /\ \A o \in Ops : op[o] = "idle"
  BY DEF Init
<1>2. Holding = {} /\ \A d \in Directions : Posting(d) = {}
  BY <1>1 DEF Holding, Posting
<1>3. Cardinality(Holding) = 0 /\ \A d \in Directions : JobRefs(d) = 0
  BY <1>1, <1>2, FS_EmptySet DEF JobRefs, If
<1>4. ref = If(closer # "end") + Cardinality(Holding) + JobRefs("read") + JobRefs("write")
  BY <1>1, <1>3 DEF Directions, If
<1>5. QED BY <1>1, <1>4 DEF RefExact

\* Every step takes or drops references together with what they stand for.
LEMMA RefStep == RefIInv /\ [NextTraffic]_vars => RefIInv'
<1> SUFFICES ASSUME RefIInv, [NextTraffic]_vars PROVE RefIInv'
  OBVIOUS
<1>1. PlaceIInv' /\ TypeOK'
  BY PlaceStep DEF RefIInv, PlaceIInv, SchedIInv, SchedExact
<1>2. CASE User
  BY <1>1, <1>2, CallersRef DEF User, RefIInv
<1>3. CASE \E d \in Directions : Pool(d)
  BY <1>1, <1>3, PoolRef DEF RefIInv
<1>4. CASE Epoll \/ Kernel \/ Traffic
  BY <1>1, <1>4, EpollRef DEF RefIInv
<1>5. CASE Closer
  BY <1>1, <1>5, CloserRef DEF RefIInv
<1>6. CASE UNCHANGED vars
  <2>1. UNCHANGED <<conn, users, pools, epolls, closers>> /\ RefExact
    BY <1>6 DEF vars, RefIInv
  <2>2. RefExact'
    BY <2>1 DEF RefExact, Holding, JobRefs, Posting, conn, users, pools, epolls, closers
  <2>3. QED BY <1>1, <2>2 DEF RefIInv
<1>7. QED BY <1>2, <1>3, <1>4, <1>5, <1>6 DEF NextTraffic, Next

\* The invariant of the references holds of both specifications.
THEOREM RefInvariance == (Spec => []RefIInv) /\ (TrafficSpec => []RefIInv)
<1>1. Init => RefIInv
  BY InitSched, InitPlace, InitRef DEF RefIInv, PlaceIInv
<1>2. [Next]_vars => [NextTraffic]_vars
  BY DEF NextTraffic
<1>3. QED BY <1>1, <1>2, RefStep, PTL DEF Spec, TrafficSpec

\* ref is at any time the number of those who may still use the connection, and the last of
\* them frees it.
THEOREM ReferencesAreExact == Spec => []RefExact
<1>1. RefIInv => RefExact
  BY DEF RefIInv
<1>2. QED BY <1>1, RefInvariance, PTL

\* When the connection is freed it has been closed, every accepted operation has been called
\* back, and neither the pool nor the epoll thread has a job of it.
FreedUnused == freed => /\ closer = "end" /\ Holding = {}
                        /\ \A d \in Directions : job[d] = 0 /\ pool[d] = "idle" /\ Posting(d) = {}
                        /\ epoll = "wait"
THEOREM FreedWhenUnused == Spec => []FreedUnused
<1>1. ASSUME RefIInv, freed
      PROVE  /\ closer = "end" /\ Holding = {} /\ epoll = "wait"
             /\ \A d \in Directions : job[d] = 0 /\ pool[d] = "idle" /\ Posting(d) = {}
  <2>1. TypeOK /\ RefExact /\ Hands
    BY <1>1 DEF RefIInv, PlaceIInv, SchedIInv, SchedExact
  <2>2. /\ Cardinality(Holding) \in Nat
        /\ \A d \in Directions :
              JobRefs(d) \in Nat /\ job[d] \in Nat /\ Cardinality(Posting(d)) \in Nat
    BY <2>1, UsersType
  <2>3. If(closer # "end") + Cardinality(Holding) + JobRefs("read") + JobRefs("write") = 0
    BY <1>1, <2>1 DEF RefExact
  <2>4. closer = "end" /\ Cardinality(Holding) = 0 /\ JobRefs("read") = 0 /\ JobRefs("write") = 0
    BY <2>2, <2>3 DEF If, Directions
  <2>5. \A d \in Directions : job[d] = 0 /\ pool[d] = "idle" /\ Cardinality(Posting(d)) = 0
    <3>1. \A d \in Directions : JobRefs(d) = 0
      BY <2>4 DEF Directions
    <3>2. ASSUME NEW d \in Directions
          PROVE  job[d] = 0 /\ pool[d] = "idle" /\ Cardinality(Posting(d)) = 0
      <4>1. /\ job[d] + If(pool[d] # "idle") + Cardinality(Posting(d))
                  + If(watched = d /\ epoll = "post") = 0
            /\ job[d] \in Nat /\ Cardinality(Posting(d)) \in Nat
        BY <2>2, <3>1 DEF JobRefs
      <4>2. /\ If(pool[d] # "idle") \in Nat /\ If(watched = d /\ epoll = "post") \in Nat
            /\ If(pool[d] # "idle") = 0 => pool[d] = "idle"
        BY DEF If
      <4>3. QED BY <4>1, <4>2
    <3>3. QED BY <3>2
  <2>6. Holding = {} /\ \A d \in Directions : Posting(d) = {}
    BY <2>4, <2>5, HoldersFinite, FS_EmptySet
  <2>7. QED BY <2>1, <2>4, <2>5, <2>6 DEF Hands
<1>2. RefIInv => FreedUnused
  BY <1>1 DEF FreedUnused
<1>3. QED BY <1>2, RefInvariance, PTL

-----------------------------------------------------------------------------
(* The bytes on the wire *)

\* What the pool thread has of the writes, and what it will find in the list: what is still
\* to be written, in order.
ToWrite == batch["write"] \o list["write"]

\* A write is linked once, and what is on the wire of it is what is no longer left.
OrderOnce == IsInjective(order) /\ \A m \in DOMAIN order : Linked(order[m])
SentExact == \A o \in Writes : /\ left[o] \in 0..Size[o] /\ Sent(o) = Size[o] - left[o]
                               /\ o \notin Range(order) => left[o] = Size[o]

\* The units of the writes are on the wire in the order of the writes.
WireSorted == \A i, j \in DOMAIN wire, m, n \in DOMAIN order :
                 i <= j /\ wire[i] = order[m] /\ wire[j] = order[n] => m <= n

\* n writes are complete, and none is begun but the one behind them; while the connection is
\* up the rest is what waits to be written, and nobody fails it.
Complete(n) == \A m \in DOMAIN order : /\ m <= n => left[order[m]] = 0
                                       /\ m > n + 1 => left[order[m]] = Size[order[m]]
InLine(n) == link # "down" =>
                /\ closer = "none" /\ pool["write"] # "fail"
                /\ pool["write"] = "call" => next["write"] # "fail"
                /\ n + Len(ToWrite) = Len(order)
                /\ \A k \in DOMAIN ToWrite : ToWrite[k] = order[n + k]

InTurn == \E n \in 0..Len(order) : Complete(n) /\ InLine(n)

WireParts == OrderOnce /\ SentExact /\ WireSorted /\ InTurn
WireIInv == PlaceIInv /\ WireParts

\* Types of what the wire's invariant speaks about.
LEMMA WireTypes ==
  ASSUME TypeOK, Sorted
  PROVE  /\ order \in Seq(Writes) /\ wire \in Seq(Writes) /\ left \in [Ops -> Nat]
         /\ batch["write"] \in Seq(Writes) /\ list["write"] \in Seq(Writes)
         /\ ToWrite \in Seq(Writes) /\ Size \in [Ops -> Nat \ {0}] /\ Writes \subseteq Ops
         /\ Len(order) \in Nat /\ DOMAIN order = 1..Len(order)
         /\ Len(wire) \in Nat /\ DOMAIN wire = 1..Len(wire)
         /\ Len(ToWrite) \in Nat /\ DOMAIN ToWrite = 1..Len(ToWrite)
<1>1. OpsOf("write") \subseteq Writes
  BY DEF OpsOf, Dir, Ops
<1>2. batch["write"] \in Seq(OpsOf("write")) /\ list["write"] \in Seq(OpsOf("write"))
  BY DEF Sorted, Directions
<1>3. batch["write"] \in Seq(Writes) /\ list["write"] \in Seq(Writes)
  BY <1>1, <1>2
<1>4. ToWrite \in Seq(Writes)
  BY <1>3, ConcatProperties DEF ToWrite
<1>5. order \in Seq(Writes) /\ wire \in Seq(Writes) /\ left \in [Ops -> Nat]
  BY DEF TypeOK
<1>6. Size \in [Ops -> Nat \ {0}] /\ Writes \subseteq Ops
  BY ConnectionAssumption DEF Ops
<1>7. QED BY <1>3, <1>4, <1>5, <1>6, LenProperties

\* A step that writes and links nothing.
LEMMA KeepsWire ==
  ASSUME WireParts, UNCHANGED <<order, wire, left>>, \A p \in Ops : Linked(p) => Linked(p)',
         order \in Seq(Ops),
         link' # "down" => /\ link # "down" /\ closer' = "none" /\ pool'["write"] # "fail"
                           /\ pool'["write"] = "call" => next'["write"] # "fail"
                           /\ ToWrite' = ToWrite
  PROVE  WireParts'
<1>1. OrderOnce'
  BY DEF WireParts, OrderOnce
<1>2. SentExact' /\ WireSorted'
  BY DEF WireParts, SentExact, WireSorted, Sent
<1>3. PICK n \in 0..Len(order) : Complete(n) /\ InLine(n)
  BY DEF WireParts, InTurn
<1>4. Complete(n)'
  BY <1>3 DEF Complete
<1>5. InLine(n)'
  BY <1>3 DEF InLine
<1>6. QED BY <1>1, <1>2, <1>4, <1>5 DEF WireParts, InTurn

\* listAddTail by connWrite.
LEMMA LinkWrite ==
  ASSUME WireIInv, NEW o \in Writes, Link(o)
  PROVE  WireParts'
<1>0. TypeOK /\ Sorted
  BY DEF WireIInv, PlaceIInv, SchedIInv, SchedExact
<1>1. /\ Dir(o) = "write" /\ o \in Ops /\ op[o] = "link" /\ ~Linked(o)
      /\ order' = Append(order, o) /\ list'["write"] = Append(list["write"], o)
      /\ UNCHANGED <<wire, left, batch, link, closer, pool, next>>
      /\ op' = [op EXCEPT ![o] = "count"]
  BY <1>0, ConnectionAssumption
     DEF Link, TypeOK, Dir, Ops, Linked, Directions, pools, closers, kernel
<1>2. /\ order \in Seq(Writes) /\ Len(order) \in Nat /\ DOMAIN order = 1..Len(order)
      /\ batch["write"] \in Seq(Writes) /\ list["write"] \in Seq(Writes) /\ ToWrite \in Seq(Writes)
      /\ Writes \subseteq Ops
      /\ Len(ToWrite) \in Nat /\ DOMAIN ToWrite = 1..Len(ToWrite)
  BY <1>0, WireTypes
<1>3. /\ Len(order') = Len(order) + 1 /\ DOMAIN order' = 1..(Len(order) + 1)
      /\ order'[Len(order) + 1] = o
      /\ \A m \in 1..Len(order) : order'[m] = order[m]
  BY <1>1, <1>2
<1>4. o \notin Range(order)
  BY <1>1 DEF WireIInv, WireParts, OrderOnce, Range
<1>5. OrderOnce'
  <2>1. IsInjective(order')
    <3>1. IsInjective(order)
      BY DEF WireIInv, WireParts, OrderOnce
    <3>2. IsInjective(Append(order, o))
      BY <1>2, <1>4, <3>1, AppendList
    <3>3. QED BY <1>1, <3>2
  <2>2. op'[o] = "count" /\ \A p \in Ops : op'[p] \in {op[p], "count"}
    BY <1>0, <1>1 DEF TypeOK
  <2>3. ASSUME NEW m \in 1..Len(order)
        PROVE  op'[order'[m]] \notin {"idle", "refused", "hold", "link"}
    <3>1. order[m] \in Ops
      BY <1>2, ElementOfSeq
    <3>2. op[order[m]] \notin {"idle", "refused", "hold", "link"} /\ order'[m] = order[m]
      BY <1>2, <1>3 DEF WireIInv, WireParts, OrderOnce, Linked
    <3>3. QED BY <2>2, <3>1, <3>2
  <2>4. \A m \in DOMAIN order' : op'[order'[m]] \notin {"idle", "refused", "hold", "link"}
    <3>1. \A m \in DOMAIN order' : m \in 1..Len(order) \/ m = Len(order) + 1
      BY <1>2, <1>3
    <3>2. QED BY <1>3, <2>2, <2>3, <3>1
  <2>5. QED BY <2>1, <2>4 DEF OrderOnce, Linked
<1>6. SentExact'
  <2>1. Range(order) \subseteq Range(order')
    BY <1>2, <1>3 DEF Range
  <2>2. QED BY <1>1, <2>1 DEF WireIInv, WireParts, SentExact, Sent
<1>7. \A i \in DOMAIN wire : wire[i] \in Writes /\ wire[i] # o
  <2>1. ASSUME NEW i \in DOMAIN wire, wire[i] = o PROVE FALSE
    <3>1. Sent(o) = 0
      <4>1. left[o] = Size[o] /\ Sent(o) = Size[o] - left[o] /\ Size[o] \in Nat
        BY <1>4, ConnectionAssumption DEF WireIInv, WireParts, SentExact, Ops
      <4>2. QED BY <4>1
    <3>2. {k \in DOMAIN wire : wire[k] = o} = {}
      <4>1. IsFiniteSet(DOMAIN wire)
        BY <1>0, WireTypes, FS_Interval
      <4>2. IsFiniteSet({k \in DOMAIN wire : wire[k] = o})
        BY <4>1, FS_Subset
      <4>3. QED BY <3>1, <4>2, FS_EmptySet DEF Sent
    <3>3. QED BY <2>1, <3>2
  <2>2. QED BY <1>0, <2>1, WireTypes
<1>8. WireSorted'
  <2>1. \A i, j \in DOMAIN wire, m, n \in DOMAIN order :
                 i <= j /\ wire[i] = order[m] /\ wire[j] = order[n] => m <= n
    BY DEF WireIInv, WireParts, WireSorted
  <2>2. ASSUME NEW i \in DOMAIN wire, NEW j \in DOMAIN wire, NEW m \in DOMAIN order', NEW n \in DOMAIN order',
               i <= j, wire[i] = order'[m], wire[j] = order'[n]
        PROVE  m <= n
    <3>1. m \in DOMAIN order /\ n \in DOMAIN order /\ order'[m] = order[m] /\ order'[n] = order[n]
      BY <1>2, <1>3, <1>7, <2>2
    <3>2. QED BY <2>1, <2>2, <3>1
  <2>3. QED BY <1>1, <2>2 DEF WireSorted
<1>9. PICK n \in 0..Len(order) : Complete(n) /\ InLine(n)
  BY DEF WireIInv, WireParts, InTurn
<1>10. Complete(n)'
  <2>1. left[o] = Size[o] /\ Size[o] \in Nat
    BY <1>4, ConnectionAssumption DEF WireIInv, WireParts, SentExact, Ops
  <2>2. n < Len(order) + 1
    BY <1>2
  <2>3. QED BY <1>1, <1>2, <1>3, <1>9, <2>1, <2>2 DEF Complete
<1>11. InLine(n)'
  <2> SUFFICES ASSUME link # "down" PROVE InLine(n)'
    BY <1>1 DEF InLine
  <2>1. /\ closer = "none" /\ pool["write"] # "fail"
        /\ pool["write"] = "call" => next["write"] # "fail"
        /\ n + Len(ToWrite) = Len(order)
        /\ \A k \in DOMAIN ToWrite : ToWrite[k] = order[n + k]
    BY <1>9 DEF InLine
  <2>2. ToWrite' = batch["write"] \o Append(list["write"], o)
    BY <1>1 DEF ToWrite
  <2>3. /\ Len(ToWrite') = Len(ToWrite) + 1 /\ DOMAIN ToWrite' = 1..(Len(ToWrite) + 1)
        /\ \A k \in 1..Len(ToWrite) : ToWrite'[k] = ToWrite[k]
        /\ ToWrite'[Len(ToWrite) + 1] = o
    <3>1. batch["write"] \in Seq(Writes) /\ list["write"] \in Seq(Writes)
      BY <1>2
    <3> DEFINE s == batch["write"]
               t == list["write"]
               r == Append(t, o)
               u == s \o t
               v == s \o r
    <3>2. ToWrite = u /\ ToWrite' = v
      BY <2>2 DEF ToWrite
    <3>3. /\ r \in Seq(Writes) /\ Len(r) = Len(t) + 1 /\ r[Len(t) + 1] = o
          /\ \A k \in 1..Len(t) : r[k] = t[k]
      BY <3>1
    <3> HIDE DEF s, t, r
    <3>4. /\ Len(s) \in Nat /\ Len(t) \in Nat
          /\ Len(u) = Len(s) + Len(t)
          /\ \A i \in 1..(Len(s) + Len(t)) : u[i] = IF i <= Len(s) THEN s[i] ELSE t[i - Len(s)]
      BY <3>1, ConcatProperties, LenProperties DEF s, t
    <3>5. /\ Len(v) = Len(s) + Len(r) /\ DOMAIN v = 1..Len(v)
          /\ \A i \in 1..(Len(s) + Len(r)) : v[i] = IF i <= Len(s) THEN s[i] ELSE r[i - Len(s)]
      BY <3>1, <3>3, ConcatProperties, LenProperties DEF s
    <3> HIDE DEF u, v
    <3>6. ASSUME NEW k \in 1..(Len(s) + Len(t)) PROVE v[k] = u[k]
      <4>1. CASE k <= Len(s)
        BY <3>3, <3>4, <3>5, <4>1
      <4>2. CASE k > Len(s)
        <5>1. k - Len(s) \in 1..Len(t) /\ k \in 1..(Len(s) + Len(r)) /\ ~(k <= Len(s))
          BY <3>3, <3>4, <4>2
        <5>2. u[k] = t[k - Len(s)]
          BY <3>4, <5>1
        <5>3. v[k] = r[k - Len(s)]
          BY <3>5, <5>1
        <5>4. QED BY <3>3, <5>1, <5>2, <5>3
      <4>3. QED BY <3>4, <4>1, <4>2
    <3>7. v[Len(s) + Len(t) + 1] = o
      <4>1. /\ Len(s) + Len(t) + 1 \in 1..(Len(s) + Len(r)) /\ ~(Len(s) + Len(t) + 1 <= Len(s))
            /\ Len(s) + Len(t) + 1 - Len(s) = Len(t) + 1
        BY <3>3, <3>4
      <4>2. QED BY <3>3, <3>5, <4>1
    <3>8. QED BY <3>2, <3>3, <3>4, <3>5, <3>6, <3>7
  <2>4. \A k \in 1..Len(ToWrite) : n + k \in 1..Len(order)
    BY <1>2, <2>1
  <2>5. ASSUME NEW k \in 1..(Len(ToWrite) + 1) PROVE ToWrite'[k] = order'[n + k]
    <3>1. CASE k \in 1..Len(ToWrite)
      <4>1. n + k \in 1..Len(order)
        BY <2>4, <3>1
      <4>2. ToWrite[k] = order[n + k]
        BY <1>2, <2>1, <3>1
      <4>3. QED BY <1>3, <2>3, <3>1, <4>1, <4>2
    <3>2. CASE k = Len(ToWrite) + 1
      <4>1. n + k = Len(order) + 1
        <5>1. Len(ToWrite) \in Nat /\ Len(order) \in Nat /\ n \in Nat
          BY <1>2
        <5>2. n + Len(ToWrite) = Len(order)
          BY <2>1
        <5>3. QED BY <3>2, <5>1, <5>2
      <4>2. QED BY <1>3, <2>3, <3>2, <4>1
    <3>3. QED BY <1>2, <3>1, <3>2
  <2>6. QED BY <1>1, <1>3, <2>1, <2>3, <2>5 DEF InLine
<1>12. n \in 0..Len(order')
  BY <1>2, <1>3
<1>13. QED BY <1>5, <1>6, <1>8, <1>10, <1>11, <1>12 DEF WireParts, InTurn

\* The units of a step of socketNoneBlockWrite come behind those that are there.
LEMMA SentMore ==
  ASSUME TypeOK, NEW o \in Writes, NEW k \in Nat, wire' = wire \o [i \in 1..k |-> o]
  PROVE  /\ \A p \in Writes : Sent(p)' = IF p = o THEN Sent(p) + k ELSE Sent(p)
         /\ Len(wire') = Len(wire) + k /\ DOMAIN wire' = 1..(Len(wire) + k)
         /\ \A i \in 1..(Len(wire) + k) : wire'[i] = IF i <= Len(wire) THEN wire[i] ELSE o
<1> DEFINE t == [i \in 1..k |-> o]
<1>1. wire \in Seq(Writes) /\ Len(wire) \in Nat /\ DOMAIN wire = 1..Len(wire)
  BY LenProperties DEF TypeOK
<1>2. t \in Seq(Writes) /\ Len(t) = k /\ \A i \in 1..k : t[i] = o
  OBVIOUS
<1>3. wire' = wire \o t
  OBVIOUS
<1> HIDE DEF t
<1>4. /\ Len(wire') = Len(wire) + k /\ DOMAIN wire' = 1..(Len(wire) + k)
      /\ \A i \in 1..(Len(wire) + k) : wire'[i] = IF i <= Len(wire) THEN wire[i] ELSE o
  <2> DEFINE v == wire \o t
  <2>0. /\ Len(v) = Len(wire) + Len(t) /\ DOMAIN v = 1..Len(v)
        /\ \A i \in 1..(Len(wire) + Len(t)) : v[i] = IF i <= Len(wire) THEN wire[i] ELSE t[i - Len(wire)]
    BY <1>1, <1>2, ConcatProperties, LenProperties
  <2> HIDE DEF v
  <2>1. wire' = v
    BY <1>3 DEF v
  <2>2. ASSUME NEW i \in 1..(Len(wire) + k), ~(i <= Len(wire)) PROVE t[i - Len(wire)] = o
    <3>1. i - Len(wire) \in 1..k
      BY <1>1, <2>2
    <3>2. QED BY <1>2, <3>1
  <2>3. QED BY <1>1, <1>2, <2>0, <2>1, <2>2
<1>5. ASSUME NEW p \in Writes PROVE Sent(p)' = IF p = o THEN Sent(p) + k ELSE Sent(p)
  <2> DEFINE A == {i \in DOMAIN wire : wire[i] = p}
             B == (Len(wire) + 1)..(Len(wire) + k)
  <2>1. {i \in DOMAIN wire' : wire'[i] = p} = IF p = o THEN A \cup B ELSE A
    BY <1>1, <1>4
  <2>2. IsFiniteSet(A) /\ Cardinality(A) \in Nat
    <3>1. IsFiniteSet(1..Len(wire)) /\ A \subseteq 1..Len(wire)
      BY <1>1, FS_Interval
    <3>2. QED BY <3>1, FS_Subset, FS_CardinalityType
  <2>3. IsFiniteSet(B) /\ Cardinality(B) = k
    <3>1. Len(wire) + 1 \in Int /\ Len(wire) + k \in Int
      BY <1>1
    <3>2. /\ IsFiniteSet(B)
          /\ Cardinality(B) = IF Len(wire) + 1 > Len(wire) + k THEN 0
                              ELSE (Len(wire) + k) - (Len(wire) + 1) + 1
      BY <3>1, FS_Interval
    <3>3. QED BY <1>1, <3>2
  <2>4. A \cap B = {}
    BY <1>1
  <2>5. Cardinality(A \cup B) = Cardinality(A) + k
    <3> HIDE DEF A, B
    <3>1. Cardinality(A \cup B) = Cardinality(A) + Cardinality(B) - Cardinality(A \cap B)
      BY <2>2, <2>3, FS_Union
    <3>2. Cardinality(A \cap B) = 0
      BY <2>4, FS_EmptySet
    <3>3. QED BY <2>2, <2>3, <3>1, <3>2
  <2>6. Sent(p)' = Cardinality(IF p = o THEN A \cup B ELSE A) /\ Sent(p) = Cardinality(A)
    BY <2>1 DEF Sent
  <2> HIDE DEF A, B
  <2>7. QED BY <2>5, <2>6
<1>6. QED BY <1>4, <1>5

\* The tail of two sequences.
LEMMA TailOfConcat ==
  ASSUME NEW S, NEW s \in Seq(S), s # <<>>, NEW t \in Seq(S)
  PROVE  Tail(s) \o t = Tail(s \o t)
<1> DEFINE h == Tail(s)
           u == s \o t
           v == h \o t
           w == Tail(u)
<1>1. /\ h \in Seq(S) /\ Len(h) = Len(s) - 1 /\ Len(s) \in Nat /\ Len(s) >= 1 /\ Len(t) \in Nat
      /\ \A i \in 1..(Len(s) - 1) : h[i] = s[i + 1]
  BY HeadTailProperties, LenProperties
<1>2. /\ u \in Seq(S) /\ Len(u) = Len(s) + Len(t)
      /\ \A i \in 1..(Len(s) + Len(t)) : u[i] = IF i <= Len(s) THEN s[i] ELSE t[i - Len(s)]
  BY ConcatProperties
<1> HIDE DEF h
<1>3. /\ v \in Seq(S) /\ Len(v) = Len(h) + Len(t)
      /\ \A i \in 1..(Len(h) + Len(t)) : v[i] = IF i <= Len(h) THEN h[i] ELSE t[i - Len(h)]
  BY <1>1, ConcatProperties
<1> HIDE DEF u, v
<1>4. /\ w \in Seq(S) /\ Len(w) = Len(u) - 1
      /\ \A i \in 1..(Len(u) - 1) : w[i] = u[i + 1]
  <2>1. u # <<>>
    BY <1>1, <1>2
  <2>2. QED BY <1>2, <2>1, HeadTailProperties
<1> HIDE DEF w
<1>5. ASSUME NEW i \in 1..Len(v) PROVE v[i] = w[i]
  <2>0. /\ i \in 1..(Len(h) + Len(t)) /\ i + 1 \in 1..(Len(s) + Len(t)) /\ i \in 1..(Len(u) - 1)
        /\ i + 1 - Len(s) = i - Len(h) /\ (i <= Len(h) <=> i + 1 <= Len(s))
    BY <1>1, <1>2, <1>3
  <2>1. w[i] = u[i + 1]
    BY <1>4, <2>0
  <2>2. CASE i <= Len(h)
    <3>1. v[i] = h[i] /\ h[i] = s[i + 1] /\ u[i + 1] = s[i + 1]
      BY <1>1, <1>2, <1>3, <2>0, <2>2
    <3>2. QED BY <2>1, <3>1
  <2>3. CASE ~(i <= Len(h))
    <3>1. v[i] = t[i - Len(h)] /\ u[i + 1] = t[i + 1 - Len(s)]
      BY <1>2, <1>3, <2>0, <2>3
    <3>2. QED BY <2>0, <2>1, <3>1
  <2>4. QED BY <2>2, <2>3
<1>6. Len(v) = Len(w)
  BY <1>1, <1>2, <1>3, <1>4
<1>7. v = w
  BY <1>3, <1>4, <1>5, <1>6, SeqEqual
<1>8. QED BY <1>7 DEF u, v, w, h

\* socketNoneBlockWrite goes on with the first write that is not complete.
LEMMA WriteParts ==
  ASSUME WireIInv, WriteSome
  PROVE  WireParts'
<1> DEFINE o == Head(batch["write"])
           k == Movable("write")
<1>0. TypeOK /\ Sorted /\ OrderOnce /\ SentExact /\ WireSorted /\ InTurn
  BY DEF WireIInv, WireParts, PlaceIInv, SchedIInv, SchedExact
<1>1. /\ order \in Seq(Writes) /\ wire \in Seq(Writes) /\ left \in [Ops -> Nat]
      /\ batch["write"] \in Seq(Writes) /\ list["write"] \in Seq(Writes)
      /\ ToWrite \in Seq(Writes) /\ Size \in [Ops -> Nat \ {0}] /\ Writes \subseteq Ops
      /\ Len(order) \in Nat /\ DOMAIN order = 1..Len(order)
      /\ Len(wire) \in Nat /\ DOMAIN wire = 1..Len(wire)
      /\ Len(ToWrite) \in Nat /\ DOMAIN ToWrite = 1..Len(ToWrite)
  BY <1>0, WireTypes
<1>2. batch["write"] # <<>> /\ link # "down" /\ pool["write"] = "io"
  BY DEF WriteSome
<1>3. /\ o \in Writes /\ o = ToWrite[1] /\ Len(ToWrite) >= 1 /\ o = batch["write"][1]
  <2>1. /\ o \in Writes /\ o = batch["write"][1] /\ Len(batch["write"]) \in Nat
        /\ Len(batch["write"]) >= 1
    BY <1>1, <1>2
  <2> DEFINE s == batch["write"]
             t == list["write"]
             u == s \o t
  <2>2. ToWrite = u
    BY DEF ToWrite
  <2>8. s \in Seq(Writes) /\ t \in Seq(Writes)
    BY <1>1
  <2> HIDE DEF s, t
  <2>3. /\ Len(u) = Len(s) + Len(t) /\ Len(s) \in Nat /\ Len(t) \in Nat
        /\ \A i \in 1..(Len(s) + Len(t)) : u[i] = IF i <= Len(s) THEN s[i] ELSE t[i - Len(s)]
    BY <2>8, ConcatProperties, LenProperties
  <2> HIDE DEF u
  <2>4. Len(s) >= 1 /\ s[1] = o
    BY <2>1 DEF s
  <2>5. 1 \in 1..(Len(s) + Len(t)) /\ 1 <= Len(s)
    BY <2>3, <2>4
  <2>6. u[1] = o /\ Len(u) >= 1
    BY <2>3, <2>4, <2>5
  <2>7. QED BY <2>1, <2>2, <2>6
<1>4. k \in Nat /\ k <= left[o] /\ (k < left[o] \/ k = left[o]) /\ left[o] \in Nat
  <2>1. units["write"] \in Nat /\ left[o] \in Nat
    BY <1>0, <1>1, <1>3 DEF TypeOK, Directions
  <2>2. k = IF units["write"] < left[o] THEN units["write"] ELSE left[o]
    BY DEF Movable
  <2> HIDE DEF k, o
  <2>3. QED BY <2>1, <2>2
<1>5. /\ wire' = wire \o [i \in 1..k |-> o] /\ left' = [left EXCEPT ![o] = @ - k]
      /\ UNCHANGED <<order, list, op, closer, link>>
      /\ k < left[o] => pool'["write"] = "rejoin" /\ UNCHANGED batch
      /\ k = left[o] => /\ pool'["write"] = "call" /\ next'["write"] = "io"
                        /\ batch'["write"] = Tail(batch["write"])
  <2>1. /\ wire' = wire \o [i \in 1..k |-> o] /\ left' = [left EXCEPT ![o] = @ - k]
        /\ UNCHANGED <<order, list, op, closer, link>>
        /\ IF k < left[o]
           THEN pool' = [pool EXCEPT !["write"] = "rejoin"] /\ UNCHANGED <<batch, cur, next>>
           ELSE CallBack("write", "io")
    BY DEF WriteSome, conn, closers
  <2> HIDE DEF k
  <2>2. ASSUME k = left[o] PROVE CallBack("write", "io")
    BY <1>4, <2>1, <2>2
  <2>3. "write" \in DOMAIN pool /\ "write" \in DOMAIN next /\ "write" \in DOMAIN batch
    BY <1>0 DEF TypeOK, Directions
  <2>4. QED BY <2>1, <2>2, <2>3 DEF CallBack
<1> HIDE DEF k, o
<1>6. \A p \in Ops : left'[p] = IF p = o THEN left[p] - k ELSE left[p]
  BY <1>1, <1>5
<1>7. /\ \A p \in Writes : Sent(p)' = IF p = o THEN Sent(p) + k ELSE Sent(p)
      /\ Len(wire') = Len(wire) + k /\ DOMAIN wire' = 1..(Len(wire) + k)
      /\ \A i \in 1..(Len(wire) + k) : wire'[i] = IF i <= Len(wire) THEN wire[i] ELSE o
  BY <1>0, <1>3, <1>4, <1>5, SentMore
<1>8. PICK n \in 0..Len(order) : Complete(n) /\ InLine(n)
  BY <1>0 DEF InTurn
<1>9. /\ closer = "none" /\ n + Len(ToWrite) = Len(order)
      /\ \A i \in 1..Len(ToWrite) : ToWrite[i] = order[n + i]
  BY <1>1, <1>2, <1>8 DEF InLine
<1>10. n \in Nat /\ n + 1 \in 1..Len(order) /\ order[n + 1] = o
  <2>1. 1 \in 1..Len(ToWrite)
    BY <1>1, <1>3
  <2>2. n \in Nat /\ n + 1 <= Len(order)
    BY <1>1, <1>3, <1>9
  <2>3. ToWrite[1] = order[n + 1]
    BY <1>9, <2>1
  <2>4. n + 1 \in 1..Len(order)
    BY <1>1, <2>2
  <2>5. order[n + 1] = o
    BY <1>3, <2>3
  <2>6. QED BY <2>2, <2>4, <2>5
<1>11. \A m \in 1..Len(order) : order[m] \in Writes /\ (order[m] = o <=> m = n + 1)
  <2>1. \A m \in 1..Len(order) : order[m] \in Writes
    BY <1>1, ElementOfSeq
  <2>2. \A m, l \in 1..Len(order) : order[m] = order[l] => m = l
    BY <1>0, <1>1 DEF OrderOnce, IsInjective
  <2>3. ASSUME NEW m \in 1..Len(order) PROVE order[m] = o <=> m = n + 1
    <3> DEFINE l == n + 1
    <3>1. l \in 1..Len(order) /\ order[l] = o
      BY <1>10
    <3> HIDE DEF l
    <3>2. order[m] = o <=> m = l
      BY <2>2, <3>1
    <3>3. QED BY <3>2 DEF l
  <2>4. QED BY <2>1, <2>3
<1>12. OrderOnce'
  BY <1>0, <1>5 DEF OrderOnce, Linked
<1>13. SentExact'
  <2>1. o \in Range(order)
    BY <1>1, <1>10 DEF Range
  <2>2. ASSUME NEW p \in Writes
        PROVE  /\ left'[p] \in 0..Size[p] /\ Sent(p)' = Size[p] - left'[p]
               /\ p \notin Range(order) => left'[p] = Size[p]
    <3>1. /\ left[p] \in 0..Size[p] /\ Sent(p) = Size[p] - left[p] /\ Size[p] \in Nat
          /\ p \notin Range(order) => left[p] = Size[p]
      BY <1>0, <1>1 DEF SentExact
    <3>2. CASE p = o
      <4>1. left'[p] = left[p] - k /\ Sent(p)' = Sent(p) + k
        BY <1>1, <1>6, <1>7, <3>2
      <4>2. k \in Nat /\ k <= left[p] /\ left[p] \in Nat
        BY <1>4, <3>2
      <4>3. QED BY <2>1, <3>1, <3>2, <4>1, <4>2
    <3>3. CASE p # o
      <4>1. left'[p] = left[p] /\ Sent(p)' = Sent(p)
        BY <1>1, <1>6, <1>7, <3>3
      <4>2. QED BY <3>1, <4>1
    <3>4. QED BY <3>2, <3>3
  <2>3. QED BY <1>5, <2>2 DEF SentExact
<1>14. WireSorted'
  <2>1. ASSUME NEW i \in DOMAIN wire, NEW m \in DOMAIN order, wire[i] = order[m] PROVE m <= n + 1
    <3>1. order[m] \in Writes /\ wire[i] \in Writes /\ Sent(order[m]) # 0
      <4>1. IsFiniteSet(DOMAIN wire)
        BY <1>1, FS_Interval
      <4>2. IsFiniteSet({j \in DOMAIN wire : wire[j] = order[m]})
        BY <4>1, FS_Subset
      <4>3. {j \in DOMAIN wire : wire[j] = order[m]} # {}
        BY <2>1
      <4>4. QED BY <1>1, <1>11, <2>1, <4>2, <4>3, FS_EmptySet DEF Sent
    <3>2. left[order[m]] # Size[order[m]]
      <4>1. Sent(order[m]) = Size[order[m]] - left[order[m]] /\ Size[order[m]] \in Nat
        BY <1>0, <1>1, <3>1 DEF SentExact
      <4>2. QED BY <3>1, <4>1
    <3>3. QED BY <1>1, <1>8, <1>10, <3>2 DEF Complete
  <2>2. ASSUME NEW i \in DOMAIN wire', NEW j \in DOMAIN wire', NEW m \in DOMAIN order, NEW l \in DOMAIN order,
               i <= j, wire'[i] = order[m], wire'[j] = order[l]
        PROVE  m <= l
    <3>1. CASE j <= Len(wire)
      <4>1. i \in 1..(Len(wire) + k) /\ j \in 1..(Len(wire) + k) /\ i <= Len(wire)
        BY <1>1, <1>4, <1>7, <2>2, <3>1
      <4>2. wire'[i] = wire[i] /\ wire'[j] = wire[j]
        BY <1>7, <3>1, <4>1
      <4>3. i \in DOMAIN wire /\ j \in DOMAIN wire
        BY <1>1, <1>4, <3>1, <4>1
      <4>4. QED BY <1>0, <2>2, <4>2, <4>3 DEF WireSorted
    <3>2. CASE ~(j <= Len(wire))
      <4>1. wire'[j] = o /\ l = n + 1
        BY <1>1, <1>7, <1>11, <2>2, <3>2
      <4>2. CASE i <= Len(wire)
        <5>1. i \in DOMAIN wire /\ wire'[i] = wire[i]
          BY <1>1, <1>4, <1>7, <2>2, <4>2
        <5>2. QED BY <2>1, <2>2, <4>1, <5>1
      <4>3. CASE ~(i <= Len(wire))
        <5>1. wire'[i] = o
          BY <1>7, <4>3
        <5>2. m = n + 1
          BY <1>1, <1>11, <2>2, <5>1
        <5>3. QED BY <1>10, <4>1, <5>2
      <4>4. QED BY <4>2, <4>3
    <3>3. QED BY <3>1, <3>2
  <2>3. QED BY <1>5, <2>2 DEF WireSorted
<1>15. InTurn'
  <2>1. CASE k < left[o]
    <3>1. Complete(n)'
      BY <1>1, <1>5, <1>6, <1>8, <1>10, <1>11 DEF Complete
    <3>2. InLine(n)'
      <4>1. ToWrite' = ToWrite
        BY <1>5, <2>1 DEF ToWrite
      <4>2. QED BY <1>1, <1>5, <1>9, <2>1, <4>1 DEF InLine
    <3>3. QED BY <1>5, <3>1, <3>2 DEF InTurn
  <2>2. CASE k = left[o]
    <3>1. Complete(n + 1)'
      <4>1. left'[o] = 0
        <5>1. left'[o] = left[o] - k
          BY <1>1, <1>3, <1>6
        <5>2. QED BY <1>4, <2>2, <5>1
      <4>2. ASSUME NEW m \in 1..Len(order)
            PROVE  /\ m <= n + 1 => left'[order[m]] = 0
                   /\ m > n + 1 + 1 => left'[order[m]] = Size[order[m]]
        <5>1. CASE m = n + 1
          BY <1>10, <4>1, <5>1
        <5>2. CASE m # n + 1
          <6>1. left'[order[m]] = left[order[m]]
            BY <1>1, <1>6, <1>11, <5>2
          <6>2. /\ m <= n + 1 => m <= n
                /\ m > n + 1 + 1 => m > n + 1
            BY <1>10, <5>2
          <6>3. QED BY <1>1, <1>8, <6>1, <6>2 DEF Complete
        <5>3. QED BY <5>1, <5>2
      <4>3. QED BY <1>1, <1>5, <4>2 DEF Complete
    <3>2. ToWrite' = Tail(ToWrite)
      <4>1. ToWrite' = Tail(batch["write"]) \o list["write"]
        BY <1>5, <2>2 DEF ToWrite
      <4>2. QED BY <1>1, <1>2, <4>1, TailOfConcat DEF ToWrite
    <3>3. /\ Len(ToWrite') = Len(ToWrite) - 1 /\ DOMAIN ToWrite' = 1..(Len(ToWrite) - 1)
          /\ \A i \in 1..(Len(ToWrite) - 1) : ToWrite'[i] = ToWrite[i + 1]
      <4>1. ToWrite # <<>>
        BY <1>3
      <4>2. QED BY <1>1, <3>2, <4>1, HeadTailProperties
    <3>4. ASSUME NEW i \in 1..(Len(ToWrite) - 1) PROVE ToWrite'[i] = order[n + 1 + i]
      <4>1. i + 1 \in 1..Len(ToWrite) /\ n + (i + 1) = n + 1 + i
        BY <1>1, <1>10
      <4>2. QED BY <1>9, <3>3, <4>1
    <3>5. InLine(n + 1)'
      <4>1. n + 1 + Len(ToWrite') = Len(order)
        <5>1. /\ Len(ToWrite) \in Nat /\ Len(order) \in Nat /\ n \in Nat
              /\ Len(ToWrite') = Len(ToWrite) - 1
          BY <1>1, <1>10, <3>3
        <5>2. n + Len(ToWrite) = Len(order)
          BY <1>9
        <5>3. QED BY <5>1, <5>2
      <4>2. QED BY <1>5, <1>9, <2>2, <3>3, <3>4, <4>1 DEF InLine
    <3>6. n + 1 \in 0..Len(order')
      BY <1>1, <1>5, <1>10
    <3>7. QED BY <3>1, <3>5, <3>6 DEF InTurn
  <2>3. QED BY <1>4, <2>1, <2>2
<1>16. QED BY <1>12, <1>13, <1>14, <1>15 DEF WireParts

\* The calls of the user.
LEMMA CallersWire ==
  ASSUME WireIInv, NEW o \in Ops, Refuse(o) \/ Enter(o) \/ Call(o)
  PROVE  WireParts'
<1>0. TypeOK /\ Sorted /\ WireParts
  BY DEF WireIInv, PlaceIInv, SchedIInv, SchedExact
<1>1. order \in Seq(Ops)
  BY <1>0, WireTypes
<1>2. CASE Link(o) /\ o \in Writes
  BY <1>2, LinkWrite
<1>3. CASE ~(Link(o) /\ o \in Writes)
  <2>1. UNCHANGED <<left, wire, batch, pool, next, link, closer>>
    BY DEF Refuse, Enter, Call, Hold, Link, Count, Uncount, Claim, Post, pools, closers, kernel, history
  <2>2. \A p \in Ops : Linked(p) => Linked(p)'
    <3>1. ASSUME NEW pc, op' = [op EXCEPT ![o] = pc],
                 op[o] \in {"idle", "refused", "hold", "link"}
                        \/ pc \notin {"idle", "refused", "hold", "link"}
          PROVE  \A p \in Ops : Linked(p) => Linked(p)'
      BY <1>0, <3>1 DEF TypeOK, Linked
    <3>2. CASE Refuse(o) \/ Enter(o) \/ Hold(o)
      <4>1. \E pc : op' = [op EXCEPT ![o] = pc] /\ op[o] \in {"idle", "refused", "hold", "link"}
        BY <3>2 DEF Refuse, Enter, Hold
      <4>2. QED BY <3>1, <4>1
    <3>3. CASE Link(o) \/ Count(o) \/ Uncount(o) \/ Claim(o) \/ Post(o)
      <4>1. \E pc \in {"count", "claim", "uncount", "post", "out"} : op' = [op EXCEPT ![o] = pc]
        BY <3>3 DEF Link, Count, Uncount, Claim, Post
      <4>2. QED BY <3>1, <4>1
    <3>4. QED BY <3>2, <3>3 DEF Call
  <2>3. UNCHANGED order /\ list'["write"] = list["write"]
    <3>1. CASE Link(o)
      <4>1. o \notin Writes
        BY <1>3, <3>1
      <4>2. Dir(o) = "read"
        BY <4>1 DEF Dir, Ops
      <4>3. QED BY <1>0, <3>1, <4>1, <4>2 DEF Link, TypeOK, Directions
    <3>2. CASE ~Link(o)
      <4>1. Refuse(o) \/ Enter(o) \/ Hold(o) \/ Count(o) \/ Uncount(o) \/ Claim(o) \/ Post(o)
        BY <3>2 DEF Call
      <4>2. UNCHANGED <<list, order>>
        BY <4>1 DEF Refuse, Enter, Hold, Count, Uncount, Claim, Post, conn, history
      <4>3. QED BY <4>2
    <3>3. QED BY <3>1, <3>2
  <2>4. ToWrite' = ToWrite
    BY <2>1, <2>3 DEF ToWrite
  <2>5. link' # "down" => /\ link # "down" /\ closer' = "none" /\ pool'["write"] # "fail"
                          /\ pool'["write"] = "call" => next'["write"] # "fail"
                          /\ ToWrite' = ToWrite
    BY <1>0, <2>1, <2>4 DEF WireParts, InTurn, InLine
  <2>6. QED BY <1>0, <1>1, <2>1, <2>2, <2>3, <2>5, KeepsWire
<1>4. QED BY <1>2, <1>3

\* What the threads of the writes do beside writing: they take the list, and put back in
\* front of it what they have not come to.
LEMMA PoolWire ==
  ASSUME WireIInv, NEW d \in Directions, Pool(d)
  PROVE  WireParts'
<1>0. TypeOK /\ Sorted /\ WireParts /\ Hands /\ Control
  BY DEF WireIInv, PlaceIInv, SchedIInv, SchedExact
<1>1. order \in Seq(Ops)
  BY <1>0, WireTypes
<1>2. link # "down" => /\ closer = "none" /\ closed = 0 /\ pool["write"] # "fail"
                       /\ pool["write"] = "call" => next["write"] # "fail"
  BY <1>0 DEF WireParts, InTurn, InLine, Control
<1>3. \A e \in Directions : e \in DOMAIN pool /\ e \in DOMAIN next /\ e \in DOMAIN batch /\ e \in DOMAIN list
  BY <1>0 DEF TypeOK
<1>4. CASE d = "write" /\ WriteSome
  BY <1>4, WriteParts
<1>5. CASE ~(d = "write" /\ WriteSome)
  <2>1. /\ UNCHANGED <<order, wire, left, closer, op>>
        /\ link' # "down" => link # "down"
    BY <1>5 DEF Pool, Start, Take, Test, Error, WouldBlock, ReadSome, FailNext, Return, Rejoin, Drop,
                users, closers, kernel, history
  <2>2. \A p \in Ops : Linked(p) => Linked(p)'
    BY <2>1 DEF Linked
  <2>3. ASSUME link' # "down"
        PROVE  /\ pool'["write"] # "fail"
               /\ pool'["write"] = "call" => next'["write"] # "fail"
               /\ ToWrite' = ToWrite
    <3>0. /\ link # "down" /\ closer = "none" /\ closed = 0 /\ pool["write"] # "fail"
          /\ pool["write"] = "call" => next["write"] # "fail"
      BY <1>2, <2>1, <2>3
    <3>1. CASE d = "read"
      <4>1. /\ batch'["write"] = batch["write"] /\ list'["write"] = list["write"]
            /\ pool'["write"] = pool["write"] /\ next'["write"] = next["write"]
        BY <1>3, <3>1 DEF Pool, Start, Take, Test, Error, WouldBlock, ReadSome, FailNext, Return, Rejoin,
                          Drop, CallBack, conn, pools, Directions
      <4>2. QED BY <3>0, <4>1 DEF ToWrite
    <3>2. CASE d = "write" /\ (Start(d) \/ Test(d) \/ WouldBlock(d) \/ Return(d) \/ Drop(d))
      <4>1. UNCHANGED <<batch, list>>
        BY <3>2 DEF Start, Test, WouldBlock, Return, Drop, conn
      <4>2. pool'["write"] \in {"take", "io", "rejoin", "idle"} \/ pool'["write"] = next["write"]
        BY <1>3, <3>0, <3>2 DEF Start, Test, WouldBlock, Return, Drop
      <4>3. next["write"] \in {"idle", "io", "rejoin", "fail"}
        BY <1>0 DEF TypeOK, Directions
      <4>4. pool'["write"] = next["write"] => pool["write"] = "call" \/ pool'["write"] # "call"
        BY <4>3
      <4>5. pool'["write"] # "fail" /\ pool'["write"] # "call"
        <5>1. CASE Return(d)
          BY <1>3, <3>0, <3>2, <4>3, <5>1 DEF Return
        <5>2. CASE ~Return(d)
          BY <1>3, <3>0, <3>2, <5>2 DEF Start, Test, WouldBlock, Drop
        <5>3. QED BY <5>1, <5>2
      <4>6. QED BY <4>1, <4>5 DEF ToWrite
    <3>3. CASE d = "write" /\ Take(d)
      <4>1. /\ batch["write"] = <<>> /\ batch'["write"] = list["write"] /\ list'["write"] = <<>>
            /\ pool'["write"] = "test"
        BY <1>0, <1>3, <3>3 DEF Take, Hands
      <4>2. list["write"] \in Seq(Writes)
        BY <1>0, WireTypes
      <4>3. list["write"] \o <<>> = list["write"] /\ <<>> \o list["write"] = list["write"]
        BY <4>2, ConcatEmptySeq
      <4>4. QED BY <4>1, <4>3 DEF ToWrite
    <3>4. CASE d = "write" /\ Rejoin(d)
      <4>1. /\ list'["write"] = batch["write"] \o list["write"] /\ batch'["write"] = <<>>
            /\ pool'["write"] = "io"
        BY <1>3, <3>4 DEF Rejoin
      <4>2. batch["write"] \o list["write"] \in Seq(Writes)
        BY <1>0, WireTypes DEF ToWrite
      <4>3. <<>> \o (batch["write"] \o list["write"]) = batch["write"] \o list["write"]
        BY <4>2, ConcatEmptySeq
      <4>4. QED BY <4>1, <4>3 DEF ToWrite
    <3>5. CASE d = "write" /\ (Error(d) \/ FailNext(d))
      BY <3>0, <3>5 DEF Error, FailNext
    <3>6. QED BY <1>5, <3>1, <3>2, <3>3, <3>4, <3>5 DEF Pool, Directions
  <2>4. QED BY <1>0, <1>1, <1>2, <2>1, <2>2, <2>3, KeepsWire
<1>6. QED BY <1>4, <1>5

\* The epoll thread, the closer, which begins when the connection is down, and the kernel.
LEMMA OthersWire ==
  ASSUME WireIInv, Epoll \/ Closer \/ Kernel \/ Traffic \/ UNCHANGED vars
  PROVE  WireParts'
<1>0. TypeOK /\ Sorted /\ WireParts
  BY DEF WireIInv, PlaceIInv, SchedIInv, SchedExact
<1>1. order \in Seq(Ops)
  BY <1>0, WireTypes
<1>2. link # "down" => /\ closer = "none" /\ pool["write"] # "fail"
                       /\ pool["write"] = "call" => next["write"] # "fail"
  BY <1>0 DEF WireParts, InTurn, InLine
<1>3. UNCHANGED <<order, wire, left, op, pool, next, batch>>
  BY DEF Epoll, Event, Look, EpollCount, EpollUncount, EpollClaim, EpollPost, HangUp, Closer, Mark,
         Drain, FailPending, OnClose, CloserDrop, Kernel, Arrive, PeerShutdown, GoDown, Traffic, vars,
         users, pools, history
<1>4. link' # "down" => link # "down" /\ UNCHANGED <<list, closer>>
  <2>1. CASE Epoll
    BY <2>1 DEF Epoll, Event, Look, EpollCount, EpollUncount, EpollClaim, EpollPost, HangUp, conn,
                closers, kernel
  <2>2. CASE Closer
    <3>1. closer # "none" /\ UNCHANGED link
      BY <2>2 DEF Closer, Mark, Drain, FailPending, OnClose, CloserDrop, kernel
    <3>2. QED BY <1>2, <3>1
  <2>3. CASE Kernel \/ Traffic \/ UNCHANGED vars
    BY <2>3 DEF Kernel, Arrive, PeerShutdown, GoDown, Traffic, vars, conn, closers, kernel
  <2>4. QED BY <2>1, <2>2, <2>3
<1>5. \A p \in Ops : Linked(p) => Linked(p)'
  BY <1>3 DEF Linked
<1>6. link' # "down" => ToWrite' = ToWrite
  BY <1>3, <1>4 DEF ToWrite
<1>7. QED BY <1>0, <1>1, <1>2, <1>3, <1>4, <1>5, <1>6, KeepsWire

\* Nothing is on the wire of a connection nobody has used.
LEMMA InitWire == Init => WireParts
<1> SUFFICES ASSUME Init PROVE WireParts
  OBVIOUS
<1>1. /\ order = <<>> /\ wire = <<>> /\ left = Size /\ closer = "none"
      /\ pool["write"] = "idle" /\ batch["write"] = <<>> /\ list["write"] = <<>>
  BY DEF Init, Directions
<1>2. OrderOnce /\ WireSorted /\ Complete(0)
  BY <1>1 DEF OrderOnce, IsInjective, WireSorted, Complete
<1>3. SentExact
  <2>1. \A o \in Writes : Sent(o) = 0
    <3>1. ASSUME NEW o \in Writes PROVE {i \in DOMAIN wire : wire[i] = o} = {}
      BY <1>1
    <3>2. QED BY <3>1, FS_EmptySet DEF Sent
  <2>2. \A o \in Writes : Size[o] \in Nat
    BY ConnectionAssumption DEF Ops
  <2>3. QED BY <1>1, <2>1, <2>2 DEF SentExact
<1>4. InLine(0)
  <2>1. ToWrite = <<>>
    BY <1>1, ConcatEmptySeq, EmptySeq DEF ToWrite
  <2>2. QED BY <1>1, <2>1 DEF InLine
<1>5. InTurn
  BY <1>1, <1>2, <1>4 DEF InTurn
<1>6. QED BY <1>2, <1>3, <1>5 DEF WireParts

\* The invariant of the wire holds of both specifications.
THEOREM WireInvariance == (Spec => []WireIInv) /\ (TrafficSpec => []WireIInv)
<1>1. Init => WireIInv
  BY InitSched, InitPlace, InitWire DEF WireIInv, PlaceIInv
<1>2. WireIInv /\ [NextTraffic]_vars => WireIInv'
  <2> SUFFICES ASSUME WireIInv, [NextTraffic]_vars PROVE WireIInv'
    OBVIOUS
  <2>1. PlaceIInv'
    BY PlaceStep DEF WireIInv
  <2>2. CASE User
    BY <2>1, <2>2, CallersWire DEF User, WireIInv
  <2>3. CASE \E d \in Directions : Pool(d)
    BY <2>1, <2>3, PoolWire DEF WireIInv
  <2>4. CASE Epoll \/ Closer \/ Kernel \/ Traffic \/ UNCHANGED vars
    BY <2>1, <2>4, OthersWire DEF WireIInv
  <2>5. QED BY <2>2, <2>3, <2>4 DEF NextTraffic, Next
<1>3. [Next]_vars => [NextTraffic]_vars
  BY DEF NextTraffic
<1>4. QED BY <1>1, <1>2, <1>3, PTL DEF Spec, TrafficSpec

\* The bytes of the writes are on the wire one write after the other, in the order of their
\* calls and none left out or doubled, whatever blocks, fails or closes: a write that would
\* block is continued where it stopped before the next one begins.
THEOREM WritesDoNotMix == (Spec => []WireInOrder) /\ (TrafficSpec => []WireInOrder)
<1>1. ASSUME WireIInv PROVE WireInOrder
  <2>0. TypeOK /\ Sorted /\ OrderOnce /\ SentExact /\ WireSorted /\ InTurn
    BY <1>1 DEF WireIInv, WireParts, PlaceIInv, SchedIInv, SchedExact
  <2>1. /\ order \in Seq(Writes) /\ wire \in Seq(Writes) /\ Len(order) \in Nat
        /\ DOMAIN order = 1..Len(order) /\ Len(wire) \in Nat /\ DOMAIN wire = 1..Len(wire)
        /\ Size \in [Ops -> Nat \ {0}] /\ Writes \subseteq Ops
    BY <2>0, WireTypes
  <2>2. PICK l \in 0..Len(order) : Complete(l)
    BY <2>0 DEF InTurn
  <2>3. ASSUME NEW o \in Writes
        PROVE  /\ Sent(o) \in Nat /\ Sent(o) <= Size[o] /\ Size[o] \in Nat
               /\ Sent(o) # 0 => left[o] # Size[o] /\ o \in Range(order)
               /\ left[o] = 0 => Sent(o) = Size[o]
    BY <2>0, <2>1, <2>3 DEF SentExact
  <2>4. ASSUME NEW i \in DOMAIN wire
        PROVE  \E n \in DOMAIN order : /\ wire[i] = order[n]
                  /\ \A m \in 1..(n - 1) : /\ Sent(order[m]) = Size[order[m]]
                                          /\ \A j \in DOMAIN wire : wire[j] = order[m] => j < i
    <3>1. wire[i] \in Writes /\ Sent(wire[i]) # 0
      <4>1. wire[i] \in Writes /\ IsFiniteSet(DOMAIN wire)
        BY <2>1, FS_Interval, ElementOfSeq
      <4>2. IsFiniteSet({j \in DOMAIN wire : wire[j] = wire[i]})
        BY <4>1, FS_Subset
      <4>3. {j \in DOMAIN wire : wire[j] = wire[i]} # {}
        BY <2>4
      <4>4. QED BY <4>1, <4>2, <4>3, FS_EmptySet DEF Sent
    <3>2. PICK n \in DOMAIN order : wire[i] = order[n]
      BY <2>3, <3>1 DEF Range
    <3>3. n <= l + 1
      BY <2>1, <2>2, <2>3, <3>1, <3>2 DEF Complete
    <3>4. ASSUME NEW m \in 1..(n - 1)
          PROVE  /\ Sent(order[m]) = Size[order[m]]
                 /\ \A j \in DOMAIN wire : wire[j] = order[m] => j < i
      <4>1. m \in DOMAIN order /\ m <= l /\ m < n
        BY <2>1, <3>2, <3>3
      <4>2. order[m] \in Writes /\ left[order[m]] = 0
        BY <2>1, <2>2, <4>1, ElementOfSeq DEF Complete
      <4>3. ASSUME NEW j \in DOMAIN wire, wire[j] = order[m], ~(j < i) PROVE FALSE
        <5>1. i <= j
          BY <2>1, <4>3
        <5>2. n <= m
          BY <2>0, <3>2, <4>1, <4>3, <5>1 DEF WireSorted
        <5>3. QED BY <2>1, <3>2, <4>1, <5>2
      <4>4. QED BY <2>3, <4>2, <4>3
    <3>5. QED BY <3>2, <3>4
  <2>5. QED BY <2>3, <2>4 DEF WireInOrder
<1>2. QED BY <1>1, WireInvariance, PTL
=============================================================================
