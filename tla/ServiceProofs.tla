--------------------------- MODULE ServiceProofs ---------------------------
(***************************************************************************)
(* Proofs about a service process and the processes of its commands, for   *)
(* any number of commands and of threads: nothing is used once main has    *)
(* destroyed it, and no pool gets a job once its threads are joined.       *)
(***************************************************************************)
EXTENDS Service, Integers, SequenceTheorems, TLAPS

\* A pool as a value.
ServerJobs == [kind : {"read", "write", "action", "tail"}, conn : Commands]
OwnJobs == [kind : {"keep", "sending", "late", "write", "read", "callback", "after", "tail"}, conn : {Own}]
AllJobs == ServerJobs \cup OwnJobs
Sub == [jobs : Seq(AllJobs), running : AllJobs \cup {NoJob}, freed : BOOLEAN]
Pool == {p \in [sub : Seq(Sub), turn : Nat, misused : BOOLEAN] : p.turn < Len(p.sub)}

\* How far main is: 8 before the first stage, 3 once the server's pools have ended, from
\* where it goes on differently in the two services.
Whole == IF service = "Mon" THEN MonEnding ELSE OsEnding
Left == Len(ending) + 8 - Len(Whole)
Ends(w, n) == SubSeq(w, 9 - n, Len(w))

MainTypes == /\ service \in {"Mon", "OS"}
             /\ Left \in (8 - Len(Whole))..8 /\ ending = Ends(Whole, Left)
             /\ stop_sem \in Nat /\ stoppers \in Nat /\ context \subseteq Parts
LinkStates == {"none", "open", "closing", "gone"}
RequestStates == {"none", "done"} \cup Waiting
CommandStates == {"start", "connected", "waiting", "stuck", "destroy", "emptying", "read", "write", "ended"}
KeepStates == {"waiting", "due", "linked", "refused", "written", "sent", "returned", "answered"}
LinkTypes == /\ srv \in [Commands -> LinkStates] /\ cli \in [Commands -> LinkStates]
             /\ request \in [Commands -> RequestStates]
             /\ cmd \in [Commands -> CommandStates] /\ sem \in [Commands -> Nat]
PoolTypes == /\ read \in Pool /\ write \in Pool /\ work \in Pool
             /\ cread \in [Commands -> Pool] /\ cwrite \in [Commands -> Pool]
Types == MainTypes /\ LinkTypes /\ PoolTypes

\* The connections of the service end before its pools, and those before the map.
Serves(c) == srv[c] \in {"open", "closing"}
Served(p) == \A j \in Jobs(p) : j.kind # "tail" /\ j.conn # Own => Serves(j.conn)
ServerSide ==
    /\ Left < 6 => \A c \in Commands : ~Serves(c)
    /\ Left >= 6 => Untouched(read) /\ Untouched(write) /\ Untouched(work)
    /\ Left >= 4 => "map" \in context
    /\ Served(read) /\ Served(write) /\ Served(work)
    /\ ~read.misused /\ ~write.misused /\ ~work.misused

\* A job is queued, and not twice.
Queued(p, job) == \E i \in DOMAIN p.sub : \E k \in DOMAIN p.sub[i].jobs : p.sub[i].jobs[k] = job
Once(p, job) == \A i, n \in DOMAIN p.sub : \A k \in DOMAIN p.sub[i].jobs, m \in DOMAIN p.sub[n].jobs :
                   p.sub[i].jobs[k] = job /\ p.sub[n].jobs[m] = job => i = n /\ k = m

\* A keep-alive under way keeps the map and the pools it goes through; there is one at a
\* time, the worker stops being linked before the map goes, and only Mon's hang-up reaches
\* the client's pools after that.
Turns == {Job("keep", Own), Job("callback", Own)}
OwnSide ==
    /\ keep \in KeepStates /\ mon \in LinkStates /\ mread \in Pool /\ mwrite \in Pool
    /\ service = "Mon" => "worker" \notin context /\ keep = "waiting"
    /\ "worker" \in context => Left >= 3 /\ "map" \in context
    /\ keep # "waiting" => Left >= 2 /\ "map" \in context
    /\ Left >= 2 => Untouched(work) /\ Untouched(mread) /\ Untouched(mwrite)
    /\ mon = "open" => ~mread.misused /\ ~mwrite.misused
    /\ \A job \in Turns : Once(work, job)
    /\ Queued(work, Job("keep", Own)) => keep = "due"
    /\ Queued(work, Job("callback", Own)) => keep = "answered"

\* The connection of a command ends before its pools.
Over == {"read", "write", "ended"}
Alone(c) == /\ cmd[c] \in Over => cli[c] \in {"none", "gone"}
            /\ cmd[c] = "start" => cli[c] = "none"
            /\ cmd[c] \notin Over => Untouched(cread[c]) /\ Untouched(cwrite[c])
            /\ ~cread[c].misused /\ ~cwrite[c].misused
ClientSide == \A c \in Commands : Alone(c)

IInv == Types /\ ServerSide /\ OwnSide /\ ClientSide

-----------------------------------------------------------------------------
(* The pools *)

\* The fields of a pool, and those of a thread.
LEMMA PoolFields ==
  ASSUME NEW p \in Pool
  PROVE  /\ p \in [sub : Seq(Sub), turn : Nat, misused : BOOLEAN]
         /\ p.sub \in Seq(Sub) /\ Len(p.sub) \in Nat /\ DOMAIN p.sub = 1..Len(p.sub)
         /\ p.turn \in Nat /\ p.turn < Len(p.sub) /\ p.misused \in BOOLEAN
         /\ \A i \in 1..Len(p.sub) : p.sub[i] \in Sub
  BY DEF Pool

\* A pool in which one thread has changed.
LEMMA OneThread ==
  ASSUME NEW p \in Pool, NEW i \in 1..Len(p.sub), NEW t \in Sub, NEW s, s = [p.sub EXCEPT ![i] = t]
  PROVE  /\ s \in Seq(Sub) /\ Len(s) = Len(p.sub)
         /\ \A k \in 1..Len(p.sub) : s[k] = IF k = i THEN t ELSE p.sub[k]
  BY PoolFields

\* What a pool is after one thread has changed: users see the jobs, whether a thread has
\* ended, and the misuse.
Held(t) == {t.jobs[k] : k \in DOMAIN t.jobs} \cup ({t.running} \ {NoJob})
Having(p, i, t) == [sub |-> [p.sub EXCEPT ![i] = t], turn |-> p.turn, misused |-> p.misused]

LEMMA ThreadChange ==
  ASSUME NEW p \in Pool, NEW i \in 1..Len(p.sub), NEW t \in Sub
  PROVE  /\ Having(p, i, t) \in Pool /\ Having(p, i, t).misused = p.misused
         /\ \A more : Held(t) \subseteq Held(p.sub[i]) \cup more
                         => Jobs(Having(p, i, t)) \subseteq Jobs(p) \cup more
         /\ Untouched(p) /\ ~t.freed => Untouched(Having(p, i, t))
         /\ Len(Having(p, i, t).sub) = Len(p.sub) /\ Having(p, i, t).turn = p.turn
<1> DEFINE s == [p.sub EXCEPT ![i] = t]
           q == Having(p, i, t)
<1>1. /\ s \in Seq(Sub) /\ Len(s) = Len(p.sub) /\ DOMAIN s = 1..Len(p.sub)
      /\ \A k \in 1..Len(p.sub) : s[k] = IF k = i THEN t ELSE p.sub[k]
  BY OneThread, PoolFields
<1>2. q.sub = s /\ q.turn = p.turn /\ q.misused = p.misused
  BY DEF Having
<1> HIDE DEF s
<1>3. q \in Pool
  <2>1. q \in [sub : Seq(Sub), turn : Nat, misused : BOOLEAN]
    BY <1>1, PoolFields DEF s, Having
  <2> HIDE DEF q
  <2>2. QED BY <1>1, <1>2, <2>1, PoolFields DEF Pool
<1> HIDE DEF q
<1>4. ASSUME NEW more, Held(t) \subseteq Held(p.sub[i]) \cup more
      PROVE  Jobs(q) \subseteq Jobs(p) \cup more
  <2>1. Jobs(q) = UNION {Held(q.sub[k]) : k \in DOMAIN q.sub}
    BY DEF Jobs, Held
  <2>2. Jobs(p) = UNION {Held(p.sub[k]) : k \in DOMAIN p.sub}
    BY DEF Jobs, Held
  <2>3. \A k \in 1..Len(p.sub) : Held(s[k]) \subseteq Held(p.sub[k]) \cup more
    BY <1>1, <1>4
  <2>4. DOMAIN p.sub = 1..Len(p.sub)
    BY PoolFields
  <2>5. ASSUME NEW x \in Jobs(q) PROVE x \in Jobs(p) \cup more
    <3>1. PICK k \in 1..Len(p.sub) : x \in Held(s[k])
      BY <1>1, <1>2, <2>1
    <3>2. x \in Held(p.sub[k]) \cup more
      BY <2>3, <3>1
    <3>3. Held(p.sub[k]) \subseteq Jobs(p)
      BY <2>2, <2>4
    <3>4. QED BY <3>2, <3>3
  <2>6. QED BY <2>5
<1>5. Untouched(p) /\ ~t.freed => Untouched(q)
  BY <1>1, <1>2, PoolFields DEF Untouched
<1>6. QED BY <1>1, <1>2, <1>3, <1>4, <1>5 DEF q

\* What that does to the jobs that are queued.
Calmer(q, p, jobs) == \A job \in jobs : (Queued(q, job) => Queued(p, job)) /\ (Once(p, job) => Once(q, job))
Calm(q, p) == Calmer(q, p, AllJobs)

LEMMA ThreadQueue ==
  ASSUME NEW p \in Pool, NEW i \in 1..Len(p.sub), NEW t \in Sub
  PROVE  /\ t.jobs = p.sub[i].jobs => Calm(Having(p, i, t), p)
         /\ t.jobs = Tail(p.sub[i].jobs) /\ p.sub[i].jobs # <<>>
               => /\ Calm(Having(p, i, t), p)
                  /\ Once(p, Head(p.sub[i].jobs)) => ~Queued(Having(p, i, t), Head(p.sub[i].jobs))
         /\ \A new \in AllJobs : t.jobs = Append(p.sub[i].jobs, new)
               => /\ Calmer(Having(p, i, t), p, AllJobs \ {new})
                  /\ ~Queued(p, new) => Once(Having(p, i, t), new)
<1> DEFINE s == [p.sub EXCEPT ![i] = t]
           o == p.sub[i].jobs
           q == Having(p, i, t)
<1>1. /\ Len(s) = Len(p.sub) /\ DOMAIN s = 1..Len(p.sub) /\ DOMAIN p.sub = 1..Len(p.sub)
      /\ \A k \in 1..Len(p.sub) : s[k] = IF k = i THEN t ELSE p.sub[k]
  BY OneThread, PoolFields
<1>2. q.sub = s
  BY DEF Having
<1>3. o \in Seq(AllJobs) /\ DOMAIN o = 1..Len(o) /\ Len(o) \in Nat
  BY PoolFields DEF Sub
<1> HIDE DEF s, q, o
<1>4. \A job : Queued(q, job) <=> \E k \in 1..Len(p.sub) : \E a \in DOMAIN s[k].jobs : s[k].jobs[a] = job
  BY <1>1, <1>2 DEF Queued
<1>5. \A job : Queued(p, job) <=> \E k \in 1..Len(p.sub) : \E a \in DOMAIN p.sub[k].jobs : p.sub[k].jobs[a] = job
  BY <1>1 DEF Queued
<1>6. ASSUME t.jobs = o PROVE Calm(q, p)
  <2>1. \A k \in 1..Len(p.sub) : s[k].jobs = p.sub[k].jobs
    BY <1>1, <1>6 DEF o
  <2>2. \A job : Queued(q, job) => Queued(p, job)
    BY <1>4, <1>5, <2>1
  <2>3. \A job : Once(p, job) => Once(q, job)
    BY <1>1, <1>2, <2>1 DEF Once
  <2>4. QED BY <2>2, <2>3 DEF Calm, Calmer
<1>7. ASSUME t.jobs = Tail(o), o # <<>>
      PROVE  Calm(q, p) /\ (Once(p, Head(o)) => ~Queued(q, Head(o)))
  <2>1. /\ \A a \in DOMAIN t.jobs : a + 1 \in DOMAIN o /\ t.jobs[a] = o[a + 1] /\ a + 1 # 1 /\ a \in Int
        /\ 1 \in DOMAIN o /\ o[1] = Head(o)
    BY <1>3, <1>7
  <2> DEFINE from(k, a) == IF k = i THEN a + 1 ELSE a
  <2>2. \A k \in 1..Len(p.sub) : \A a \in DOMAIN s[k].jobs :
           from(k, a) \in DOMAIN p.sub[k].jobs /\ s[k].jobs[a] = p.sub[k].jobs[from(k, a)]
    BY <1>1, <2>1 DEF o
  <2>3. \A k \in 1..Len(p.sub) : \A a, b \in DOMAIN s[k].jobs : from(k, a) = from(k, b) => a = b
    <3> SUFFICES ASSUME NEW k \in 1..Len(p.sub), NEW a \in DOMAIN s[k].jobs, NEW b \in DOMAIN s[k].jobs,
                        from(k, a) = from(k, b)
                 PROVE  a = b
      OBVIOUS
    <3>1. CASE k = i
      <4>1. a \in DOMAIN t.jobs /\ b \in DOMAIN t.jobs /\ a + 1 = b + 1
        BY <1>1, <3>1
      <4>2. QED BY <2>1, <4>1
    <3>2. QED BY <3>1
  <2> HIDE DEF from
  <2>4. \A job : Queued(q, job) => Queued(p, job)
    BY <1>4, <1>5, <2>2
  <2>5. ASSUME NEW job, Once(p, job) PROVE Once(q, job)
    <3> SUFFICES ASSUME NEW k \in 1..Len(p.sub), NEW n \in 1..Len(p.sub), NEW a \in DOMAIN s[k].jobs,
                        NEW b \in DOMAIN s[n].jobs, s[k].jobs[a] = job, s[n].jobs[b] = job
                 PROVE  k = n /\ a = b
      BY <1>1, <1>2 DEF Once
    <3>1. /\ p.sub[k].jobs[from(k, a)] = job /\ from(k, a) \in DOMAIN p.sub[k].jobs
          /\ p.sub[n].jobs[from(n, b)] = job /\ from(n, b) \in DOMAIN p.sub[n].jobs
      BY <2>2
    <3>2. k = n /\ from(k, a) = from(n, b)
      BY <1>1, <2>5, <3>1 DEF Once
    <3>3. QED BY <2>3, <3>2
  <2>6. ASSUME Once(p, Head(o)), Queued(q, Head(o)) PROVE FALSE
    <3>1. PICK k \in 1..Len(p.sub) : \E a \in DOMAIN s[k].jobs : s[k].jobs[a] = Head(o)
      BY <1>4, <2>6
    <3>2. PICK a \in DOMAIN s[k].jobs : s[k].jobs[a] = Head(o)
      BY <3>1
    <3>3. p.sub[k].jobs[from(k, a)] = Head(o) /\ from(k, a) \in DOMAIN p.sub[k].jobs
      BY <2>2, <3>2
    <3>4. k = i /\ from(k, a) = 1
      BY <1>1, <2>1, <2>6, <3>3 DEF Once, o
    <3>5. a \in DOMAIN t.jobs /\ from(k, a) = a + 1
      BY <1>1, <3>2, <3>4 DEF from
    <3>6. QED BY <2>1, <3>4, <3>5
  <2>7. QED BY <2>4, <2>5, <2>6 DEF Calm, Calmer
<1>8. ASSUME NEW new \in AllJobs, t.jobs = Append(o, new)
      PROVE  Calmer(q, p, AllJobs \ {new}) /\ (~Queued(p, new) => Once(q, new))
  <2>1. /\ DOMAIN t.jobs = 1..Len(o) + 1
        /\ \A a \in DOMAIN t.jobs : t.jobs[a] = IF a \in DOMAIN o THEN o[a] ELSE new
        /\ \A a \in DOMAIN t.jobs : a \in DOMAIN o \/ a = Len(o) + 1
    BY <1>3, <1>8
  <2>2. \A k \in 1..Len(p.sub) : \A a \in DOMAIN s[k].jobs :
           \/ a \in DOMAIN p.sub[k].jobs /\ s[k].jobs[a] = p.sub[k].jobs[a]
           \/ k = i /\ a = Len(o) + 1 /\ s[k].jobs[a] = new
    BY <1>1, <2>1 DEF o
  <2>3. \A job \in AllJobs \ {new} : Queued(q, job) => Queued(p, job)
    BY <1>4, <1>5, <2>2
  <2>4. ASSUME NEW job \in AllJobs \ {new}, Once(p, job) PROVE Once(q, job)
    <3> SUFFICES ASSUME NEW k \in 1..Len(p.sub), NEW n \in 1..Len(p.sub), NEW a \in DOMAIN s[k].jobs,
                        NEW b \in DOMAIN s[n].jobs, s[k].jobs[a] = job, s[n].jobs[b] = job
                 PROVE  k = n /\ a = b
      BY <1>1, <1>2 DEF Once
    <3>1. /\ p.sub[k].jobs[a] = job /\ a \in DOMAIN p.sub[k].jobs
          /\ p.sub[n].jobs[b] = job /\ b \in DOMAIN p.sub[n].jobs
      BY <2>2
    <3>2. QED BY <1>1, <2>4, <3>1 DEF Once
  <2>5. ASSUME ~Queued(p, new) PROVE Once(q, new)
    <3>1. \A k \in 1..Len(p.sub) : \A a \in DOMAIN s[k].jobs :
             s[k].jobs[a] = new => k = i /\ a = Len(o) + 1
      BY <1>5, <2>2, <2>5
    <3>2. QED BY <1>1, <1>2, <3>1 DEF Once
  <2>6. QED BY <2>3, <2>4, <2>5 DEF Calmer
<1>9. QED BY <1>6, <1>7, <1>8 DEF q, o

\* An insertion into a pool none of whose threads has ended.
LEMMA PutKeeps ==
  ASSUME NEW p \in Pool, NEW i \in 1..Len(p.sub), NEW job \in AllJobs, Untouched(p)
  PROVE  /\ Put(p, i, job) \in Pool /\ Put(p, i, job).misused = p.misused
         /\ Jobs(Put(p, i, job)) \subseteq Jobs(p) \cup {job}
         /\ Untouched(Put(p, i, job))
         /\ Len(Put(p, i, job).sub) = Len(p.sub) /\ Put(p, i, job).turn = p.turn
         /\ Calmer(Put(p, i, job), p, AllJobs \ {job})
         /\ ~Queued(p, job) => Once(Put(p, i, job), job)
<1> DEFINE o == p.sub[i]
           t == [o EXCEPT !.jobs = Append(@, job)]
<1>1. o \in Sub /\ ~o.freed /\ p.turn \in 0..Len(p.sub) - 1
  BY PoolFields DEF Untouched
<1>2. t \in Sub /\ ~t.freed /\ t.jobs = Append(o.jobs, job) /\ t.running = o.running
  <2>1. o.jobs \in Seq(AllJobs) /\ o \in [jobs : Seq(AllJobs), running : AllJobs \cup {NoJob}, freed : BOOLEAN]
    BY <1>1 DEF Sub
  <2>2. Append(o.jobs, job) \in Seq(AllJobs)
    BY <2>1
  <2> HIDE DEF o
  <2>3. QED BY <1>1, <2>1, <2>2 DEF Sub
<1>3. Put(p, i, job) = [p EXCEPT !.sub[i].jobs = Append(@, job)]
  BY <1>1 DEF Put
<1>4. Put(p, i, job) = Having(p, i, t)
  BY <1>3, PoolFields DEF Having
<1>5. Held(t) \subseteq Held(o) \cup {job}
  <2>1. o.jobs \in Seq(AllJobs)
    BY <1>1 DEF Sub
  <2>2. DOMAIN t.jobs = 1..Len(o.jobs) + 1 /\ DOMAIN o.jobs = 1..Len(o.jobs)
    BY <1>2, <2>1
  <2>3. \A k \in DOMAIN t.jobs : t.jobs[k] = IF k \in DOMAIN o.jobs THEN o.jobs[k] ELSE job
    BY <1>2, <2>1, <2>2
  <2> HIDE DEF t, o
  <2>4. QED BY <1>2, <2>3 DEF Held
<1> HIDE DEF t
<1>6. /\ Having(p, i, t) \in Pool /\ Having(p, i, t).misused = p.misused
      /\ Untouched(Having(p, i, t))
      /\ Len(Having(p, i, t).sub) = Len(p.sub) /\ Having(p, i, t).turn = p.turn
  BY <1>2, ThreadChange
<1>7. Jobs(Having(p, i, t)) \subseteq Jobs(p) \cup {job}
  BY <1>2, <1>5, ThreadChange
<1>8. /\ Calmer(Having(p, i, t), p, AllJobs \ {job})
      /\ ~Queued(p, job) => Once(Having(p, i, t), job)
  BY <1>2, ThreadQueue DEF o
<1>9. QED BY <1>4, <1>6, <1>7, <1>8

\* An insertion by a thread that does not know whether the pool has ended.
LEMMA PutTypes ==
  ASSUME NEW p \in Pool, NEW i \in 1..Len(p.sub), NEW job \in AllJobs
  PROVE  Put(p, i, job) \in Pool
<1>1. CASE p.sub[i].freed
  BY <1>1 DEF Put, Pool
<1>2. CASE ~p.sub[i].freed
  <2> DEFINE t == [p.sub[i] EXCEPT !.jobs = Append(@, job)]
  <2>1. p.sub[i] \in Sub
    BY PoolFields
  <2>2. t \in Sub
    <3> DEFINE o == p.sub[i]
    <3>1. o.jobs \in Seq(AllJobs) /\ o \in [jobs : Seq(AllJobs), running : AllJobs \cup {NoJob}, freed : BOOLEAN]
      BY <2>1 DEF Sub
    <3>2. Append(o.jobs, job) \in Seq(AllJobs)
      BY <3>1
    <3> HIDE DEF o
    <3>3. [o EXCEPT !.jobs = Append(@, job)] \in Sub
      BY <3>1, <3>2 DEF Sub
    <3>4. QED BY <3>3 DEF o
  <2>3. Put(p, i, job) = Having(p, i, t)
    BY <1>2, PoolFields DEF Having, Put
  <2> HIDE DEF t
  <2>4. QED BY <2>2, <2>3, ThreadChange
<1>3. QED BY <1>1, <1>2

\* insertTail, in turn.
LEMMA InsertTailKeeps ==
  ASSUME NEW p \in Pool, NEW job \in AllJobs, Untouched(p)
  PROVE  /\ InsertTail(p, job) \in Pool /\ InsertTail(p, job).misused = p.misused
         /\ Jobs(InsertTail(p, job)) \subseteq Jobs(p) \cup {job}
         /\ Untouched(InsertTail(p, job))
         /\ Calmer(InsertTail(p, job), p, AllJobs \ {job})
         /\ ~Queued(p, job) => Once(InsertTail(p, job), job)
<1> DEFINE q == Put(p, p.turn + 1, job)
           turn == (q.turn + 1) % Len(p.sub)
<1>1. p.turn + 1 \in 1..Len(p.sub) /\ Len(p.sub) \in Nat \ {0}
  BY PoolFields
<1>2. /\ q \in Pool /\ q.misused = p.misused
      /\ Jobs(q) \subseteq Jobs(p) \cup {job}
      /\ Untouched(q) /\ Len(q.sub) = Len(p.sub) /\ q.turn = p.turn
      /\ Calmer(q, p, AllJobs \ {job}) /\ (~Queued(p, job) => Once(q, job))
  <2> DEFINE i == p.turn + 1
  <2>1. i \in 1..Len(p.sub)
    BY <1>1
  <2> HIDE DEF i
  <2>2. /\ Put(p, i, job) \in Pool /\ Put(p, i, job).misused = p.misused
        /\ Jobs(Put(p, i, job)) \subseteq Jobs(p) \cup {job}
        /\ Untouched(Put(p, i, job))
        /\ Len(Put(p, i, job).sub) = Len(p.sub) /\ Put(p, i, job).turn = p.turn
        /\ Calmer(Put(p, i, job), p, AllJobs \ {job})
        /\ ~Queued(p, job) => Once(Put(p, i, job), job)
    BY <2>1, PutKeeps
  <2>3. QED BY <2>2 DEF i
<1> HIDE DEF q
<1>3. turn \in 0..Len(p.sub) - 1
  BY <1>1, <1>2, PoolFields
<1>4. InsertTail(p, job) = [q EXCEPT !.turn = turn]
  BY DEF InsertTail, q
<1> HIDE DEF turn
<1> DEFINE r == InsertTail(p, job)
<1>5. /\ r \in [sub : Seq(Sub), turn : Nat, misused : BOOLEAN]
      /\ r.sub = q.sub /\ r.turn = turn /\ r.misused = q.misused
  BY <1>1, <1>2, <1>3, <1>4, PoolFields
<1> HIDE DEF r
<1>6. r \in Pool
  BY <1>1, <1>2, <1>3, <1>5 DEF Pool
<1>7. Jobs(r) = Jobs(q) /\ (Untouched(r) <=> Untouched(q))
  BY <1>5 DEF Jobs, Untouched
<1>8. Calmer(r, p, AllJobs \ {job}) /\ (~Queued(p, job) => Once(r, job))
  <2>1. \A x : (Queued(r, x) <=> Queued(q, x)) /\ (Once(r, x) <=> Once(q, x))
    BY <1>5 DEF Queued, Once
  <2>2. QED BY <1>2, <2>1 DEF Calmer
<1>9. QED BY <1>2, <1>5, <1>6, <1>7, <1>8 DEF r

\* insertTailHash, by the hash of the connection.
LEMMA InsertTailHashKeeps ==
  ASSUME NEW p \in Pool, NEW job \in AllJobs, NEW hash \in Nat, Untouched(p)
  PROVE  /\ InsertTailHash(p, job, hash) \in Pool /\ InsertTailHash(p, job, hash).misused = p.misused
         /\ Jobs(InsertTailHash(p, job, hash)) \subseteq Jobs(p) \cup {job}
         /\ Untouched(InsertTailHash(p, job, hash))
<1> DEFINE i == (hash % Len(p.sub)) + 1
<1>1. Len(p.sub) \in Nat \ {0}
  BY PoolFields
<1>2. i \in 1..Len(p.sub)
  <2> DEFINE n == Len(p.sub)
  <2>1. n \in Nat \ {0}
    BY <1>1
  <2> HIDE DEF n
  <2>2. (hash % n) + 1 \in 1..n
    BY <2>1
  <2>3. QED BY <2>2 DEF n
<1> HIDE DEF i
<1>3. QED BY <1>2, PutKeeps DEF InsertTailHash, i

\* The same into a pool that may have ended.
LEMMA InsertTailHashTypes ==
  ASSUME NEW p \in Pool, NEW job \in AllJobs, NEW hash \in Nat
  PROVE  InsertTailHash(p, job, hash) \in Pool
<1> DEFINE n == Len(p.sub)
           i == (hash % n) + 1
<1>1. n \in Nat \ {0}
  BY PoolFields
<1> HIDE DEF n
<1>2. i \in 1..n
  BY <1>1
<1> HIDE DEF i
<1>3. Put(p, i, job) \in Pool
  BY <1>2, PutTypes DEF n
<1>4. QED BY <1>3 DEF InsertTailHash, i, n

\* A thread takes a job, and goes on with it as another or not at all.
LEMMA TakeKeeps ==
  ASSUME NEW p \in Pool, NEW i, NEW job, CanTake(p, i, job), NEW next \in AllJobs \cup {NoJob}
  PROVE  /\ Take(p, i, next) \in Pool /\ Take(p, i, next).misused = p.misused
         /\ Jobs(Take(p, i, next)) \subseteq Jobs(p) \cup ({next} \ {NoJob})
         /\ Untouched(p) => Untouched(Take(p, i, next))
         /\ job \in Jobs(p) /\ job \in AllJobs
         /\ Calm(Take(p, i, next), p) /\ Queued(p, job)
         /\ Once(p, job) => ~Queued(Take(p, i, next), job)
<1> DEFINE o == p.sub[i]
           t == [o EXCEPT !.running = next, !.jobs = Tail(@)]
<1>1. /\ i \in 1..Len(p.sub) /\ o \in Sub /\ p.turn \in 0..Len(p.sub) - 1
      /\ o.jobs \in Seq(AllJobs) /\ o.jobs # <<>> /\ job = Head(o.jobs)
  BY PoolFields DEF CanTake, Sub
<1>2. /\ Tail(o.jobs) \in Seq(AllJobs) /\ job \in AllJobs /\ 1 \in DOMAIN o.jobs /\ o.jobs[1] = job
      /\ \A k \in DOMAIN Tail(o.jobs) : k + 1 \in DOMAIN o.jobs /\ Tail(o.jobs)[k] = o.jobs[k + 1]
  BY <1>1
<1>3. t \in Sub /\ t.freed = o.freed /\ t.jobs = Tail(o.jobs) /\ t.running = next
  BY <1>1, <1>2 DEF Sub
<1>4. Take(p, i, next) = Having(p, i, t)
  <2>1. Take(p, i, next) = [p EXCEPT !.sub[i].running = next, !.sub[i].jobs = Tail(@)]
    BY DEF Take
  <2>2. QED BY <1>1, <2>1, PoolFields DEF Having, t, o
<1> HIDE DEF t
<1>5. Held(t) \subseteq Held(o) \cup ({next} \ {NoJob})
  BY <1>2, <1>3 DEF Held
<1>6. job \in Jobs(p)
  BY <1>1, <1>2, PoolFields DEF Jobs, o
<1>7. Untouched(p) => ~t.freed
  BY <1>1, <1>3, PoolFields DEF Untouched, o
<1>8. /\ Having(p, i, t) \in Pool /\ Having(p, i, t).misused = p.misused
      /\ Untouched(p) => Untouched(Having(p, i, t))
  BY <1>1, <1>3, <1>7, ThreadChange
<1>9. Jobs(Having(p, i, t)) \subseteq Jobs(p) \cup ({next} \ {NoJob})
  BY <1>1, <1>3, <1>5, ThreadChange
<1>10. /\ Calm(Having(p, i, t), p)
       /\ Once(p, job) => ~Queued(Having(p, i, t), job)
  BY <1>1, <1>3, ThreadQueue DEF o
<1>11. Queued(p, job)
  BY <1>1, <1>2, PoolFields DEF Queued, o
<1>12. QED BY <1>2, <1>4, <1>6, <1>8, <1>9, <1>10, <1>11

\* A thread goes on with the rest of its job, or has come to its end.
LEMMA GoOnKeeps ==
  ASSUME NEW p \in Pool, NEW i, NEW next \in AllJobs \cup {NoJob}
  PROVE  /\ GoOn(p, i, next) \in Pool /\ GoOn(p, i, next).misused = p.misused
         /\ Jobs(GoOn(p, i, next)) \subseteq Jobs(p) \cup ({next} \ {NoJob})
         /\ Untouched(p) => Untouched(GoOn(p, i, next))
         /\ Calm(GoOn(p, i, next), p)
<1> DEFINE o == p.sub[i]
           t == [o EXCEPT !.running = next]
<1>0. GoOn(p, i, next) = [p EXCEPT !.sub[i].running = next]
  BY DEF GoOn
<1>1. CASE i \in 1..Len(p.sub)
  <2>1. o \in Sub
    BY <1>1, PoolFields
  <2>2. t \in Sub /\ t.freed = o.freed /\ t.jobs = o.jobs /\ t.running = next
    BY <2>1 DEF Sub
  <2>3. GoOn(p, i, next) = Having(p, i, t)
    BY <1>0, <1>1, PoolFields DEF Having
  <2> HIDE DEF t
  <2>4. Held(t) \subseteq Held(o) \cup ({next} \ {NoJob})
    BY <2>2 DEF Held
  <2>5. Untouched(p) => ~t.freed
    BY <1>1, <2>2, PoolFields DEF Untouched
  <2>6. Calm(Having(p, i, t), p)
    BY <1>1, <2>2, ThreadQueue
  <2>7. QED BY <1>1, <2>2, <2>3, <2>4, <2>5, <2>6, ThreadChange
<1>2. CASE i \notin 1..Len(p.sub)
  <2>1. GoOn(p, i, next) = p
    BY <1>0, <1>2, PoolFields
  <2>2. QED BY <2>1 DEF Calm, Calmer
<1>3. QED BY <1>1, <1>2

LEMMA ReturnKeeps ==
  ASSUME NEW p \in Pool, NEW i
  PROVE  /\ Return(p, i) \in Pool /\ Return(p, i).misused = p.misused
         /\ Jobs(Return(p, i)) \subseteq Jobs(p)
         /\ Untouched(p) => Untouched(Return(p, i))
         /\ Calm(Return(p, i), p)
  BY GoOnKeeps DEF Return

\* A thread has been joined.
LEMMA DestroyKeeps ==
  ASSUME NEW p \in Pool, CanDestroy(p)
  PROVE  /\ Destroy(p) \in Pool /\ Destroy(p).misused = p.misused
         /\ Jobs(Destroy(p)) \subseteq Jobs(p)
         /\ Calm(Destroy(p), p)
<1> DEFINE i == Leaving(p)
           o == p.sub[i]
           t == [o EXCEPT !.freed = TRUE]
<1>1. CASE i \in 1..Len(p.sub)
  <2> HIDE DEF i
  <2>1. o \in Sub /\ p.turn \in 0..Len(p.sub) - 1
    BY <1>1, PoolFields
  <2>2. t \in Sub /\ t.jobs = o.jobs /\ t.running = o.running
    BY <2>1 DEF Sub
  <2>3. Destroy(p) = Having(p, i, t)
    <3>1. Destroy(p) = [p EXCEPT !.sub[i].freed = TRUE]
      BY DEF Destroy, i
    <3>2. QED BY <3>1, PoolFields DEF Having
  <2> HIDE DEF t
  <2>4. Held(t) \subseteq Held(o) \cup {}
    BY <2>2 DEF Held
  <2>5. Calm(Having(p, i, t), p)
    BY <1>1, <2>2, ThreadQueue
  <2>6. QED BY <1>1, <2>1, <2>2, <2>3, <2>4, <2>5, ThreadChange
<1>2. CASE i \notin 1..Len(p.sub)
  <2>1. Destroy(p) = p
    BY <1>2, PoolFields DEF Destroy
  <2>2. QED BY <2>1 DEF Calm, Calmer
<1>3. QED BY <1>1, <1>2

\* The process has died, and its threads with it.
LEMMA EndedIs ==
  ASSUME NEW p \in Pool
  PROVE  /\ Ended(p) \in Pool /\ Ended(p).misused = p.misused
         /\ Jobs(Ended(p)) = {} /\ \A job : ~Queued(Ended(p), job) /\ Once(Ended(p), job)
<1> DEFINE t == [NewSub EXCEPT !.freed = TRUE]
           s == [i \in DOMAIN p.sub |-> t]
<1>1. t \in Sub /\ t.jobs = <<>> /\ t.running = NoJob
  <2>1. NewSub \in Sub /\ NewSub.jobs = <<>> /\ NewSub.running = NoJob
    BY DEF NewSub, Sub
  <2>2. QED BY <2>1 DEF Sub
<1> HIDE DEF t
<1>2. s \in Seq(Sub) /\ Len(s) = Len(p.sub) /\ DOMAIN s = DOMAIN p.sub /\ \A i \in DOMAIN s : s[i] = t
  <2>1. DOMAIN p.sub = 1..Len(p.sub) /\ Len(p.sub) \in Nat
    BY PoolFields
  <2>2. s = [i \in 1..Len(p.sub) |-> t]
    BY <2>1
  <2> HIDE DEF s
  <2>3. QED BY <1>1, <2>1, <2>2
<1>3. Ended(p) = [p EXCEPT !.sub = s]
  BY DEF Ended, t
<1> HIDE DEF s
<1>4. Ended(p).sub = s /\ Ended(p).turn = p.turn /\ Ended(p).misused = p.misused
  BY <1>3, PoolFields
<1>5. Ended(p) \in [sub : Seq(Sub), turn : Nat, misused : BOOLEAN]
  BY <1>2, <1>3, PoolFields
<1>6. Ended(p) \in Pool
  BY <1>2, <1>4, <1>5, PoolFields DEF Pool
<1>7. Jobs(Ended(p)) = {}
  BY <1>1, <1>2, <1>4 DEF Jobs
<1>8. \A job : ~Queued(Ended(p), job) /\ Once(Ended(p), job)
  BY <1>1, <1>2, <1>4 DEF Queued, Once
<1>9. QED BY <1>4, <1>6, <1>7, <1>8

-----------------------------------------------------------------------------
(* What main destroys *)

Stage == {"wait", "listener", "server", "read", "write", "worker", "map", "hk", "ossync", "sem", "work",
          "mread", "mwrite"}

\* The end of a sequence.
LEMMA EndOf ==
  ASSUME NEW S, NEW w \in Seq(S), NEW m \in 1..Len(w) + 1
  PROVE  /\ SubSeq(w, m, Len(w)) \in Seq(S) /\ Len(SubSeq(w, m, Len(w))) = Len(w) + 1 - m
         /\ \A k \in 1..Len(w) + 1 - m : SubSeq(w, m, Len(w))[k] = w[m + k - 1]
<1> DEFINE n == Len(w)
<1>0. n \in Nat
  OBVIOUS
<1>1. \A k \in m..n : w[k] \in S
  <2>1. \A k \in 1..n : w[k] \in S
    BY ElementOfSeq
  <2> HIDE DEF n
  <2>2. QED BY <1>0, <2>1
<1>2. m \in 1..n + 1
  OBVIOUS
<1> HIDE DEF n
<1>3. /\ SubSeq(w, m, n) \in Seq(S) /\ Len(SubSeq(w, m, n)) = IF m <= n THEN n - m + 1 ELSE 0
      /\ \A k \in 1..n - m + 1 : SubSeq(w, m, n)[k] = w[m + k - 1]
  BY <1>0, <1>1, <1>2, SubSeqProperties
<1>4. n - m + 1 = n + 1 - m /\ (m > n => n + 1 - m = 0)
  BY <1>0, <1>2
<1>5. QED BY <1>3, <1>4 DEF n

LEMMA WholeIs ==
  /\ Whole \in Seq(Stage) /\ Len(Whole) = IF service = "Mon" THEN 8 ELSE 13
  /\ Len(Whole) \in {8, 13}
<1>1. MonEnding \in Seq(Stage) /\ Len(MonEnding) = 8
  BY DEF MonEnding, Stage
<1>2. OsEnding \in Seq(Stage) /\ Len(OsEnding) = 13
  BY DEF OsEnding, Stage
<1>3. QED BY <1>1, <1>2 DEF Whole

LEMMA EndingIs ==
  ASSUME MainTypes
  PROVE  ending \in Seq(Stage)
<1>1. Whole \in Seq(Stage) /\ Len(Whole) \in {8, 13} /\ Left \in (8 - Len(Whole))..8
      /\ ending = SubSeq(Whole, 9 - Left, Len(Whole))
  BY WholeIs DEF MainTypes, Ends
<1>2. 9 - Left \in 1..Len(Whole) + 1
  BY <1>1
<1>3. QED BY <1>1, <1>2, EndOf

\* The stages of main, and what is left after one.
LEMMA Stages ==
  ASSUME MainTypes, ending # <<>>
  PROVE  /\ Left \in (9 - Len(Whole))..8
         /\ Tail(ending) = Ends(Whole, Left - 1) /\ Len(Tail(ending)) = Len(ending) - 1
         /\ Head(ending) = "wait" <=> Left = 8
         /\ Head(ending) = "listener" <=> Left = 7
         /\ Head(ending) = "server" <=> Left = 6
         /\ Head(ending) = "read" <=> Left = 5
         /\ Head(ending) = "write" <=> Left = 4
         /\ Head(ending) \in Parts => Left < 4
         /\ Head(ending) \in {"work", "mread", "mwrite"} => Left < 2
         /\ service = "Mon" => (Head(ending) = "map" <=> Left = 3)
         /\ service = "OS" => (Head(ending) = "worker" <=> Left = 3) /\ (Head(ending) = "map" <=> Left = 2)
<1> DEFINE m == 9 - Left
           n == Len(Whole)
<1>1. /\ Whole \in Seq(Stage) /\ n \in {8, 13} /\ Left \in (8 - n)..8 /\ ending = SubSeq(Whole, m, n)
      /\ Left = Len(ending) + 8 - n /\ n = IF service = "Mon" THEN 8 ELSE 13
  BY WholeIs DEF MainTypes, Ends, Left
<1>2. m \in 1..n + 1 /\ Left \in Int
  <2> HIDE DEF n
  <2>1. Left \in Int /\ 8 - n <= Left /\ Left <= 8 /\ n \in Int
    BY <1>1
  <2>2. QED BY <2>1
<1>3. /\ ending \in Seq(Stage) /\ Len(ending) = n + 1 - m
      /\ \A k \in 1..n + 1 - m : ending[k] = Whole[m + k - 1]
  BY <1>1, <1>2, EndOf
<1>4. n + 1 - m > 0
  <2>1. Len(ending) # 0
    BY <1>3, EmptySeq
  <2> HIDE DEF n
  <2>2. QED BY <1>1, <1>2, <1>3, <2>1
<1> HIDE DEF n
<1>5. /\ Left \in (9 - n)..8 /\ m \in 1..n /\ m + 1 \in 1..n + 1 /\ n + 1 - m \in Nat
      /\ 1 \in 1..n + 1 - m /\ m + 1 - 1 = m
  BY <1>1, <1>2, <1>4
<1>6. Head(ending) = Whole[m]
  BY <1>3, <1>5
<1>7. Tail(ending) = SubSeq(Whole, m + 1, n) /\ Len(Tail(ending)) = n - m
  <2>1. /\ Tail(ending) \in Seq(Stage) /\ Len(Tail(ending)) = n - m
        /\ \A k \in 1..n - m : Tail(ending)[k] = ending[k + 1]
    <3>1. ending # <<>> /\ Len(ending) - 1 = n - m
      <4>1. Len(ending) = n + 1 - m /\ n + 1 - m > 0 /\ n \in Int /\ m \in Int
        BY <1>1, <1>2, <1>3, <1>4
      <4> HIDE DEF m
      <4>2. Len(ending) # 0 /\ Len(ending) - 1 = n - m
        BY <4>1
      <4>3. QED BY <4>2
    <3>2. /\ Tail(ending) \in Seq(Stage) /\ Len(Tail(ending)) = Len(ending) - 1
          /\ \A k \in 1..Len(ending) - 1 : Tail(ending)[k] = ending[k + 1]
      BY <1>3, <3>1
    <3>3. QED BY <3>1, <3>2
  <2>2. /\ SubSeq(Whole, m + 1, n) \in Seq(Stage) /\ Len(SubSeq(Whole, m + 1, n)) = n - m
        /\ \A k \in 1..n - m : SubSeq(Whole, m + 1, n)[k] = Whole[m + 1 + k - 1]
    <3> HIDE DEF m
    <3>1. n + 1 - (m + 1) = n - m
      BY <1>1, <1>2, <1>5
    <3>2. QED BY <1>1, <1>5, <3>1, EndOf DEF n
  <2>3. \A k \in 1..n - m : Tail(ending)[k] = SubSeq(Whole, m + 1, n)[k]
    <3> SUFFICES ASSUME NEW k \in 1..n - m PROVE Tail(ending)[k] = SubSeq(Whole, m + 1, n)[k]
      OBVIOUS
    <3>1. k + 1 \in 1..n + 1 - m /\ m + (k + 1) - 1 = m + 1 + k - 1
      BY <1>1, <1>2, <1>5
    <3>2. QED BY <1>3, <2>1, <2>2, <3>1
  <2>4. QED BY <2>1, <2>2, <2>3, SeqEqual
<1>8. Tail(ending) = Ends(Whole, Left - 1) /\ Len(Tail(ending)) = Len(ending) - 1
  <2>1. 9 - (Left - 1) = m + 1 /\ Len(ending) - 1 = n - m
    BY <1>1, <1>2, <1>3
  <2>2. QED BY <1>7, <2>1 DEF Ends, n
<1>9. CASE service = "Mon"
  <2>1. Left \in 1..8 /\ Head(ending) = MonEnding[9 - Left]
    BY <1>1, <1>5, <1>6, <1>9 DEF Whole
  <2>2. QED BY <1>5, <1>8, <1>9, <2>1 DEF MonEnding, Parts, n
<1>10. CASE service # "Mon"
  <2>1. Left \in -4..8 /\ Head(ending) = OsEnding[9 - Left]
    BY <1>1, <1>5, <1>6, <1>10 DEF Whole
  <2>2. QED BY <1>5, <1>8, <1>10, <2>1 DEF OsEnding, Parts, n
<1>11. QED BY <1>9, <1>10

-----------------------------------------------------------------------------
(* What a step leaves alone *)

LEMMA SameMain ==
  ASSUME MainTypes, UNCHANGED <<service, ending, stop_sem, stoppers, context>>
  PROVE  MainTypes' /\ Left' = Left
  BY DEF MainTypes, Left, Ends, Whole

LEMMA SamePools ==
  ASSUME PoolTypes, UNCHANGED <<pools, cread, cwrite>>
  PROVE  PoolTypes'
  BY DEF PoolTypes, pools

LEMMA SameServer ==
  ASSUME ServerSide, UNCHANGED <<service, ending, context, pools, srv>>
  PROVE  ServerSide'
<1>1. Left' = Left /\ Own' = Own /\ UNCHANGED <<context, read, write, work>>
  BY DEF Left, Whole, Own, pools
<1>2. \A c : Serves(c)' <=> Serves(c)
  BY DEF Serves
<1>3. \A p \in {read, write, work} : Served(p) => \A j \in Jobs(p) : j.kind # "tail" /\ j.conn # Own' => Serves(j.conn)'
  BY <1>1, <1>2 DEF Served
<1>4. Served(read)' /\ Served(write)' /\ Served(work)'
  BY <1>1, <1>3 DEF ServerSide, Served, Jobs
<1>5. QED BY <1>1, <1>2, <1>4 DEF ServerSide, Untouched

LEMMA SameOwn ==
  ASSUME OwnSide, UNCHANGED <<service, ending, context, work, own>>
  PROVE  OwnSide'
  BY DEF OwnSide, Untouched, Queued, Once, Left, Whole, own

LEMMA SameClient ==
  ASSUME ClientSide, UNCHANGED <<cmd, cli, cread, cwrite>>
  PROVE  ClientSide'
  BY DEF ClientSide, Alone, Untouched

\* The jobs of a pool.
LEMMA JobsType ==
  ASSUME NEW p \in Pool
  PROVE  Jobs(p) \subseteq AllJobs
<1>1. ASSUME NEW i \in 1..Len(p.sub) PROVE Held(p.sub[i]) \subseteq AllJobs
  <2>1. p.sub[i] \in Sub
    BY PoolFields
  <2>2. p.sub[i].jobs \in Seq(AllJobs) /\ p.sub[i].running \in AllJobs \cup {NoJob}
    BY <2>1 DEF Sub
  <2>3. \A k \in DOMAIN p.sub[i].jobs : p.sub[i].jobs[k] \in AllJobs
    BY <2>2, LenProperties, ElementOfSeq
  <2>4. QED BY <2>2, <2>3 DEF Held
<1>2. QED BY <1>1, PoolFields DEF Jobs, Held

\* The jobs of the keep-alive.
LEMMA OwnJobsAre ==
  /\ \A kind \in {"keep", "sending", "late", "write", "read", "callback", "after", "tail"} :
        Job(kind, Own) \in AllJobs /\ Job(kind, Own).conn = Own /\ Job(kind, Own).kind = kind
  /\ Own \in Nat /\ Own \notin Commands
  /\ Turns \subseteq AllJobs /\ Job("keep", Own) # Job("callback", Own)
  /\ \A j \in Turns : j.kind \in {"keep", "callback"} /\ j.conn = Own
<1>1. \A kind \in {"keep", "sending", "late", "write", "read", "callback", "after", "tail"} :
         Job(kind, Own) \in AllJobs /\ Job(kind, Own).conn = Own /\ Job(kind, Own).kind = kind
  BY DEF Job, AllJobs, OwnJobs
<1>2. Own \in Nat /\ Own \notin Commands
  BY ServiceAssumption DEF Own
<1>3. QED BY <1>1, <1>2 DEF Turns

\* A step that is not the keep-alive's, on the work pool or on none.
LEMMA OwnFrame ==
  ASSUME IInv, UNCHANGED <<service, ending, context, own>>,
         Untouched(work) => Untouched(work'), Calmer(work', work, Turns)
  PROVE  OwnSide'
<1>1. Left' = Left
  BY DEF Left, Whole
<1>2. OwnSide
  BY DEF IInv
<1>3. UNCHANGED <<service, context, keep, mon, mread, mwrite>>
  BY DEF own
<1>4. /\ \A job \in Turns : Once(work', job) /\ (Queued(work', job) => Queued(work, job))
  BY <1>2 DEF OwnSide, Calmer
<1>5. Job("keep", Own) \in Turns /\ Job("callback", Own) \in Turns
  BY DEF Turns
<1>6. /\ \A job \in Turns : Once(work, job)'
      /\ Queued(work, Job("keep", Own))' => keep' = "due"
      /\ Queued(work, Job("callback", Own))' => keep' = "answered"
  <2>1. Turns' = Turns /\ \A job : (Once(work, job)' <=> Once(work', job)) /\ (Queued(work, job)' <=> Queued(work', job))
    BY DEF Turns, Job, Own, Once, Queued
  <2>2. QED BY <1>2, <1>3, <1>4, <1>5 DEF OwnSide
<1>7. (Left >= 2)' => Untouched(work)' /\ Untouched(mread)' /\ Untouched(mwrite)'
  BY <1>1, <1>2, <1>3 DEF OwnSide, Untouched
<1>8. QED BY <1>1, <1>2, <1>3, <1>6, <1>7 DEF OwnSide

\* A stage of main.
LEMMA OwnMain ==
  ASSUME IInv, UNCHANGED <<service, keep, mon>>, MainTypes', Left' \in {Left, Left - 1},
         mread' \in Pool, mread'.misused = mread.misused, mread' = mread \/ Left < 2,
         mwrite' \in Pool, mwrite'.misused = mwrite.misused, mwrite' = mwrite \/ Left < 2,
         work' = work \/ Left < 2, Calmer(work', work, Turns), context' \subseteq context,
         "worker" \in context' => Left' >= 3 /\ "map" \in context',
         keep # "waiting" => Left' >= 2 /\ "map" \in context'
  PROVE  OwnSide'
<1>1. OwnSide /\ Left \in Int
  BY WholeIs DEF IInv, Types, MainTypes
<1>2. Left' >= 2 => Left >= 2 /\ ~(Left < 2)
  BY <1>1
<1>3. (Left >= 2)' => Untouched(work)' /\ Untouched(mread)' /\ Untouched(mwrite)'
  BY <1>1, <1>2 DEF OwnSide, Untouched
<1>4. /\ \A job \in Turns : Once(work', job) /\ (Queued(work', job) => Queued(work, job))
  BY <1>1 DEF OwnSide, Calmer
<1>5. QED BY <1>1, <1>3, <1>4 DEF OwnSide, Turns

\* Jobs that were there are the keep-alive's, or jobs of connections that are served.
LEMMA JobsServed ==
  ASSUME IInv
  PROVE  \A j \in Jobs(read) \cup Jobs(write) \cup Jobs(work) :
            /\ j \in AllJobs /\ (j.conn # Own => j.conn \in Commands)
            /\ j.kind # "tail" /\ j.conn # Own => Serves(j.conn)
<1>1. Jobs(read) \subseteq AllJobs /\ Jobs(write) \subseteq AllJobs /\ Jobs(work) \subseteq AllJobs
  BY JobsType DEF IInv, Types, PoolTypes
<1>2. \A j \in AllJobs : j.conn # Own => j.conn \in Commands
  BY DEF AllJobs, ServerJobs, OwnJobs
<1>3. QED BY <1>1, <1>2 DEF IInv, ServerSide, Served

-----------------------------------------------------------------------------
(* The service *)

\* main: stop_sem, the stages of Socket, Server, context and work pool (Service.c).
LEMMA MainStep ==
  ASSUME IInv, Main \/ StopPost
  PROVE  IInv'
<1>0. /\ MainTypes /\ LinkTypes /\ PoolTypes /\ ServerSide /\ OwnSide /\ ClientSide
      /\ UNCHANGED <<service, keep, mon, cli, request, cmd, sem, cread, cwrite>>
  BY DEF IInv, Types, Main, Stopped, CloseAll, ServerEmptied, DestroyPools, DestroyContext, StopPost, client,
         own
<1>1. ClientSide'
  BY <1>0, SameClient
<1>2. ending # <<>>
  BY DEF Main, Stopped, CloseAll, ServerEmptied, DestroyPools, DestroyRead, DestroyWrite, DestroyWork,
         DestroyOwn, DestroyPool, DestroyContext, Next1, StopPost
<1>3. /\ Left \in -4..8 /\ Left - 1 \in (8 - Len(Whole))..8
      /\ Tail(ending) = Ends(Whole, Left - 1) /\ Len(Tail(ending)) = Len(ending) - 1
      /\ Head(ending) = "wait" => Left = 8
      /\ Head(ending) = "listener" => Left = 7
      /\ Head(ending) = "server" => Left = 6
      /\ Head(ending) = "read" => Left = 5
      /\ Head(ending) = "write" => Left = 4
      /\ Head(ending) \in Parts => Left < 4
      /\ Head(ending) \in {"work", "mread", "mwrite"} => Left < 2
      /\ service = "OS" => (Head(ending) = "worker" <=> Left = 3) /\ (Head(ending) = "map" <=> Left = 2)
  <2>1. Left \in (9 - Len(Whole))..8 /\ Len(Whole) \in {8, 13}
    BY <1>0, <1>2, Stages, WholeIs
  <2>2. Left \in -4..8 /\ Left - 1 \in (8 - Len(Whole))..8
    <3> DEFINE n == Len(Whole)
               k == Left
    <3>1. k \in (9 - n)..8 /\ (n = 8 \/ n = 13)
      BY <2>1
    <3> HIDE DEF n, k
    <3>2. k \in -4..8 /\ k - 1 \in (8 - n)..8
      BY <3>1
    <3>3. QED BY <3>2 DEF n, k
  <2>3. QED BY <1>0, <1>2, <2>2, Stages
<1>4. ASSUME ending' \in {ending, Tail(ending)}, stop_sem' \in Nat, stoppers' \in Nat,
             context' \subseteq Parts
      PROVE  /\ MainTypes'
             /\ Left' \in {Left, Left - 1} /\ (ending' = ending => Left' = Left)
             /\ (ending' = Tail(ending) => Left' = Left - 1)
  <2>1. Whole' = Whole
    BY <1>0 DEF Whole
  <2>2. CASE ending' = ending
    <3>1. Left' = Left
      BY <2>1, <2>2 DEF Left
    <3>2. Len(Tail(ending)) # Len(ending)
      <4>1. Len(ending) = Left - 8 + Len(Whole) \/ Len(ending) = Left + Len(Whole) - 8
        <5>1. ending \in Seq(Stage) /\ Len(Whole) \in {8, 13}
          BY <1>0, <1>2, EndingIs, WholeIs
        <5>2. Len(ending) \in Nat
          BY <5>1, LenProperties
        <5>3. QED BY <5>1, <5>2 DEF Left
      <4>2. Len(ending) \in Int
        BY <1>0, EndingIs, LenProperties
      <4>3. QED BY <1>3, <4>2
    <3>3. QED BY <1>0, <1>4, <2>1, <2>2, <3>1, <3>2 DEF MainTypes
  <2>3. CASE ending' = Tail(ending)
    <3>1. Left' = Left - 1
      <4>1. Len(ending) \in Int /\ Len(Whole) \in Int
        BY <1>0, EndingIs, LenProperties, WholeIs
      <4>2. QED BY <1>3, <2>1, <2>3, <4>1 DEF Left
    <3>2. ending' = Ends(Whole, Left - 1)
      BY <1>3, <2>3
    <3>3. Left' # Left
      BY <1>3, <3>1
    <3>4. ending' # ending
      BY <2>1, <3>3 DEF Left
    <3>5. QED BY <1>0, <1>3, <1>4, <2>1, <3>1, <3>2, <3>4 DEF MainTypes
  <2>4. QED BY <1>4, <2>2, <2>3
<1>5. stop_sem \in Nat /\ stoppers \in Nat /\ context \subseteq Parts
  BY <1>0 DEF MainTypes
<1>6. ASSUME MainTypes', UNCHANGED <<context, work, mread, mwrite>>, Left' = Left \/ (Left' = Left - 1 /\ Left > 3)
      PROVE  OwnSide'
  <2>1. Left' \in {Left, Left - 1} /\ (Left >= 3 => Left' >= 3) /\ (Left >= 2 => Left' >= 2)
    BY <1>3, <1>6
  <2>2. Calmer(work', work, Turns)
    BY <1>6 DEF Calmer
  <2>3. mread \in Pool /\ mwrite \in Pool
    BY <1>0 DEF OwnSide
  <2>4. "worker" \in context' => Left' >= 3 /\ "map" \in context'
    BY <1>0, <1>6, <2>1 DEF OwnSide
  <2>5. keep # "waiting" => Left' >= 2 /\ "map" \in context'
    BY <1>0, <1>6, <2>1 DEF OwnSide
  <2>6. QED BY <1>0, <1>6, <2>1, <2>2, <2>3, <2>4, <2>5, OwnMain
<1>7. CASE StopPost
  <2>1. UNCHANGED <<ending, context, pools, own, srv>> /\ stop_sem' = stop_sem + 1
        /\ stoppers' = stoppers - 1 /\ stoppers > 0
    BY <1>7 DEF StopPost
  <2>2. stop_sem' \in Nat /\ stoppers' \in Nat
    BY <1>5, <2>1
  <2>3. MainTypes' /\ Left' = Left
    BY <1>4, <1>5, <2>1, <2>2
  <2>4. LinkTypes' /\ PoolTypes' /\ ServerSide' /\ OwnSide'
    BY <1>0, <2>1, SamePools, SameServer, SameOwn DEF LinkTypes, pools
  <2>5. QED BY <1>1, <2>3, <2>4 DEF IInv, Types
<1>8. CASE Stopped \/ ServerEmptied
  <2>1. /\ UNCHANGED <<stoppers, context, pools, own, srv>> /\ ending' = Tail(ending)
        /\ stop_sem' \in {stop_sem, stop_sem - 1} /\ (stop_sem' # stop_sem => stop_sem > 0)
    BY <1>8 DEF Stopped, ServerEmptied, Next1
  <2>2. Left # 8 => \A c \in Commands : ~Serves(c)
    BY <1>3, <1>8 DEF Stopped, ServerEmptied, Next1, Serves
  <2>3. stop_sem' \in Nat
    BY <1>5, <2>1
  <2>4. MainTypes' /\ Left' = Left - 1
    BY <1>4, <1>5, <2>1, <2>3
  <2>5. LinkTypes' /\ PoolTypes'
    BY <1>0, <2>1, SamePools DEF LinkTypes
  <2>6. Left \in {6, 8}
    BY <1>3, <1>8 DEF Stopped, ServerEmptied, Next1
  <2>7. ServerSide'
    BY <1>0, <2>1, <2>2, <2>4, <2>6 DEF ServerSide, Served, Serves, Untouched, Jobs, pools
  <2>8. OwnSide'
    BY <1>6, <2>1, <2>4, <2>6 DEF pools, own
  <2>9. QED BY <1>1, <2>4, <2>5, <2>7, <2>8 DEF IInv, Types
<1>9. CASE CloseAll
  <2>1. /\ UNCHANGED <<stop_sem, stoppers, context, pools, own>> /\ ending' = Tail(ending) /\ Left = 7
        /\ srv' = [c \in Commands |-> IF srv[c] = "open" THEN "closing" ELSE srv[c]]
    BY <1>3, <1>9 DEF CloseAll, Next1
  <2>2. MainTypes' /\ Left' = Left - 1
    BY <1>4, <1>5, <2>1
  <2>3. LinkTypes' /\ PoolTypes'
    BY <1>0, <2>1, SamePools DEF LinkTypes, LinkStates
  <2>4. \A c \in Commands : Serves(c)' <=> Serves(c)
    BY <1>0, <2>1 DEF Serves, LinkTypes
  <2>5. Served(read)' /\ Served(write)' /\ Served(work)'
    <3>1. \A j \in Jobs(read) \cup Jobs(write) \cup Jobs(work) : j.conn # Own => j.conn \in Commands
      BY JobsServed
    <3>2. UNCHANGED <<Jobs(read), Jobs(write), Jobs(work)>>
      BY <2>1 DEF Jobs, pools
    <3>3. QED BY <1>0, <2>4, <3>1, <3>2 DEF ServerSide, Served
  <2>6. ServerSide'
    BY <1>0, <2>1, <2>2, <2>4, <2>5 DEF ServerSide, Untouched, pools
  <2>7. OwnSide'
    BY <1>6, <2>1, <2>2 DEF pools, own
  <2>8. QED BY <1>1, <2>2, <2>3, <2>6, <2>7 DEF IInv, Types
<1>10. CASE DestroyContext
  <2>0. PICK part \in Parts : /\ Next1(part) /\ context' = context \ {part}
                              /\ part = "map" => keep = "waiting"
    BY <1>10 DEF DestroyContext
  <2>1. /\ UNCHANGED <<stop_sem, stoppers, pools, own, srv>> /\ ending' = Tail(ending)
        /\ Head(ending) = part /\ Left < 4
    BY <1>3, <1>10, <2>0 DEF DestroyContext, Next1
  <2>2. MainTypes' /\ Left' = Left - 1
    BY <1>4, <1>5, <2>0, <2>1
  <2>3. LinkTypes' /\ PoolTypes'
    BY <1>0, <2>1, SamePools DEF LinkTypes
  <2>4. ServerSide'
    <3>1. Left' < 4 /\ Left < 6 /\ ~(Left' >= 4) /\ ~(Left' >= 6)
      BY <1>3, <2>1, <2>2
    <3>2. QED BY <1>0, <2>1, <3>1 DEF ServerSide, Served, Serves, Jobs, pools
  <2>5. UNCHANGED <<work, mread, mwrite>> /\ mread \in Pool /\ mwrite \in Pool /\ Calmer(work', work, Turns)
    BY <1>0, <2>1 DEF pools, own, OwnSide, Calmer
  <2>6. "worker" \notin context'
    <3>1. CASE "worker" \in context
      <4>1. service = "OS" /\ Left = 3
        BY <1>0, <1>3, <2>1, <3>1 DEF OwnSide, MainTypes
      <4>2. QED BY <1>3, <2>0, <2>1, <4>1
    <3>2. QED BY <2>0, <3>1
  <2>7. ASSUME keep # "waiting" PROVE Left' >= 2 /\ "map" \in context'
    <3>1. service = "OS" /\ Left >= 2 /\ "map" \in context /\ part # "map"
      BY <1>0, <2>0, <2>7 DEF OwnSide, MainTypes
    <3>2. Left # 2
      BY <1>3, <2>1, <3>1
    <3>3. QED BY <1>3, <2>0, <2>2, <3>1, <3>2
  <2>8. OwnSide'
    BY <1>0, <2>0, <2>2, <2>5, <2>6, <2>7, OwnMain
  <2>9. QED BY <1>1, <2>2, <2>3, <2>4, <2>8 DEF IInv, Types
<1>11. CASE DestroyPools
  <2>1. /\ UNCHANGED <<stop_sem, stoppers, context, srv>> /\ ending' \in {ending, Tail(ending)}
        /\ Left \in {4, 5} \/ Left < 2
    BY <1>3, <1>11 DEF DestroyPools, DestroyRead, DestroyWrite, DestroyWork, DestroyOwn, DestroyPool
  <2>2. MainTypes' /\ Left' \in {Left, Left - 1}
    BY <1>4, <1>5, <2>1
  <2>3. /\ read' # read => CanDestroy(read) /\ read' = Destroy(read)
        /\ write' # write => CanDestroy(write) /\ write' = Destroy(write)
        /\ work' # work => CanDestroy(work) /\ work' = Destroy(work) /\ Left < 2
        /\ mread' # mread => CanDestroy(mread) /\ mread' = Destroy(mread) /\ Left < 2
        /\ mwrite' # mwrite => CanDestroy(mwrite) /\ mwrite' = Destroy(mwrite) /\ Left < 2
    BY <1>3, <1>11 DEF DestroyPools, DestroyRead, DestroyWrite, DestroyWork, DestroyOwn, DestroyPool, pools
  <2>4. /\ read' \in Pool /\ read'.misused = read.misused /\ Jobs(read') \subseteq Jobs(read)
        /\ write' \in Pool /\ write'.misused = write.misused /\ Jobs(write') \subseteq Jobs(write)
        /\ work' \in Pool /\ work'.misused = work.misused /\ Jobs(work') \subseteq Jobs(work)
    BY <1>0, <2>3, DestroyKeeps DEF PoolTypes
  <2>5. /\ mread' \in Pool /\ mread'.misused = mread.misused
        /\ mwrite' \in Pool /\ mwrite'.misused = mwrite.misused
    BY <1>0, <2>3, DestroyKeeps DEF OwnSide
  <2>6. Calmer(work', work, Turns)
    <3>1. work' # work => Calm(work', work)
      BY <1>0, <2>3, DestroyKeeps DEF PoolTypes
    <3>2. QED BY <3>1, OwnJobsAre DEF Calm, Calmer
  <2>7. LinkTypes' /\ PoolTypes'
    BY <1>0, <2>1, <2>4 DEF LinkTypes, PoolTypes
  <2>8. Served(read)' /\ Served(write)' /\ Served(work)'
    BY <1>0, <2>1, <2>4 DEF ServerSide, Served, Serves
  <2>9. /\ Left < 6 /\ ~(Left' >= 6) /\ (Left' >= 4 => Left >= 4)
        /\ Left >= 3 => Left' >= 3
        /\ Left >= 2 => Left' >= 2
    BY <1>3, <2>1, <2>2
  <2>10. ServerSide'
    BY <1>0, <2>1, <2>4, <2>8, <2>9 DEF ServerSide, Serves
  <2>11. OwnSide'
    <3>1. "worker" \in context' => Left' >= 3 /\ "map" \in context'
      BY <1>0, <2>1, <2>9 DEF OwnSide
    <3>2. keep # "waiting" => Left' >= 2 /\ "map" \in context'
      BY <1>0, <2>1, <2>9 DEF OwnSide
    <3>3. QED BY <1>0, <2>1, <2>2, <2>3, <2>5, <2>6, <3>1, <3>2, OwnMain
  <2>12. QED BY <1>1, <2>2, <2>7, <2>10, <2>11 DEF IInv, Types
<1>12. QED BY <1>7, <1>8, <1>9, <1>10, <1>11 DEF Main

-----------------------------------------------------------------------------
(* The connections of the service *)

\* A connection that is served keeps the pools.
LEMMA Keeps ==
  ASSUME ServerSide, MainTypes, NEW c \in Commands, Serves(c)
  PROVE  Left >= 6 /\ Untouched(read) /\ Untouched(write) /\ Untouched(work)
<1>1. Left \in Int
  BY WholeIs DEF MainTypes
<1>2. ~(Left < 6)
  BY DEF ServerSide
<1>3. Left >= 6
  BY <1>1, <1>2
<1>4. QED BY <1>3 DEF ServerSide

\* The invariant of the service after a step that leaves main and the context alone.
LEMMA ServerFrame ==
  ASSUME IInv, UNCHANGED <<service, ending, context>>,
         {read', write', work'} \subseteq Pool,
         read'.misused = read.misused, write'.misused = write.misused, work'.misused = work.misused,
         Left < 6 => \A c \in Commands : ~Serves(c)',
         Left >= 6 => Untouched(read') /\ Untouched(write') /\ Untouched(work'),
         \A j \in Jobs(read') \cup Jobs(write') \cup Jobs(work') :
            j.kind # "tail" /\ j.conn # Own => Serves(j.conn)'
  PROVE  ServerSide'
<1>1. Left' = Left
  BY DEF Left, Whole
<1>2. Own' = Own
  BY DEF Own
<1>3. QED BY <1>1, <1>2 DEF IInv, ServerSide, Served

\* accept, the end of a connection, and the epoll thread.
LEMMA LinkStep ==
  ASSUME IInv, NEW c \in Commands, Accept(c) \/ ServerHangUp(c) \/ ServerGone(c) \/ ServerEvent(c)
  PROVE  IInv'
<1>0. /\ MainTypes /\ LinkTypes /\ PoolTypes /\ ServerSide /\ OwnSide /\ ClientSide
      /\ UNCHANGED <<service, ending, stop_sem, stoppers, context, write, work, own, cli, request, cmd, sem,
                     cread, cwrite>>
  BY DEF IInv, Types, Accept, ServerHangUp, ServerGone, ServerEvent, server, pools, client, main
<1>1. ClientSide' /\ MainTypes' /\ Left' = Left /\ OwnSide'
  BY <1>0, SameClient, SameMain, SameOwn
<1>2. CASE ServerEvent(c)
  <2> DEFINE job == Job("read", c)
  <2>1. srv' = srv /\ read' = InsertTailHash(read, job, c) /\ Serves(c)
    BY <1>2 DEF ServerEvent, Serves
  <2>2. job \in AllJobs /\ job.conn = c /\ c \in Nat
    BY ServiceAssumption DEF Job, AllJobs, ServerJobs
  <2>3. /\ read' \in Pool /\ read'.misused = read.misused /\ Jobs(read') \subseteq Jobs(read) \cup {job}
        /\ Untouched(read')
    <3>1. Untouched(read) /\ read \in Pool
      BY <1>0, <2>1, Keeps DEF PoolTypes
    <3> HIDE DEF job
    <3>2. QED BY <2>1, <2>2, <3>1, InsertTailHashKeeps
  <2>4. \A d : Serves(d)' <=> Serves(d)
    BY <2>1 DEF Serves
  <2> HIDE DEF job
  <2>5. ServerSide'
    <3>1. \A j \in Jobs(read') \cup Jobs(write') \cup Jobs(work') :
             j.kind # "tail" /\ j.conn # Own => Serves(j.conn)'
      BY <1>0, <2>1, <2>2, <2>3, <2>4, JobsServed
    <3>2. Left < 6 => \A d \in Commands : ~Serves(d)'
      BY <1>0, <2>4 DEF ServerSide
    <3>3. Left >= 6 => Untouched(read') /\ Untouched(write') /\ Untouched(work')
      BY <1>0, <2>3 DEF ServerSide
    <3>4. QED BY <1>0, <2>3, <3>1, <3>2, <3>3, ServerFrame DEF PoolTypes
  <2>6. LinkTypes' /\ PoolTypes'
    BY <1>0, <2>1, <2>3 DEF LinkTypes, PoolTypes
  <2>7. QED BY <1>1, <2>5, <2>6 DEF IInv, Types
<1>3. CASE ~ServerEvent(c)
  <2>1. /\ read' = read
        /\ \E s \in {"open", "closing", "gone"} : srv' = [srv EXCEPT ![c] = s]
    BY <1>3 DEF Accept, ServerHangUp, ServerGone, server, pools
  <2>2. /\ \A d \in Commands : d # c => (Serves(d)' <=> Serves(d))
        /\ srv' \in [Commands -> LinkStates]
    BY <1>0, <2>1 DEF LinkTypes, LinkStates, Serves
  <2>3. \/ Serves(c) /\ Serves(c)'
        \/ Left >= 6 /\ Serves(c)'
        \/ \A p \in {read, write, work} : ForConn(p, c) = {}
    <3>1. CASE Accept(c)
      <4>1. Left >= 6
        BY <1>0, <3>1, Stages DEF Accept, Listening
      <4>2. QED BY <1>0, <3>1, <4>1 DEF Accept, Serves, LinkTypes
    <3>2. CASE ServerHangUp(c)
      BY <1>0, <3>2 DEF ServerHangUp, Serves, LinkTypes
    <3>3. CASE ServerGone(c)
      BY <3>3 DEF ServerGone
    <3>4. QED BY <1>3, <3>1, <3>2, <3>3
  <2>4. \A j \in Jobs(read') \cup Jobs(write') \cup Jobs(work') :
           j.kind # "tail" /\ j.conn # Own => Serves(j.conn)'
    <3> SUFFICES ASSUME NEW j \in Jobs(read) \cup Jobs(write) \cup Jobs(work), j.kind # "tail", j.conn # Own
                 PROVE  Serves(j.conn)'
      BY <1>0, <2>1
    <3>1. j.conn \in Commands /\ Serves(j.conn)
      BY JobsServed
    <3>2. CASE j.conn = c
      BY <2>3, <3>2 DEF ForConn
    <3>3. CASE j.conn # c
      BY <2>2, <3>1, <3>3
    <3>4. QED BY <3>2, <3>3
  <2>5. Left < 6 => \A d \in Commands : ~Serves(d)'
    <3> SUFFICES ASSUME Left < 6 PROVE \A d \in Commands : ~Serves(d)'
      OBVIOUS
    <3>1. \A d \in Commands : ~Serves(d)
      BY <1>0 DEF ServerSide
    <3>2. ~Accept(c) /\ ~ServerHangUp(c) /\ ~ServerGone(c)
      <4>1. ~ServerHangUp(c) /\ ~ServerGone(c)
        BY <3>1 DEF ServerHangUp, ServerGone, Serves
      <4>2. ~Accept(c)
        <5>1. Accept(c) => Left \in {7, 8}
          BY <1>0, Stages DEF Accept, Listening
        <5>2. QED BY <5>1
      <4>3. QED BY <4>1, <4>2
    <3>3. QED BY <1>3, <3>2
  <2>6. ServerSide'
    BY <1>0, <2>1, <2>4, <2>5, ServerFrame DEF PoolTypes, ServerSide
  <2>7. LinkTypes' /\ PoolTypes'
    BY <1>0, <2>1, <2>2 DEF LinkTypes, PoolTypes
  <2>8. QED BY <1>1, <2>6, <2>7 DEF IInv, Types
<1>4. QED BY <1>2, <1>3

\* The threads of the service's pools: the read callback, an action and what is left of its
\* job, the write.
LEMMA ThreadStep ==
  ASSUME IInv, NEW c \in Commands, NEW i,
         ServerRead(i, c) \/ ServerAction(i, c) \/ ServerTail(i, c) \/ ServerWrite(i, c)
  PROVE  IInv'
<1>0. /\ MainTypes /\ LinkTypes /\ PoolTypes /\ ServerSide /\ OwnSide /\ ClientSide
      /\ UNCHANGED <<service, ending, stop_sem, context, own, srv, cli, cmd, sem, cread, cwrite>>
  BY DEF IInv, Types, ServerRead, ServerAction, ServerTail, ServerWrite, client, main
<1>1. stoppers' \in Nat
  <2>1. stoppers \in Nat /\ stoppers' \in {stoppers, stoppers + 1}
    BY <1>0 DEF MainTypes, ServerRead, ServerAction, ServerTail, ServerWrite
  <2>2. QED BY <2>1
<1>2. ClientSide' /\ MainTypes'
  BY <1>0, <1>1, SameClient DEF MainTypes, Left, Ends, Whole
<1>3. LinkTypes'
  <2>1. request' = request \/ \E r \in RequestStates : request' = [request EXCEPT ![c] = r]
    <3>1. request[c] \in RequestStates /\ {"acting", "lost", "returned"} \subseteq RequestStates
      BY <1>0 DEF LinkTypes, RequestStates, Waiting
    <3>2. QED BY <3>1 DEF ServerRead, ServerAction, ServerTail, ServerWrite
  <2>2. QED BY <1>0, <2>1 DEF LinkTypes
<1>4. \A d : Serves(d)' <=> Serves(d)
  BY <1>0 DEF Serves
<1>5. \A kind \in {"read", "write", "action", "tail"} :
         /\ Job(kind, c) \in AllJobs /\ Job(kind, c).kind = kind /\ Job(kind, c).conn = c
         /\ Job(kind, c) \notin Turns /\ c # Own
  BY OwnJobsAre DEF Job, AllJobs, ServerJobs
<1>6. /\ read \in Pool /\ write \in Pool /\ work \in Pool /\ c \in Nat
  BY <1>0, ServiceAssumption DEF PoolTypes
<1> DEFINE Fits(q, p, more) == /\ q \in Pool /\ q.misused = p.misused
                               /\ Jobs(q) \subseteq Jobs(p) \cup more
                               /\ Untouched(p) => Untouched(q)
                               /\ Calmer(q, p, Turns)
<1>7. ASSUME NEW r, NEW w, NEW k, Fits(read', read, r), Fits(work', work, k),
             /\ write' \in Pool /\ write'.misused = write.misused
             /\ Jobs(write') \subseteq Jobs(write) \cup w
             /\ Untouched(write) => Untouched(write'),
             \A j \in r \cup w \cup k : j.kind # "tail" => Serves(j.conn)
      PROVE  IInv'
  <2>1. PoolTypes'
    BY <1>0, <1>7 DEF PoolTypes
  <2>2. \A j \in Jobs(read') \cup Jobs(write') \cup Jobs(work') :
           j.kind # "tail" /\ j.conn # Own => Serves(j.conn)'
    BY <1>4, <1>7, JobsServed
  <2>3. ServerSide'
    BY <1>0, <1>4, <1>7, <2>2, ServerFrame DEF ServerSide
  <2>4. OwnSide'
    BY <1>0, <1>7, OwnFrame
  <2>5. QED BY <1>2, <1>3, <2>1, <2>3, <2>4 DEF IInv, Types
<1>8. \A p, q : \A job \in AllJobs : Calm(q, p) \/ (Calmer(q, p, AllJobs \ {job}) /\ job \notin Turns)
                                     => Calmer(q, p, Turns)
  BY OwnJobsAre DEF Calm, Calmer
<1>9. CASE ServerRead(i, c)
  <2>1. CanTake(read, i, Job("read", c)) /\ read' = Take(read, i, NoJob) /\ write' = write
    BY <1>9 DEF ServerRead
  <2>2. Fits(read', read, {}) /\ Job("read", c) \in Jobs(read)
    BY <1>5, <1>6, <1>8, <2>1, TakeKeeps
  <2>3. Serves(c) /\ Untouched(work)
    BY <1>0, <1>5, <2>2, JobsServed, Keeps
  <2>4. work' = work \/ work' = InsertTail(work, Job("action", c))
    BY <1>9 DEF ServerRead
  <2>5. Fits(work', work, {Job("action", c)})
    <3>1. CASE work' = work
      BY <1>6, <3>1 DEF Calmer
    <3>2. CASE work' = InsertTail(work, Job("action", c))
      BY <1>5, <1>6, <1>8, <2>3, <3>2, InsertTailKeeps
    <3>3. QED BY <2>4, <3>1, <3>2
  <2> HIDE DEF Fits
  <2>6. QED BY <1>5, <1>6, <1>7, <2>1, <2>2, <2>3, <2>5
<1>10. CASE ServerAction(i, c)
  <2>1. /\ CanTake(work, i, Job("action", c)) /\ work' = Take(work, i, Job("tail", c)) /\ read' = read
        /\ write' = write \/ write' = InsertTailHash(write, Job("write", c), c)
    BY <1>10 DEF ServerAction
  <2>2. Fits(work', work, {Job("tail", c)}) /\ Job("action", c) \in Jobs(work)
    BY <1>5, <1>6, <1>8, <2>1, TakeKeeps
  <2>3. Serves(c) /\ Untouched(write)
    BY <1>0, <1>5, <2>2, JobsServed, Keeps
  <2>4. /\ write' \in Pool /\ write'.misused = write.misused
        /\ Jobs(write') \subseteq Jobs(write) \cup {Job("write", c)} /\ Untouched(write')
    BY <1>5, <1>6, <2>1, <2>3, InsertTailHashKeeps
  <2>5. Fits(read', read, {})
    BY <1>6, <2>1 DEF Calmer
  <2> HIDE DEF Fits
  <2>6. \A j \in {} \cup {Job("write", c)} \cup {Job("tail", c)} : j.kind # "tail" => Serves(j.conn)
    BY <1>5, <2>3
  <2>7. QED BY <1>7, <2>2, <2>4, <2>5, <2>6
<1>11. CASE ServerTail(i, c)
  <2>1. work' = Return(work, i) /\ read' = read /\ write' = write
    BY <1>11 DEF ServerTail
  <2>2. Fits(work', work, {})
    BY <1>5, <1>6, <1>8, <2>1, ReturnKeeps
  <2>3. Fits(read', read, {})
    BY <1>6, <2>1 DEF Calmer
  <2> HIDE DEF Fits
  <2>4. QED BY <1>6, <1>7, <2>1, <2>2, <2>3
<1>12. CASE ServerWrite(i, c)
  <2>1. /\ CanTake(write, i, Job("write", c)) /\ write' = Take(write, i, NoJob)
        /\ read' = read /\ work' = work
    BY <1>12 DEF ServerWrite
  <2>2. /\ write' \in Pool /\ write'.misused = write.misused /\ Jobs(write') \subseteq Jobs(write)
        /\ Untouched(write) => Untouched(write')
    BY <1>6, <2>1, TakeKeeps
  <2>3. Fits(read', read, {}) /\ Fits(work', work, {})
    BY <1>6, <2>1 DEF Calmer
  <2> HIDE DEF Fits
  <2>4. QED BY <1>7, <2>2, <2>3
<1>13. QED BY <1>9, <1>10, <1>11, <1>12

-----------------------------------------------------------------------------
(* The processes of the commands *)

\* A step of one command leaves the service and the other commands alone.
Local(c) == /\ cmd' = [cmd EXCEPT ![c] = cmd'[c]] /\ cli' = [cli EXCEPT ![c] = cli'[c]]
            /\ request' = [request EXCEPT ![c] = request'[c]] /\ sem' = [sem EXCEPT ![c] = sem'[c]]
            /\ cread' = [cread EXCEPT ![c] = cread'[c]] /\ cwrite' = [cwrite EXCEPT ![c] = cwrite'[c]]
            /\ UNCHANGED <<server, srv>>

LEMMA CommandFrame ==
  ASSUME IInv, NEW c \in Commands, Local(c), Alone(c)',
         cmd'[c] \in CommandStates, cli'[c] \in LinkStates, request'[c] \in RequestStates,
         sem'[c] \in Nat, cread'[c] \in Pool, cwrite'[c] \in Pool
  PROVE  IInv'
<1>1. /\ MainTypes /\ LinkTypes /\ PoolTypes /\ ServerSide /\ OwnSide /\ ClientSide
      /\ UNCHANGED <<service, ending, stop_sem, stoppers, context, pools, own, srv>>
      /\ UNCHANGED <<read, write, work>>
  BY DEF IInv, Types, server, pools, Local
<1>2. MainTypes' /\ ServerSide' /\ OwnSide'
  BY <1>1, SameMain, SameServer, SameOwn
<1>3. LinkTypes'
  BY <1>1 DEF LinkTypes, Local
<1>4. PoolTypes'
  BY <1>1 DEF PoolTypes, Local
<1>5. \A d \in Commands : d # c => /\ cmd'[d] = cmd[d] /\ cli'[d] = cli[d]
                                   /\ cread'[d] = cread[d] /\ cwrite'[d] = cwrite[d]
  BY <1>1 DEF LinkTypes, PoolTypes, Local
<1>6. ASSUME NEW d \in Commands, d # c PROVE Alone(d)'
  <2>1. Alone(d)
    BY <1>1 DEF ClientSide
  <2>2. QED BY <1>5, <1>6, <2>1 DEF Alone, Untouched
<1>7. ClientSide'
  BY <1>6 DEF ClientSide
<1>8. QED BY <1>2, <1>3, <1>4, <1>7 DEF IInv, Types

\* What its values are when a command takes a step.
LEMMA CommandIs ==
  ASSUME IInv, NEW c \in Commands
  PROVE  /\ LinkTypes /\ PoolTypes /\ c \in Nat
         /\ cmd[c] \in CommandStates /\ cli[c] \in LinkStates /\ request[c] \in RequestStates
         /\ sem[c] \in Nat /\ cread[c] \in Pool /\ cwrite[c] \in Pool
         /\ cmd[c] \in Over => cli[c] \in {"none", "gone"}
         /\ cmd[c] = "start" => cli[c] = "none"
         /\ cmd[c] \notin Over => Untouched(cread[c]) /\ Untouched(cwrite[c])
         /\ ~cread[c].misused /\ ~cwrite[c].misused
         /\ \A kind \in {"read", "write"} : Job(kind, c) \in AllJobs
<1>1. LinkTypes /\ PoolTypes /\ Alone(c) /\ c \in Nat
  BY ServiceAssumption DEF IInv, Types, ClientSide
<1>2. \A kind \in {"read", "write"} : Job(kind, c) \in AllJobs
  BY DEF Job, AllJobs, ServerJobs
<1>3. QED BY <1>1, <1>2 DEF LinkTypes, PoolTypes, Alone

\* Its main thread and its connection, where they leave its pools alone (Service.c, Client.c).
LEMMA CommandMainStep ==
  ASSUME IInv, NEW c \in Commands,
         \/ Connect(c) \/ Awake(c) \/ Refused(c) \/ CloseClient(c) \/ ClientEmptied(c)
         \/ ClientHangUp(c) \/ ClientGone(c)
  PROVE  IInv'
<1>1. /\ LinkTypes /\ PoolTypes
      /\ cmd[c] \in CommandStates /\ cli[c] \in LinkStates /\ request[c] \in RequestStates
      /\ sem[c] \in Nat /\ cread[c] \in Pool /\ cwrite[c] \in Pool
      /\ cmd[c] \in Over => cli[c] \in {"none", "gone"}
      /\ cmd[c] = "start" => cli[c] = "none"
      /\ cmd[c] \notin Over => Untouched(cread[c]) /\ Untouched(cwrite[c])
      /\ ~cread[c].misused /\ ~cwrite[c].misused
  BY CommandIs
<1>2. UNCHANGED <<server, srv, cread, cwrite>>
  BY DEF Connect, Awake, Refused, CloseClient, ClientEmptied, ClientHangUp, ClientGone, client
<1>3. /\ cmd' = [cmd EXCEPT ![c] = cmd'[c]] /\ cmd'[c] \in CommandStates
      /\ cli' = [cli EXCEPT ![c] = cli'[c]] /\ cli'[c] \in LinkStates
  BY <1>1 DEF Connect, Awake, Refused, CloseClient, ClientEmptied, ClientHangUp, ClientGone, client,
              Goes, LinkTypes, CommandStates, LinkStates
<1>4. request' = [request EXCEPT ![c] = request'[c]] /\ request'[c] \in RequestStates
  BY <1>1 DEF Connect, Awake, Refused, CloseClient, ClientEmptied, ClientHangUp, ClientGone, client,
              Goes, LinkTypes, RequestStates
<1>5. sem' = [sem EXCEPT ![c] = sem'[c]] /\ sem'[c] \in Nat
  BY <1>1 DEF Connect, Awake, Refused, CloseClient, ClientEmptied, ClientHangUp, ClientGone, client,
              Goes, LinkTypes
<1>6. cread' = [cread EXCEPT ![c] = cread'[c]] /\ cwrite' = [cwrite EXCEPT ![c] = cwrite'[c]]
  BY <1>1, <1>2 DEF PoolTypes
<1>7. Local(c)
  BY <1>2, <1>3, <1>4, <1>5, <1>6 DEF Local
<1>8. /\ cmd'[c] \in Over => cli'[c] \in {"none", "gone"}
      /\ cmd'[c] = "start" => cli'[c] = "none"
      /\ cmd'[c] \notin Over => cmd[c] \notin Over
  BY <1>1 DEF Connect, Awake, Refused, CloseClient, ClientEmptied, ClientHangUp, ClientGone, client,
              Goes, LinkTypes, Over
<1>9. Alone(c)'
  BY <1>1, <1>2, <1>8 DEF Alone, Untouched
<1>10. QED BY <1>1, <1>2, <1>3, <1>4, <1>5, <1>7, <1>9, CommandFrame

\* Its steps on its pools: a request, the threads, the epoll thread, and the end.
LEMMA CommandPoolStep ==
  ASSUME IInv, NEW c \in Commands,
         Send(c) \/ DestroyClientPools(c) \/ ClientEvent(c) \/ ClientWrite(c) \/ ClientRead(c)
  PROVE  IInv'
<1>1. /\ LinkTypes /\ PoolTypes /\ c \in Nat
      /\ cmd[c] \in CommandStates /\ cli[c] \in LinkStates /\ request[c] \in RequestStates
      /\ sem[c] \in Nat /\ cread[c] \in Pool /\ cwrite[c] \in Pool
      /\ cmd[c] \in Over => cli[c] \in {"none", "gone"}
      /\ cmd[c] = "start" => cli[c] = "none"
      /\ cmd[c] \notin Over => Untouched(cread[c]) /\ Untouched(cwrite[c])
      /\ ~cread[c].misused /\ ~cwrite[c].misused
      /\ \A kind \in {"read", "write"} : Job(kind, c) \in AllJobs
  BY CommandIs
<1>2. UNCHANGED <<server, srv, cli>>
  BY DEF Send, DestroyClientPools, ClientEvent, ClientWrite, ClientRead
<1>3. /\ cmd' = [cmd EXCEPT ![c] = cmd'[c]] /\ cmd'[c] \in CommandStates
      /\ cmd'[c] \in Over <=> cmd[c] \in Over
      /\ cmd'[c] # "start" \/ cmd'[c] = cmd[c]
  BY <1>1 DEF Send, DestroyClientPools, ClientEvent, ClientWrite, ClientRead, Goes, LinkTypes,
              CommandStates, Over
<1>4. request' = [request EXCEPT ![c] = request'[c]] /\ request'[c] \in RequestStates
  BY <1>1 DEF Send, DestroyClientPools, ClientEvent, ClientWrite, ClientRead, LinkTypes,
              RequestStates, Waiting
<1>5. sem' = [sem EXCEPT ![c] = sem'[c]] /\ sem'[c] \in Nat
  BY <1>1 DEF Send, DestroyClientPools, ClientEvent, ClientWrite, ClientRead, LinkTypes
<1>6. cli' = [cli EXCEPT ![c] = cli'[c]] /\ cli'[c] = cli[c]
  BY <1>1, <1>2 DEF LinkTypes
<1> DEFINE Fits(q) == q \in Pool /\ ~q.misused /\ (cmd[c] \notin Over => Untouched(q))
<1>7. Fits(cread[c]) /\ Fits(cwrite[c])
  BY <1>1
<1>8. \/ cread' = cread
      \/ \E p : Fits(p) /\ cread' = [cread EXCEPT ![c] = p]
  <2>1. CASE ClientEvent(c)
    <3> DEFINE p == InsertTailHash(cread[c], Job("read", c), c)
    <3>1. cread' = [cread EXCEPT ![c] = p] /\ cli[c] = "open"
      BY <2>1 DEF ClientEvent
    <3>2. Untouched(cread[c]) /\ Job("read", c) \in AllJobs
      BY <1>1, <3>1
    <3>3. p \in Pool /\ p.misused = cread[c].misused /\ Untouched(p)
      <4> DEFINE q == cread[c]
                 job == Job("read", c)
      <4>1. q \in Pool /\ Untouched(q) /\ job \in AllJobs /\ c \in Nat
        BY <1>1, <3>2
      <4> HIDE DEF q, job
      <4>2. /\ InsertTailHash(q, job, c) \in Pool /\ InsertTailHash(q, job, c).misused = q.misused
            /\ Untouched(InsertTailHash(q, job, c))
        BY <4>1, InsertTailHashKeeps
      <4>3. QED BY <4>2 DEF q, job
    <3> HIDE DEF p
    <3>4. QED BY <1>1, <3>1, <3>3
  <2>2. CASE ClientRead(c)
    <3> DEFINE p == Take(cread[c], 1, NoJob)
    <3>1. cread' = [cread EXCEPT ![c] = p] /\ CanTake(cread[c], 1, Job("read", c))
      BY <2>2 DEF ClientRead
    <3>2. p \in Pool /\ p.misused = cread[c].misused /\ (Untouched(cread[c]) => Untouched(p))
      BY <1>1, <3>1, TakeKeeps
    <3> HIDE DEF p
    <3>3. QED BY <1>1, <3>1, <3>2
  <2>3. CASE DestroyClientPools(c) /\ cmd[c] = "read"
    <3> DEFINE p == Destroy(cread[c])
    <3>1. cread' = [cread EXCEPT ![c] = p] /\ CanDestroy(cread[c]) /\ cmd[c] \in Over
      BY <2>3 DEF DestroyClientPools, Goes, Over
    <3>2. p \in Pool /\ p.misused = cread[c].misused
      BY <1>1, <3>1, DestroyKeeps
    <3> HIDE DEF p
    <3>3. QED BY <1>1, <3>1, <3>2
  <2>4. QED BY <2>1, <2>2, <2>3 DEF Send, DestroyClientPools, ClientWrite, Goes
<1>9. \/ cwrite' = cwrite
      \/ \E p : Fits(p) /\ cwrite' = [cwrite EXCEPT ![c] = p]
  <2>1. CASE Send(c)
    <3> DEFINE p == InsertTailHash(cwrite[c], Job("write", c), c)
    <3>1. cwrite' = [cwrite EXCEPT ![c] = p] /\ cmd[c] \notin Over
      BY <2>1 DEF Send, Goes, Over
    <3>2. Untouched(cwrite[c]) /\ Job("write", c) \in AllJobs
      BY <1>1, <3>1
    <3>3. p \in Pool /\ p.misused = cwrite[c].misused /\ Untouched(p)
      <4> DEFINE q == cwrite[c]
                 job == Job("write", c)
      <4>1. q \in Pool /\ Untouched(q) /\ job \in AllJobs /\ c \in Nat
        BY <1>1, <3>2
      <4> HIDE DEF q, job
      <4>2. /\ InsertTailHash(q, job, c) \in Pool /\ InsertTailHash(q, job, c).misused = q.misused
            /\ Untouched(InsertTailHash(q, job, c))
        BY <4>1, InsertTailHashKeeps
      <4>3. QED BY <4>2 DEF q, job
    <3> HIDE DEF p
    <3>4. QED BY <1>1, <3>1, <3>3
  <2>2. CASE ClientWrite(c)
    <3> DEFINE p == Take(cwrite[c], 1, NoJob)
    <3>1. cwrite' = [cwrite EXCEPT ![c] = p] /\ CanTake(cwrite[c], 1, Job("write", c))
      BY <2>2 DEF ClientWrite
    <3>2. p \in Pool /\ p.misused = cwrite[c].misused /\ (Untouched(cwrite[c]) => Untouched(p))
      BY <1>1, <3>1, TakeKeeps
    <3> HIDE DEF p
    <3>3. QED BY <1>1, <3>1, <3>2
  <2>3. CASE DestroyClientPools(c) /\ cmd[c] = "write"
    <3> DEFINE p == Destroy(cwrite[c])
    <3>1. cwrite' = [cwrite EXCEPT ![c] = p] /\ CanDestroy(cwrite[c]) /\ cmd[c] \in Over
      BY <2>3 DEF DestroyClientPools, Goes, Over
    <3>2. p \in Pool /\ p.misused = cwrite[c].misused
      BY <1>1, <3>1, DestroyKeeps
    <3> HIDE DEF p
    <3>3. QED BY <1>1, <3>1, <3>2
  <2>4. QED BY <2>1, <2>2, <2>3 DEF DestroyClientPools, ClientEvent, ClientRead, Goes
<1> HIDE DEF Fits
<1>10. cread' = [cread EXCEPT ![c] = cread'[c]] /\ Fits(cread'[c])
  BY <1>1, <1>7, <1>8 DEF PoolTypes
<1>11. cwrite' = [cwrite EXCEPT ![c] = cwrite'[c]] /\ Fits(cwrite'[c])
  BY <1>1, <1>7, <1>9 DEF PoolTypes
<1> USE DEF Fits
<1>12. Local(c)
  BY <1>2, <1>3, <1>4, <1>5, <1>6, <1>10, <1>11 DEF Local
<1>13. Alone(c)'
  BY <1>1, <1>3, <1>6, <1>10, <1>11 DEF Alone, Untouched
<1>14. QED BY <1>1, <1>2, <1>3, <1>4, <1>5, <1>6, <1>10, <1>11, <1>12, <1>13, CommandFrame

-----------------------------------------------------------------------------
(* The keep-alive of an object service *)

\* A step of the keep-alive: what it does to the work pool and the pools of its client, and
\* where it leaves the keep-alive.
LEMMA OwnEffect ==
  ASSUME IInv, UNCHANGED others, NEW more, \A j \in more : j.conn = Own,
         work' \in Pool, work'.misused = work.misused, Jobs(work') \subseteq Jobs(work) \cup more,
         Untouched(work) => Untouched(work'),
         keep' \in KeepStates, mon' \in LinkStates, mread' \in Pool, mwrite' \in Pool,
         keep' # "waiting" => service # "Mon" /\ Left >= 2 /\ "map" \in context,
         Left >= 2 => Untouched(mread') /\ Untouched(mwrite'),
         mon' = "open" => ~mread'.misused /\ ~mwrite'.misused,
         \A job \in Turns : Once(work', job),
         Queued(work', Job("keep", Own)) => keep' = "due",
         Queued(work', Job("callback", Own)) => keep' = "answered"
  PROVE  IInv'
<1>1. /\ MainTypes /\ LinkTypes /\ PoolTypes /\ ServerSide /\ OwnSide /\ ClientSide
      /\ UNCHANGED <<service, ending, stop_sem, stoppers, context, read, write, srv, cli, request, cmd, sem,
                     cread, cwrite>>
  BY DEF IInv, Types, others, main, client
<1>2. MainTypes' /\ Left' = Left /\ ClientSide'
  BY <1>1, SameMain, SameClient
<1>3. LinkTypes' /\ PoolTypes'
  BY <1>1 DEF LinkTypes, PoolTypes
<1>4. \A c : Serves(c)' <=> Serves(c)
  BY <1>1 DEF Serves
<1>5. ServerSide'
  <2>1. \A j \in Jobs(read') \cup Jobs(write') \cup Jobs(work') :
           j.kind # "tail" /\ j.conn # Own => Serves(j.conn)'
    BY <1>1, <1>4, JobsServed
  <2>2. {read', write', work'} \subseteq Pool
    BY <1>1 DEF PoolTypes
  <2>3. QED BY <1>1, <1>4, <2>1, <2>2, ServerFrame DEF ServerSide
<1>6. /\ \A job \in Turns : Once(work, job)'
      /\ Queued(work, Job("keep", Own))' => keep' = "due"
      /\ Queued(work, Job("callback", Own))' => keep' = "answered"
  BY DEF Turns, Job, Own, Once, Queued
<1>7. (Left >= 2)' => Untouched(work)' /\ Untouched(mread)' /\ Untouched(mwrite)'
  BY <1>1, <1>2 DEF OwnSide, Untouched
<1>8. OwnSide'
  <2>1. \A job : (Once(work, job)' <=> Once(work', job))
    BY DEF Once
  <2>2. QED BY <1>1, <1>2, <1>6, <1>7, <2>1 DEF OwnSide, Turns
<1>9. QED BY <1>2, <1>3, <1>5, <1>8 DEF IInv, Types

\* What holds of the keep-alive when it takes a step.
LEMMA OwnIs ==
  ASSUME IInv
  PROVE  /\ work \in Pool /\ mread \in Pool /\ mwrite \in Pool /\ keep \in KeepStates /\ mon \in LinkStates
         /\ keep # "waiting" => service # "Mon" /\ Left >= 2 /\ "map" \in context
         /\ "worker" \in context => service # "Mon" /\ Left >= 2 /\ "map" \in context
         /\ Left >= 2 => Untouched(work) /\ Untouched(mread) /\ Untouched(mwrite)
         /\ mon = "open" => ~mread.misused /\ ~mwrite.misused
         /\ \A job \in Turns : Once(work, job)
         /\ Queued(work, Job("keep", Own)) => keep = "due"
         /\ Queued(work, Job("callback", Own)) => keep = "answered"
<1>1. PoolTypes /\ OwnSide /\ Left \in Int
  BY WholeIs DEF IInv, Types, MainTypes
<1>2. Left >= 3 => Left >= 2
  BY <1>1
<1>3. QED BY <1>1, <1>2 DEF PoolTypes, OwnSide

\* The effect of a step on the work pool, where it queues neither a keep-alive nor a callback.
Works(more) == /\ work' \in Pool /\ work'.misused = work.misused /\ Jobs(work') \subseteq Jobs(work) \cup more
               /\ Untouched(work) => Untouched(work')
               /\ \A j \in more : j.conn = Own
               /\ \A job \in Turns : Once(work', job) /\ (Queued(work', job) => Queued(work, job))

LEMMA WorkSteps ==
  ASSUME IInv
  PROVE  /\ work' = work => Works({})
         /\ \A i, job, kind : kind \in {"sending", "after"} /\ CanTake(work, i, job)
               /\ work' = Take(work, i, Job(kind, Own))
                  => /\ Works({Job(kind, Own)}) /\ Queued(work, job)
                     /\ job \in Turns => ~Queued(work', job)
         /\ \A i, kind : kind \in {"late", "tail"} /\ work' = GoOn(work, i, Job(kind, Own))
                           => Works({Job(kind, Own)})
         /\ \A i : work' = Return(work, i) => Works({})
<1>1. work \in Pool /\ \A job \in Turns : Once(work, job)
  BY OwnIs
<1>2. Calm(work', work) => \A job \in Turns : Once(work', job) /\ (Queued(work', job) => Queued(work, job))
  BY <1>1, OwnJobsAre DEF Calm, Calmer
<1>3. work' = work => Works({})
  BY <1>1 DEF Works
<1>4. ASSUME NEW i, NEW job, NEW kind \in {"sending", "after"}, CanTake(work, i, job),
             work' = Take(work, i, Job(kind, Own))
      PROVE  Works({Job(kind, Own)}) /\ Queued(work, job) /\ (job \in Turns => ~Queued(work', job))
  <2> DEFINE next == Job(kind, Own)
  <2>1. next \in AllJobs /\ next.conn = Own
    BY OwnJobsAre
  <2>2. work' = Take(work, i, next)
    BY <1>4
  <2> HIDE DEF next
  <2>3. /\ work' \in Pool /\ work'.misused = work.misused /\ Jobs(work') \subseteq Jobs(work) \cup ({next} \ {NoJob})
        /\ Untouched(work) => Untouched(work')
        /\ Calm(work', work) /\ Queued(work, job) /\ (Once(work, job) => ~Queued(work', job))
    BY <1>1, <1>4, <2>1, <2>2, TakeKeeps
  <2>4. Works({next})
    BY <1>2, <2>1, <2>3 DEF Works
  <2>5. QED BY <1>1, <2>3, <2>4 DEF next
<1>5. ASSUME NEW i, NEW kind \in {"late", "tail"}, work' = GoOn(work, i, Job(kind, Own))
      PROVE  Works({Job(kind, Own)})
  <2> DEFINE next == Job(kind, Own)
  <2>1. next \in AllJobs /\ next.conn = Own
    BY OwnJobsAre
  <2>2. work' = GoOn(work, i, next)
    BY <1>5
  <2> HIDE DEF next
  <2>3. /\ work' \in Pool /\ work'.misused = work.misused /\ Jobs(work') \subseteq Jobs(work) \cup ({next} \ {NoJob})
        /\ Untouched(work) => Untouched(work')
        /\ Calm(work', work)
    BY <1>1, <2>1, <2>2, GoOnKeeps
  <2>4. Works({next})
    BY <1>2, <2>1, <2>3 DEF Works
  <2>5. QED BY <2>4 DEF next
<1>6. ASSUME NEW i, work' = Return(work, i) PROVE Works({})
  BY <1>1, <1>2, <1>6, ReturnKeeps DEF Works
<1>7. QED BY <1>3, <1>4, <1>5, <1>6

\* What a step does to a pool of the client to Mon.
Keeping(q, p) == q \in Pool /\ q.misused = p.misused /\ (Untouched(p) => Untouched(q))

\* The worker, the threads that read and write, Mon, and the callback.
LEMMA OwnStep ==
  ASSUME IInv, NEW i,
         \/ KeepAlive(i) \/ KeepAliveSent(i) \/ KeepAliveRefused(i) \/ KeepAliveTail(i) \/ Callback(i)
         \/ KeepWrite \/ MonAnswers \/ MonGone
  PROVE  IInv'
<1>1. /\ work \in Pool /\ mread \in Pool /\ mwrite \in Pool /\ keep \in KeepStates /\ mon \in LinkStates
      /\ keep # "waiting" => service # "Mon" /\ Left >= 2 /\ "map" \in context
      /\ Left >= 2 => Untouched(work) /\ Untouched(mread) /\ Untouched(mwrite)
      /\ mon = "open" => ~mread.misused /\ ~mwrite.misused
      /\ Queued(work, Job("keep", Own)) => keep = "due"
      /\ Queued(work, Job("callback", Own)) => keep = "answered"
  BY OwnIs
<1>2. Job("keep", Own) \in Turns /\ Job("callback", Own) \in Turns /\ Own \in Nat
      /\ \A kind \in {"write", "read"} : Job(kind, Own) \in AllJobs
  BY OwnJobsAre DEF Turns
<1>3. UNCHANGED others
  BY DEF KeepAlive, KeepAliveSent, KeepAliveRefused, KeepAliveTail, Callback, KeepWrite, MonAnswers, MonGone
<1>4. ASSUME NEW more, Works(more), keep' \in KeepStates, mon' \in {mon, "gone"},
             keep' # "waiting" => keep # "waiting", Keeping(mread', mread), Keeping(mwrite', mwrite),
             Queued(work', Job("keep", Own)) => keep' = "due",
             Queued(work', Job("callback", Own)) => keep' = "answered"
      PROVE  IInv'
  <2>1. mon' \in LinkStates /\ (mon' = "open" => ~mread'.misused /\ ~mwrite'.misused)
    BY <1>1, <1>4 DEF LinkStates, Keeping
  <2>2. QED BY <1>1, <1>3, <1>4, <2>1, OwnEffect DEF Works, Keeping
<1>5. Keeping(mread, mread) /\ Keeping(mwrite, mwrite)
  BY <1>1 DEF Keeping
<1>6. CASE KeepAlive(i)
  <2>1. /\ CanTake(work, i, Job("keep", Own)) /\ work' = Take(work, i, Job("sending", Own))
        /\ keep' \in {"refused", "linked"} /\ UNCHANGED <<mon, mread, mwrite>>
    BY <1>6 DEF KeepAlive
  <2>2. Works({Job("sending", Own)}) /\ Queued(work, Job("keep", Own)) /\ ~Queued(work', Job("keep", Own))
    BY <1>2, <2>1, WorkSteps
  <2>3. keep = "due" /\ ~Queued(work', Job("callback", Own))
    BY <1>1, <1>2, <2>2 DEF Works
  <2>4. QED BY <1>4, <1>5, <2>1, <2>2, <2>3 DEF KeepStates
<1>7. CASE KeepAliveSent(i)
  <2>1. /\ work' = GoOn(work, i, Job("late", Own)) /\ mwrite' = InsertTailHash(mwrite, Job("write", Own), Own)
        /\ keep = "linked" /\ keep' = "written" /\ UNCHANGED <<mon, mread>>
    BY <1>7 DEF KeepAliveSent
  <2>2. Works({Job("late", Own)})
    BY <2>1, WorkSteps
  <2>3. ~Queued(work', Job("keep", Own)) /\ ~Queued(work', Job("callback", Own))
    BY <1>1, <1>2, <2>1, <2>2 DEF Works
  <2>4. Keeping(mwrite', mwrite)
    BY <1>1, <1>2, <2>1, InsertTailHashKeeps DEF Keeping
  <2>5. QED BY <1>4, <1>5, <2>1, <2>2, <2>3, <2>4 DEF KeepStates
<1>8. CASE KeepAliveRefused(i)
  <2>1. /\ work' = GoOn(work, i, Job("tail", Own)) /\ keep \in {"linked", "refused"} /\ keep' = "waiting"
        /\ UNCHANGED <<mon, mread, mwrite>>
    BY <1>8 DEF KeepAliveRefused
  <2>2. Works({Job("tail", Own)})
    BY <2>1, WorkSteps
  <2>3. ~Queued(work', Job("keep", Own)) /\ ~Queued(work', Job("callback", Own))
    BY <1>1, <1>2, <2>1, <2>2 DEF Works
  <2>4. QED BY <1>4, <1>5, <2>1, <2>2, <2>3 DEF KeepStates
<1>9. CASE KeepAliveTail(i)
  <2>1. work' = Return(work, i) /\ UNCHANGED <<keep, mon, mread, mwrite>>
    BY <1>9 DEF KeepAliveTail, own
  <2>2. Works({})
    BY <2>1, WorkSteps
  <2>3. /\ Queued(work', Job("keep", Own)) => keep = "due"
        /\ Queued(work', Job("callback", Own)) => keep = "answered"
    BY <1>1, <1>2, <2>2 DEF Works
  <2>4. QED BY <1>1, <1>4, <1>5, <2>1, <2>2, <2>3
<1>10. CASE Callback(i)
  <2>1. /\ CanTake(work, i, Job("callback", Own)) /\ work' = Take(work, i, Job("after", Own))
        /\ keep' = "waiting" /\ UNCHANGED <<mon, mread, mwrite>>
    BY <1>10 DEF Callback
  <2>2. /\ Works({Job("after", Own)}) /\ Queued(work, Job("callback", Own))
        /\ ~Queued(work', Job("callback", Own))
    BY <1>2, <2>1, WorkSteps
  <2>3. keep = "answered" /\ ~Queued(work', Job("keep", Own))
    BY <1>1, <1>2, <2>2 DEF Works
  <2>4. QED BY <1>4, <1>5, <2>1, <2>2, <2>3 DEF KeepStates
<1>11. CASE KeepWrite
  <2>1. /\ CanTake(mwrite, 1, Job("write", Own)) /\ mwrite' = Take(mwrite, 1, NoJob)
        /\ keep' = keep \/ (keep = "written" /\ keep' = "sent")
        /\ UNCHANGED <<work, mon, mread>>
    BY <1>11 DEF KeepWrite
  <2>2. Works({})
    BY <2>1, WorkSteps
  <2>3. /\ Queued(work', Job("keep", Own)) => keep' = "due"
        /\ Queued(work', Job("callback", Own)) => keep' = "answered"
    BY <1>1, <2>1
  <2>4. Keeping(mwrite', mwrite)
    BY <1>1, <2>1, TakeKeeps DEF Keeping
  <2>5. keep' \in KeepStates /\ (keep' # "waiting" => keep # "waiting")
    BY <1>1, <2>1 DEF KeepStates
  <2>6. QED BY <1>4, <1>5, <2>1, <2>2, <2>3, <2>4, <2>5
<1>12. CASE MonAnswers
  <2>1. /\ mread' = InsertTailHash(mread, Job("read", Own), Own)
        /\ keep = "sent" /\ keep' = "returned" /\ UNCHANGED <<work, mon, mwrite>>
    BY <1>12 DEF MonAnswers
  <2>2. Works({})
    BY <2>1, WorkSteps
  <2>3. ~Queued(work', Job("keep", Own)) /\ ~Queued(work', Job("callback", Own))
    BY <1>1, <2>1
  <2>4. Keeping(mread', mread)
    BY <1>1, <1>2, <2>1, InsertTailHashKeeps DEF Keeping
  <2>5. QED BY <1>4, <1>5, <2>1, <2>2, <2>3, <2>4 DEF KeepStates
<1>13. CASE MonGone
  <2>1. /\ mon' = "gone" /\ UNCHANGED <<work, mread, mwrite>>
        /\ keep' = keep \/ (keep \in {"linked", "written", "sent", "returned"} /\ keep' = "waiting")
    BY <1>13 DEF MonGone
  <2>2. Works({})
    BY <2>1, WorkSteps
  <2>3. /\ Queued(work', Job("keep", Own)) => keep' = "due"
        /\ Queued(work', Job("callback", Own)) => keep' = "answered"
    BY <1>1, <2>1
  <2>4. keep' \in KeepStates /\ (keep' # "waiting" => keep # "waiting")
    BY <1>1, <2>1 DEF KeepStates
  <2>5. QED BY <1>4, <1>5, <2>1, <2>2, <2>3, <2>4
<1>14. QED BY <1>6, <1>7, <1>8, <1>9, <1>10, <1>11, <1>12, <1>13

\* Those that queue a keep-alive or a callback, and Mon's hang-up, which may come when the
\* pools of the client have ended.
LEMMA OwnQueueStep ==
  ASSUME IInv, Tick \/ KeepRead \/ MonHangUp
  PROVE  IInv'
<1>1. /\ work \in Pool /\ mread \in Pool /\ mwrite \in Pool /\ keep \in KeepStates /\ mon \in LinkStates
      /\ keep # "waiting" => service # "Mon" /\ Left >= 2 /\ "map" \in context
      /\ "worker" \in context => service # "Mon" /\ Left >= 2 /\ "map" \in context
      /\ Left >= 2 => Untouched(work) /\ Untouched(mread) /\ Untouched(mwrite)
      /\ mon = "open" => ~mread.misused /\ ~mwrite.misused
      /\ \A job \in Turns : Once(work, job)
      /\ Queued(work, Job("keep", Own)) => keep = "due"
      /\ Queued(work, Job("callback", Own)) => keep = "answered"
  BY OwnIs
<1>2. /\ Turns = {Job("keep", Own), Job("callback", Own)} /\ Turns \subseteq AllJobs
      /\ Job("keep", Own) # Job("callback", Own) /\ Own \in Nat
      /\ \A kind \in {"write", "read", "keep", "callback"} :
            Job(kind, Own) \in AllJobs /\ Job(kind, Own).conn = Own
  BY OwnJobsAre DEF Turns
<1>3. UNCHANGED others
  BY DEF Tick, KeepRead, MonHangUp
<1>4. ASSUME NEW job \in Turns, ~Queued(work, Job("keep", Own)), ~Queued(work, Job("callback", Own)),
             Untouched(work), work' = InsertTail(work, job)
      PROVE  /\ work' \in Pool /\ work'.misused = work.misused /\ Jobs(work') \subseteq Jobs(work) \cup {job}
             /\ Untouched(work')
             /\ \A turn \in Turns : Once(work', turn) /\ (turn # job => ~Queued(work', turn))
  <2>1. job \in AllJobs /\ ~Queued(work, job)
    BY <1>2, <1>4
  <2>2. /\ InsertTail(work, job) \in Pool /\ InsertTail(work, job).misused = work.misused
        /\ Jobs(InsertTail(work, job)) \subseteq Jobs(work) \cup {job}
        /\ Untouched(InsertTail(work, job))
        /\ Calmer(InsertTail(work, job), work, AllJobs \ {job}) /\ Once(InsertTail(work, job), job)
    BY <1>1, <1>4, <2>1, InsertTailKeeps
  <2>3. QED BY <1>1, <1>2, <1>4, <2>2 DEF Calmer
<1>5. CASE Tick
  <2>1. /\ "worker" \in context /\ keep = "waiting" /\ keep' = "due"
        /\ work' = InsertTail(work, Job("keep", Own)) /\ UNCHANGED <<mon, mread, mwrite>>
    BY <1>5 DEF Tick
  <2>2. ~Queued(work, Job("keep", Own)) /\ ~Queued(work, Job("callback", Own)) /\ Untouched(work)
    BY <1>1, <2>1
  <2>3. /\ work' \in Pool /\ work'.misused = work.misused
        /\ Jobs(work') \subseteq Jobs(work) \cup {Job("keep", Own)} /\ Untouched(work')
        /\ \A job \in Turns : Once(work', job) /\ (job # Job("keep", Own) => ~Queued(work', job))
    BY <1>2, <1>4, <2>1, <2>2
  <2>4. keep' \in KeepStates /\ ~Queued(work', Job("callback", Own))
    BY <1>2, <2>1, <2>3 DEF KeepStates
  <2>5. QED BY <1>1, <1>2, <1>3, <2>1, <2>3, <2>4, OwnEffect
<1>6. CASE KeepRead
  <2>1. /\ CanTake(mread, 1, Job("read", Own)) /\ mread' = Take(mread, 1, NoJob) /\ UNCHANGED <<mon, mwrite>>
    BY <1>6 DEF KeepRead
  <2>2. Keeping(mread', mread)
    BY <1>1, <2>1, TakeKeeps DEF Keeping
  <2>3. CASE UNCHANGED <<keep, work>>
    <3>1. Works({})
      BY <2>3, WorkSteps
    <3> DEFINE more == {}
    <3>2. \A j \in more : j.conn = Own
      OBVIOUS
    <3>3. Works(more)
      BY <3>1
    <3> HIDE DEF more
    <3>4. mread' \in Pool /\ mwrite' \in Pool /\ (Left >= 2 => Untouched(mread') /\ Untouched(mwrite'))
      BY <1>1, <2>1, <2>2 DEF Keeping
    <3>5. mon' = "open" => ~mread'.misused /\ ~mwrite'.misused
      BY <1>1, <2>1, <2>2 DEF Keeping
    <3>6. QED BY <1>1, <1>3, <2>1, <2>3, <3>2, <3>3, <3>4, <3>5, OwnEffect DEF Works
  <2>4. CASE keep = "returned" /\ keep' = "answered" /\ work' = InsertTail(work, Job("callback", Own))
    <3>1. ~Queued(work, Job("keep", Own)) /\ ~Queued(work, Job("callback", Own)) /\ Untouched(work)
      BY <1>1, <2>4
    <3>2. /\ work' \in Pool /\ work'.misused = work.misused
          /\ Jobs(work') \subseteq Jobs(work) \cup {Job("callback", Own)} /\ Untouched(work')
          /\ \A job \in Turns : Once(work', job) /\ (job # Job("callback", Own) => ~Queued(work', job))
      BY <1>2, <1>4, <2>4, <3>1
    <3>3. keep' \in KeepStates /\ ~Queued(work', Job("keep", Own))
      BY <1>2, <2>4, <3>2 DEF KeepStates
    <3>4. QED BY <1>1, <1>2, <1>3, <2>1, <2>2, <2>4, <3>2, <3>3, OwnEffect DEF Keeping
  <2>5. QED BY <1>6, <2>3, <2>4 DEF KeepRead
<1>7. CASE MonHangUp
  <2>1. /\ mon' = "closing" /\ UNCHANGED <<work, keep>>
        /\ mread' \in {mread, InsertTailHash(mread, Job("read", Own), Own)}
        /\ mwrite' \in {mwrite, InsertTailHash(mwrite, Job("write", Own), Own)}
    BY <1>7 DEF MonHangUp, Posted
  <2>2. mread' \in Pool /\ mwrite' \in Pool
    BY <1>1, <1>2, <2>1, InsertTailHashTypes
  <2>3. Untouched(mread) => Untouched(mread')
    BY <1>1, <1>2, <2>1, InsertTailHashKeeps
  <2>4. Untouched(mwrite) => Untouched(mwrite')
    BY <1>1, <1>2, <2>1, InsertTailHashKeeps
  <2>5. mon' \in LinkStates /\ mon' # "open"
    BY <2>1 DEF LinkStates
  <2>6. Works({})
    BY <2>1, WorkSteps
  <2> DEFINE more == {}
  <2>7. Works(more) /\ \A j \in more : j.conn = Own
    BY <2>6
  <2> HIDE DEF more
  <2>8. QED BY <1>1, <1>3, <2>1, <2>2, <2>3, <2>4, <2>5, <2>7, OwnEffect DEF Works
<1>8. QED BY <1>5, <1>6, <1>7

\* The process dies: nothing is left to main, and no job.
LEMMA DiesStep ==
  ASSUME IInv, NEW i, Dies(i)
  PROVE  IInv'
<1>1. /\ MainTypes /\ LinkTypes /\ PoolTypes /\ OwnSide /\ ClientSide
      /\ UNCHANGED <<service, keep, cli, request, cmd, sem, cread, cwrite>>
      /\ ending' = <<>> /\ context' = {} /\ stop_sem' = 0 /\ stoppers' = 0 /\ mon' = "gone"
      /\ keep = "waiting"
      /\ srv' = [c \in Commands |-> IF srv[c] = "none" THEN "none" ELSE "gone"]
  BY DEF IInv, Types, Dies, client
<1>2. Whole' = Whole /\ Len(Whole) \in {8, 13} /\ Whole \in Seq(Stage)
  BY <1>1, WholeIs DEF Whole
<1>3. Left' = 8 - Len(Whole)
  <2>1. Len(<<>>) = 0
    OBVIOUS
  <2>2. QED BY <1>1, <1>2, <2>1 DEF Left
<1>4. MainTypes'
  <2>1. /\ SubSeq(Whole, Len(Whole) + 1, Len(Whole)) \in Seq(Stage)
        /\ Len(SubSeq(Whole, Len(Whole) + 1, Len(Whole))) = Len(Whole) + 1 - (Len(Whole) + 1)
    <3>1. Len(Whole) + 1 \in 1..Len(Whole) + 1
      BY <1>2
    <3>2. QED BY <1>2, <3>1, EndOf
  <2>2. Len(Whole) + 1 - (Len(Whole) + 1) = 0 /\ 9 - (8 - Len(Whole)) = Len(Whole) + 1
    BY <1>2
  <2>3. Ends(Whole, 8 - Len(Whole)) = <<>>
    BY <2>1, <2>2, EmptySeq DEF Ends
  <2>4. 8 - Len(Whole) \in (8 - Len(Whole))..8
    BY <1>2
  <2>5. QED BY <1>1, <1>2, <1>3, <2>3, <2>4 DEF MainTypes
<1>5. /\ read' = Ended(read) /\ write' = Ended(write) /\ work' = Ended(work)
      /\ mread' = Ended(mread) /\ mwrite' = Ended(mwrite)
  BY DEF Dies
<1>6. /\ \A p \in {read', write', work', mread', mwrite'} : p \in Pool /\ Jobs(p) = {}
      /\ read'.misused = read.misused /\ write'.misused = write.misused /\ work'.misused = work.misused
      /\ \A job : ~Queued(work', job) /\ Once(work', job)
  BY <1>1, <1>5, EndedIs DEF PoolTypes, OwnSide
<1>7. LinkTypes' /\ PoolTypes' /\ ClientSide'
  <2>1. LinkTypes'
    BY <1>1 DEF LinkTypes, LinkStates
  <2>2. PoolTypes'
    BY <1>1, <1>6 DEF PoolTypes
  <2>3. QED BY <1>1, <2>1, <2>2, SameClient
<1>8. Left' < 2 /\ ~(Left' >= 2) /\ ~(Left' >= 4) /\ ~(Left' >= 6)
  <2>1. Left' = 0 \/ Left' = -5
    BY <1>2, <1>3
  <2>2. QED BY <2>1
<1>9. ServerSide'
  <2>1. \A c \in Commands : ~Serves(c)'
    BY <1>1 DEF Serves
  <2>2. Served(read)' /\ Served(write)' /\ Served(work)'
    BY <1>6 DEF Served, Jobs
  <2>3. ~read'.misused /\ ~write'.misused /\ ~work'.misused
    BY <1>6 DEF IInv, ServerSide
  <2>4. QED BY <1>8, <2>1, <2>2, <2>3 DEF ServerSide
<1>10. OwnSide'
  <2>1. /\ \A job \in Turns' : Once(work, job)'
        /\ ~Queued(work, Job("keep", Own))' /\ ~Queued(work, Job("callback", Own))'
    BY <1>6 DEF Once, Queued
  <2>2. QED BY <1>1, <1>6, <1>8, <2>1 DEF OwnSide, KeepStates, LinkStates
<1>11. QED BY <1>4, <1>7, <1>9, <1>10 DEF IInv, Types

-----------------------------------------------------------------------------
(* The theorems *)

\* A pool as initThreadPool makes it.
LEMMA NewPoolIs ==
  ASSUME NEW n \in Nat \ {0}
  PROVE  /\ NewPool(n) \in Pool /\ Jobs(NewPool(n)) = {} /\ Untouched(NewPool(n)) /\ ~NewPool(n).misused
         /\ \A job : ~Queued(NewPool(n), job) /\ Once(NewPool(n), job)
<1> DEFINE s == [i \in 1..n |-> NewSub]
<1>1. NewSub \in Sub /\ NewSub.jobs = <<>> /\ NewSub.running = NoJob /\ ~NewSub.freed
  BY DEF NewSub, Sub
<1>2. s \in Seq(Sub) /\ Len(s) = n /\ DOMAIN s = 1..n /\ \A i \in 1..n : s[i] = NewSub
  BY <1>1
<1>3. /\ NewPool(n).sub = s /\ NewPool(n).turn = 0 /\ ~NewPool(n).misused
      /\ NewPool(n) = [sub |-> s, turn |-> 0, misused |-> FALSE]
  BY DEF NewPool
<1> HIDE DEF s
<1>4. NewPool(n) \in Pool
  BY <1>2, <1>3 DEF Pool
<1>5. Untouched(NewPool(n))
  BY <1>1, <1>2, <1>3 DEF Untouched
<1>6. Jobs(NewPool(n)) = {}
  BY <1>1, <1>2, <1>3 DEF Jobs
<1>7. \A job : ~Queued(NewPool(n), job) /\ Once(NewPool(n), job)
  BY <1>1, <1>2, <1>3 DEF Queued, Once
<1>8. QED BY <1>3, <1>4, <1>5, <1>6, <1>7

LEMMA InitIInv == Init => IInv
<1> SUFFICES ASSUME Init PROVE IInv
  OBVIOUS
<1>1. ending = Whole /\ Whole \in Seq(Stage) /\ Len(Whole) \in {8, 13} /\ Left = 8
  <2>1. ending = Whole
    BY DEF Init, Whole
  <2>2. Whole \in Seq(Stage) /\ Len(Whole) \in {8, 13}
    BY WholeIs
  <2>3. QED BY <2>1, <2>2 DEF Left
<1>2. ending = Ends(Whole, 8)
  <2> DEFINE n == Len(Whole)
  <2>1. /\ SubSeq(Whole, 1, n) \in Seq(Stage) /\ Len(SubSeq(Whole, 1, n)) = n + 1 - 1
        /\ \A k \in 1..n + 1 - 1 : SubSeq(Whole, 1, n)[k] = Whole[1 + k - 1]
    <3>1. 1 \in 1..n + 1
      BY <1>1
    <3>2. QED BY <1>1, <3>1, EndOf
  <2>2. n + 1 - 1 = n /\ \A k \in 1..n : 1 + k - 1 = k
    BY <1>1
  <2>3. SubSeq(Whole, 1, n) = Whole
    BY <1>1, <2>1, <2>2, SeqEqual
  <2>4. QED BY <1>1, <2>3 DEF Ends
<1>3. MainTypes
  <2>1. 8 \in (8 - Len(Whole))..8
    BY <1>1
  <2>2. QED BY <1>1, <1>2, <2>1 DEF Init, MainTypes, Parts
<1>4. LinkTypes
  BY DEF Init, LinkTypes, LinkStates, RequestStates, CommandStates
<1>5. \A p \in {read, write, work, mread, mwrite} :
         p \in Pool /\ Jobs(p) = {} /\ Untouched(p) /\ ~p.misused /\ \A job : ~Queued(p, job) /\ Once(p, job)
  <2>1. /\ read = NewPool(IoThreads) /\ write = NewPool(1) /\ work = NewPool(WorkThreads)
        /\ mread = NewPool(1) /\ mwrite = NewPool(1)
    BY DEF Init
  <2>2. QED BY <2>1, NewPoolIs, ServiceAssumption
<1>6. \A c \in Commands : /\ cread[c] = NewPool(1) /\ cwrite[c] = NewPool(1)
                          /\ cmd[c] = "start" /\ cli[c] = "none" /\ srv[c] = "none"
  BY DEF Init
<1>7. NewPool(1) \in Pool /\ Untouched(NewPool(1)) /\ ~NewPool(1).misused
  BY NewPoolIs
<1>8. PoolTypes
  BY <1>5, <1>7 DEF Init, PoolTypes
<1>9. ServerSide
  <2>1. "map" \in context
    BY DEF Init, Parts
  <2>2. ~(Left < 6)
    BY <1>1
  <2>3. QED BY <1>5, <1>6, <2>1, <2>2 DEF ServerSide, Served, Serves
<1>10. ClientSide
  BY <1>6, <1>7 DEF ClientSide, Alone, Over
<1>11. OwnSide
  <2>1. keep = "waiting" /\ mon \in LinkStates /\ (service = "Mon" => "worker" \notin context)
    BY DEF Init, LinkStates
  <2>2. "map" \in context /\ Left >= 3 /\ Left >= 2
    BY <1>1 DEF Init, Parts
  <2>3. QED BY <1>5, <2>1, <2>2 DEF OwnSide, KeepStates
<1>12. QED BY <1>3, <1>4, <1>8, <1>9, <1>10, <1>11 DEF IInv, Types

LEMMA StepIInv == IInv /\ [Next]_vars => IInv'
<1> SUFFICES ASSUME IInv, [Next]_vars PROVE IInv'
  OBVIOUS
<1>1. CASE Next
  <2>1. CASE Main \/ StopPost
    BY <2>1, MainStep
  <2>2. CASE \E c \in Commands : \/ Command(c) \/ Threads(c) \/ Links(c)
                                 \/ Connect(c) \/ ServerHangUp(c) \/ ClientHangUp(c)
    <3>1. PICK c \in Commands : \/ Command(c) \/ Threads(c) \/ Links(c)
                                \/ Connect(c) \/ ServerHangUp(c) \/ ClientHangUp(c)
      BY <2>2
    <3>2. CASE Threads(c)
      <4>1. \/ ClientWrite(c) \/ ClientRead(c)
            \/ \E i : ServerRead(i, c) \/ ServerAction(i, c) \/ ServerTail(i, c) \/ ServerWrite(i, c)
        BY <3>2 DEF Threads
      <4>2. QED BY <4>1, ThreadStep, CommandPoolStep
    <3>3. CASE Links(c)
      <4>1. \/ Accept(c) \/ ServerHangUp(c) \/ ServerGone(c) \/ ServerEvent(c)
            \/ ClientHangUp(c) \/ ClientGone(c) \/ ClientEvent(c)
        BY <3>3 DEF Links, PeerGone
      <4>2. QED BY <4>1, LinkStep, CommandMainStep, CommandPoolStep DEF Command
    <3>4. QED BY <3>1, <3>2, <3>3, LinkStep, CommandMainStep, CommandPoolStep DEF Command
  <2>3. CASE OwnProgress \/ Tick \/ MonHangUp
    <3>1. \/ Tick \/ KeepRead \/ MonHangUp
          \/ \E i : \/ KeepAlive(i) \/ KeepAliveSent(i) \/ KeepAliveRefused(i) \/ KeepAliveTail(i)
                   \/ Callback(i) \/ KeepWrite \/ MonAnswers \/ MonGone
          \/ \E i : Dies(i)
      BY <2>3 DEF OwnProgress
    <3>2. QED BY <3>1, OwnStep, OwnQueueStep, DiesStep
  <2>4. QED BY <1>1, <2>1, <2>2, <2>3 DEF Next, Progress
<1>2. CASE UNCHANGED vars
  <2>1. /\ UNCHANGED <<service, ending, stop_sem, stoppers, context, pools, work, own, cread, cwrite>>
        /\ UNCHANGED <<srv, cli, request, cmd, sem>>
    BY <1>2 DEF vars, server, client, pools
  <2>2. MainTypes' /\ PoolTypes' /\ ServerSide' /\ OwnSide' /\ ClientSide'
    BY <2>1, SameMain, SamePools, SameServer, SameOwn, SameClient DEF IInv, Types
  <2>3. LinkTypes'
    BY <2>1 DEF IInv, Types, LinkTypes
  <2>4. QED BY <2>2, <2>3 DEF IInv, Types
<1>3. QED BY <1>1, <1>2

\* What main still has to destroy says which connections may be served, what may have ended
\* and whether a keep-alive may be under way; the same in each command, in every reachable
\* state (Service.c, ServerContextOs.c).
THEOREM ServiceInvariance == Spec => []IInv
<1>1. QED BY InitIInv, StepIInv, PTL DEF Spec

\* Nothing that main has destroyed is used, in the service and in the commands: no pool of
\* a connection ends before its onClose, none gets a job once its threads are joined (the
\* asserts on insertTailHash in SocketLinux.c), no action runs without the context's map; a
\* keep-alive of an object service finds its map and its pools until it has been called
\* back, and the client it uses, which main leaves connected, posts nothing to a pool that
\* has ended unless Mon hangs up (ServerContextOs.c, ClusterMapObjectService.c).
THEOREM NothingUsedDestroyed == Spec => []DestroyedUnused
<1>1. ASSUME IInv PROVE TypeOK
  <2>1. /\ Left \in (8 - Len(Whole))..8 /\ ending = SubSeq(Whole, 9 - Left, Len(Whole))
        /\ Whole \in {MonEnding, OsEnding}
        /\ stop_sem \in Nat /\ stoppers \in Nat /\ context \subseteq Parts
    BY <1>1 DEF IInv, Types, MainTypes, Ends, Whole
  <2>2. 9 - Left \in 1..(Len(Whole) + 1)
    BY <2>1, WholeIs
  <2>3. \E whole \in {MonEnding, OsEnding} :
           \E k \in 1..(Len(whole) + 1) : ending = SubSeq(whole, k, Len(whole))
    BY <2>1, <2>2
  <2>4. LinkTypes /\ OwnSide
    BY <1>1 DEF IInv, Types
  <2>5. QED BY <2>1, <2>3, <2>4 DEF TypeOK, LinkTypes, LinkStates, RequestStates, CommandStates, OwnSide,
                                    KeepStates
<1>2. ASSUME IInv PROVE DestroyedUnused
  <2>1. MainTypes /\ ServerSide /\ OwnSide /\ ClientSide /\ Left \in Int
    BY <1>2, WholeIs DEF IInv, Types, MainTypes
  <2>2. \A j \in Jobs(work) : j.kind = "action" => "map" \in context
    <3> SUFFICES ASSUME NEW j \in Jobs(work), j.kind = "action" PROVE "map" \in context
      OBVIOUS
    <3>1. j \in AllJobs
      BY <1>2, JobsServed
    <3>2. j.conn # Own
      BY <3>1, ServiceAssumption DEF AllJobs, ServerJobs, OwnJobs, Own
    <3>3. j.conn \in Commands /\ Serves(j.conn)
      BY <1>2, <3>2, JobsServed
    <3>4. Left >= 6
      BY <2>1, <3>3, Keeps
    <3>5. Left >= 4
      BY <2>1, <3>4
    <3>6. QED BY <2>1, <3>5 DEF ServerSide
  <2>3. ASSUME NEW c \in Commands, Serves(c)
        PROVE  Untouched(read) /\ Untouched(write) /\ Untouched(work)
    BY <2>1, <2>3, Keeps
  <2>4. ASSUME NEW c \in Commands
        PROVE  /\ cli[c] \in {"open", "closing"} => Untouched(cread[c]) /\ Untouched(cwrite[c])
               /\ ~cread[c].misused /\ ~cwrite[c].misused
    BY <2>1 DEF ClientSide, Alone
  <2>5. TypeOK /\ ~read.misused /\ ~write.misused /\ ~work.misused
    BY <1>1, <1>2, <2>1 DEF ServerSide
  <2>6. /\ keep # "waiting" => "map" \in context /\ Untouched(work) /\ Untouched(mread) /\ Untouched(mwrite)
        /\ mon = "open" => ~mread.misused /\ ~mwrite.misused
    BY <1>2, OwnIs
  <2>7. QED BY <2>2, <2>3, <2>4, <2>5, <2>6 DEF DestroyedUnused, Serves
<1>3. QED BY <1>2, ServiceInvariance, PTL
=============================================================================
