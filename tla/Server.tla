------------------------------- MODULE Server -------------------------------
(***************************************************************************)
(* The request server of corecode/server/Server.c on one connection.       *)
(*                                                                         *)
(* The thread of the read pool decodes requests and hands them to the      *)
(* worker pool; each refers to the read buffer it lies in until its        *)
(* response has been handed to the connection.  With                       *)
(* max_read_buffer_counter buffers alive the next read is parked in        *)
(* to_read_buf; the thread that brings their number down to half of that   *)
(* posts it.  onClose frees a parked buffer and waits for the others and   *)
(* for the writes.                                                         *)
(*                                                                         *)
(* to_read_buf_lock is held for straight pieces of code only, none of      *)
(* which waits, so each critical section is one step.  The connection is   *)
(* what Connection.tla promises: read and write refuse after it began to   *)
(* close, else call back exactly once; read callbacks run one at a time.   *)
(***************************************************************************)
EXTENDS Integers, Sequences, FiniteSets

CONSTANTS Requests,     \* numbered in the order in which the peer has sent them
          MaxCounter,   \* param.max_read_buffer_counter
          MaxBuffers,   \* bound: read buffers that may ever be allocated
          CanClose,     \* whether the connection may close
          Settled,      \* no read callback runs from the close on
          CanReject     \* whether requests may be malformed, or the pool refuse them

ASSUME ServerAssumption == /\ IsFiniteSet(Requests) /\ Requests \subseteq Nat
                           /\ {MaxCounter, MaxBuffers} \subseteq Nat \ {0}
                           /\ {CanClose, Settled, CanReject} \subseteq BOOLEAN

Buffers == 1..MaxBuffers
Half == MaxCounter \div 2
NoBuffer == 0

VARIABLES
    context,     \* the SConnectionContext is not freed
    link,        \* the connection: open, closing (read and write refuse), released
    closer,      \* control point of serverOnClose
    loaded,      \* the first operand of the comparison onClose evaluates
    request,     \* where each request is
    lies,        \* the buffer each decoded request lies in
    piece,       \* the beginning of an incomplete request has been read
    posted,      \* the buffer of the pending read, or NoBuffer
    reader,      \* control point of serverReadCallback
    buffer,      \* the buffer it was called with
    target,      \* the buffer serverRead has chosen for the next read
    owed,        \* the references its thread gives up before it returns
    bad,         \* it closes the connection then
    bufRefs,     \* rbuf->reference; 0 when freed, less when released after that
    allocated,   \* the number of buffers ever allocated
    counter,     \* ccxt->read_counter
    parked,      \* ccxt->to_read_buf
    started,     \* ccxt->write_counter
    finished,    \* ccxt->write_done_counter
    queued,      \* the writes of responses that the connection has accepted
    finishing    \* the write callbacks that have counted only once

closing  == <<context, closer, loaded>>
requests == <<request, lies, piece>>
callback == <<reader, buffer, target, owed, bad>>
counts   == <<bufRefs, counter>>
writes   == <<started, finished, queued, finishing>>
vars == <<link, closing, requests, posted, callback, counts, allocated, parked, writes>>

\* serverOnConnect has posted the first read.  The peer has sent Requests, and perhaps the
\* beginning of one more; how much of it a read finds is open.
Init == /\ context = TRUE /\ link = "open" /\ closer = "none" /\ loaded = 0
        /\ request = [q \in Requests |-> "sent"]
        /\ lies = [q \in Requests |-> NoBuffer]
        /\ piece = FALSE
        /\ posted = 1
        /\ reader = "idle" /\ buffer = 1 /\ target = 1 /\ owed = <<>> /\ bad = FALSE
        /\ bufRefs = [b \in Buffers |-> IF b = 1 THEN 1 ELSE 0]
        /\ allocated = 1 /\ counter = 1 /\ parked = NoBuffer
        /\ started = 0 /\ finished = 0 /\ queued = 0 /\ finishing = 0

In(where) == {q \in Requests : request[q] = where}

\* serverFreeReadBuffer: one reference of b goes, with the last one the buffer.
FreeReadBuffer(b) == /\ bufRefs' = [bufRefs EXCEPT ![b] = @ - 1]
                     /\ counter' = IF bufRefs[b] = 1 THEN counter - 1 ELSE counter

\* Mutant: reading resumes when no buffer is left.
ReachesZero(b) == bufRefs[b] = 1 /\ counter - 1 = 0

\* ... and then serverReadDone takes to_read_buf_lock.
ReachesHalf(b) == bufRefs[b] = 1 /\ counter - 1 = Half

\* to_read_buf_lock is not held for ever.
Unlocked == In("stuck") = {} /\ reader # "stuck"

\* A parked read that the connection refuses is freed under the lock; when that reaches
\* the half again, serverReadDone takes the lock once more and the thread waits for itself.
Relocks == parked # NoBuffer /\ link # "open" /\ ReachesHalf(parked)

\* serverReadDone under the lock: post the parked read, if there is one; when the
\* connection refuses it, free its buffer.
Resume == /\ Unlocked
          /\ parked' = NoBuffer
          /\ posted' = IF parked # NoBuffer /\ link = "open" THEN parked ELSE posted
          /\ IF parked # NoBuffer /\ link # "open"
             THEN FreeReadBuffer(parked) ELSE UNCHANGED counts

-----------------------------------------------------------------------------
(* serverReadCallback and serverRead *)

\* A read completes with the whole requests S, perhaps a piece of the next one.
ReadOk == /\ posted # NoBuffer /\ reader = "idle" /\ link # "released"
          /\ Settled => link = "open"
          /\ \E S \in SUBSET In("sent"), p \in BOOLEAN :
                /\ \A q \in S, r \in In("sent") : r < q => r \in S
                /\ S # {} \/ (p /\ ~piece)
                /\ request' = [q \in Requests |-> IF q \in S THEN "read" ELSE request[q]]
                /\ piece' = p
          /\ bufRefs' = [bufRefs EXCEPT ![posted] = @ + 1]
          /\ reader' = "parse" /\ buffer' = posted /\ posted' = NoBuffer
          /\ UNCHANGED <<link, closing, lies, target, owed, bad, counter, allocated, parked, writes>>

\* A read fails: the connection is closing.
ReadFailed == /\ posted # NoBuffer /\ reader = "idle" /\ link = "closing"
              /\ owed' = <<posted>>
              /\ reader' = "free" /\ posted' = NoBuffer
              /\ UNCHANGED <<link, closing, requests, buffer, target, bad, counts, allocated, parked, writes>>

\* Mutant: no reference for the request.
DecodeNoRef(q) == /\ reader = "parse" /\ request[q] = "read" /\ \A r \in In("read") : q <= r
                  /\ request' = [request EXCEPT ![q] = "job"]
                  /\ lies' = [lies EXCEPT ![q] = buffer]
                  /\ UNCHANGED <<link, closing, piece, posted, callback, counts, allocated, parked, writes>>

\* A whole request becomes a job that refers to the buffer.
Decode(q) == /\ reader = "parse" /\ request[q] = "read" /\ \A r \in In("read") : q <= r
             /\ bufRefs' = [bufRefs EXCEPT ![buffer] = @ + 1]
             /\ request' = [request EXCEPT ![q] = "job"]
             /\ lies' = [lies EXCEPT ![q] = buffer]
             /\ UNCHANGED <<link, closing, piece, posted, callback, counter, allocated, parked, writes>>

\* A malformed request, or one the worker pool does not take: both references
\* go, then the connection is closed.
Reject(q) == /\ CanReject /\ reader = "parse" /\ request[q] = "read" /\ \A r \in In("read") : q <= r
             /\ request' = [request EXCEPT ![q] = "rejected"]
             /\ owed' = <<buffer, buffer>>
             /\ bad' = TRUE
             /\ reader' = "free"
             /\ UNCHANGED <<link, closing, lies, piece, posted, buffer, target, counts, allocated,
                            parked, writes>>

\* serverRead while the buffer has room: read on behind what is there.
ReadOn == /\ reader = "parse" /\ In("read") = {}
          /\ target' = buffer
          /\ reader' = "read"
          /\ UNCHANGED <<link, closing, requests, posted, buffer, owed, bad, counts, allocated,
                         parked, writes>>

\* serverRead when the buffer is full: take a new one and let the old one go ...
ReadAnew == /\ reader = "parse" /\ In("read") = {}
            /\ allocated + 1 \in Buffers
            /\ allocated' = allocated + 1
            /\ target' = allocated + 1
            /\ bufRefs' = [bufRefs EXCEPT ![allocated + 1] = 1, ![buffer] = @ - 1]
            /\ reader' = "count"
            /\ UNCHANGED <<link, closing, requests, posted, buffer, owed, bad, counter, parked, writes>>

\* Mutant: one buffer more than the limit.
ReadCountLate == /\ reader = "count"
                 /\ counter' = counter + 1
                 /\ reader' = IF counter = MaxCounter THEN "park" ELSE "read"
                 /\ UNCHANGED <<link, closing, requests, posted, buffer, target, owed, bad, bufRefs,
                                allocated, parked, writes>>

\* ... count the new one, and find out whether it is one too many.
ReadCount == /\ reader = "count"
             /\ counter' = counter + 1
             /\ reader' = IF counter + 1 = MaxCounter THEN "park" ELSE "read"
             /\ UNCHANGED <<link, closing, requests, posted, buffer, target, owed, bad, bufRefs,
                            allocated, parked, writes>>

Park == /\ reader = "park" /\ Unlocked
        /\ parked' = target
        /\ owed' = <<buffer>>
        /\ reader' = "free"
        /\ UNCHANGED <<link, closing, requests, posted, buffer, target, bad, counts, allocated, writes>>

\* connRead accepts, or refuses and serverRead frees its buffer twice.
ReadNext == /\ reader = "read" /\ link # "released"
            /\ posted' = IF link = "open" THEN target ELSE posted
            /\ owed' = IF link = "open" THEN <<buffer>> ELSE <<target, target, buffer>>
            /\ reader' = "free"
            /\ UNCHANGED <<link, closing, requests, buffer, target, bad, counts, allocated, parked, writes>>

ReaderFree == /\ reader = "free" /\ owed # <<>>
              /\ FreeReadBuffer(Head(owed))
              /\ owed' = Tail(owed)
              /\ reader' = IF ReachesHalf(Head(owed)) THEN "resume" ELSE "free"
              /\ UNCHANGED <<link, closing, requests, posted, buffer, target, bad, allocated, parked, writes>>

ReaderResume == /\ reader = "resume"
                /\ Resume
                /\ reader' = IF Relocks THEN "stuck" ELSE "free"
                /\ UNCHANGED <<link, closing, requests, buffer, target, owed, bad, allocated, writes>>

\* (What the callback's locals were is forgotten.)
ReaderReturn == /\ reader = "free" /\ owed = <<>>
                /\ link' = IF bad /\ link = "open" THEN "closing" ELSE link
                /\ closer' = IF bad /\ link = "open" THEN "lock" ELSE closer
                /\ bad' = FALSE
                /\ reader' = "idle" /\ buffer' = 1 /\ target' = 1
                /\ UNCHANGED <<context, loaded, requests, posted, owed, counts, allocated, parked,
                               writes>>

Reader == \/ ReadOk \/ ReadFailed \/ ReadOn \/ ReadAnew \/ ReadCount \/ Park \/ ReadNext
          \/ ReaderFree \/ ReaderResume \/ ReaderReturn
          \/ \E q \in Requests : Decode(q) \/ Reject(q)

-----------------------------------------------------------------------------
(* serverDoActionCallback, which an action calls when it has its response *)

ActionCount(q) == /\ request[q] = "job"
                  /\ started' = started + 1
                  /\ request' = [request EXCEPT ![q] = "counted"]
                  /\ UNCHANGED <<link, closing, lies, piece, posted, callback, counts, allocated,
                                 parked, finished, queued, finishing>>

ActionWrite(q) == /\ request[q] = "counted" /\ link = "open"
                  /\ queued' = queued + 1
                  /\ request' = [request EXCEPT ![q] = "written"]
                  /\ UNCHANGED <<link, closing, lies, piece, posted, callback, counts, allocated,
                                 parked, started, finished, finishing>>

ActionRefused(q) == /\ request[q] = "counted" /\ link = "closing"
                    /\ finished' = finished + 1
                    /\ request' = [request EXCEPT ![q] = "written"]
                    /\ UNCHANGED <<link, closing, lies, piece, posted, callback, counts, allocated,
                                   parked, started, queued, finishing>>

ActionFree(q) == /\ request[q] = "written"
                 /\ FreeReadBuffer(lies[q])
                 /\ request' = [request EXCEPT ![q] = IF ReachesHalf(lies[q]) THEN "resume" ELSE "done"]
                 /\ lies' = [lies EXCEPT ![q] = NoBuffer]
                 /\ UNCHANGED <<link, closing, piece, posted, callback, allocated, parked, writes>>

ActionResume(q) == /\ request[q] = "resume"
                   /\ Resume
                   /\ request' = [request EXCEPT ![q] = IF Relocks THEN "stuck" ELSE "done"]
                   /\ UNCHANGED <<link, closing, lies, piece, callback, allocated, writes>>

Action(q) == \/ ActionCount(q) \/ ActionWrite(q) \/ ActionRefused(q) \/ ActionFree(q)
             \/ ActionResume(q)

\* serverWriteCallback, whatever became of the write: write_done_counter ...
WriteDone == /\ queued > 0 /\ link # "released"
             /\ finished' = finished + 1
             /\ queued' = queued - 1
             /\ finishing' = finishing + 1
             /\ UNCHANGED <<link, closing, requests, posted, callback, counts, allocated, parked, started>>

\* ... then sent_request_counter.
WriteSent == /\ finishing > 0
             /\ finishing' = finishing - 1
             /\ UNCHANGED <<link, closing, requests, posted, callback, counts, allocated, parked,
                            started, finished, queued>>

-----------------------------------------------------------------------------
(* The end of the connection *)

\* The peer, destroy, or an error: the connection closes and fails what it has.
Close == /\ CanClose /\ link = "open"
         /\ Settled => reader = "idle"
         /\ link' = "closing"
         /\ closer' = "lock"
         /\ UNCHANGED <<context, loaded, requests, posted, callback, counts, allocated, parked, writes>>

\* Mutant: the parked buffer is freed but not counted.
OnCloseLockUncounted ==
    /\ closer = "lock" /\ Unlocked
    /\ bufRefs' = IF parked = NoBuffer THEN bufRefs ELSE [bufRefs EXCEPT ![parked] = 0]
    /\ parked' = NoBuffer
    /\ closer' = "reads"
    /\ UNCHANGED <<link, context, loaded, requests, posted, callback, counter, allocated, writes>>

\* serverOnClose: a parked buffer is freed, and the lock destroyed.
OnCloseLock == /\ closer = "lock" /\ Unlocked
               /\ bufRefs' = IF parked = NoBuffer THEN bufRefs ELSE [bufRefs EXCEPT ![parked] = 0]
               /\ counter' = IF parked = NoBuffer THEN counter ELSE counter - 1
               /\ parked' = NoBuffer
               /\ closer' = "reads"
               /\ UNCHANGED <<link, context, loaded, requests, posted, callback, allocated, writes>>

\* Mutant: serverOnClose does not wait for the buffers.
OnCloseReadsAtOnce == /\ closer = "reads" /\ closer' = "writes"
                      /\ UNCHANGED <<link, context, loaded, requests, posted, callback, counts,
                                     allocated, parked, writes>>

OnCloseReads == /\ closer = "reads" /\ counter = 0
                /\ closer' = "writes"
                /\ UNCHANGED <<link, context, loaded, requests, posted, callback, counts, allocated,
                               parked, writes>>

\* The two operands of the comparison are two loads.
OnCloseLoad == /\ closer = "writes"
               /\ loaded' = started
               /\ closer' = "writes?"
               /\ UNCHANGED <<link, context, requests, posted, callback, counts, allocated, parked, writes>>

OnCloseWrites == /\ closer = "writes?"
                 /\ context' = (loaded # finished)
                 /\ closer' = IF loaded = finished THEN "free" ELSE "writes"
                 /\ UNCHANGED <<link, loaded, requests, posted, callback, counts, allocated, parked, writes>>

OnCloseReturn == /\ closer = "free"
                 /\ closer' = "end"
                 /\ link' = "released"
                 /\ UNCHANGED <<context, loaded, requests, posted, callback, counts, allocated,
                                parked, writes>>

Closer == OnCloseLock \/ OnCloseReads \/ OnCloseLoad \/ OnCloseWrites \/ OnCloseReturn

Next == \/ \E q \in Requests : Action(q)
        \/ WriteDone \/ WriteSent \/ Reader \/ Close \/ Closer

Spec == Init /\ [][Next]_vars

\* Threads run, and every action calls action_callback in the end.
Fairness == /\ \A q \in Requests : WF_vars(Action(q))
            /\ WF_vars(WriteDone) /\ WF_vars(WriteSent) /\ WF_vars(Reader) /\ WF_vars(Closer)

FairSpec == Spec /\ Fairness

-----------------------------------------------------------------------------
(* Properties *)

If(b) == IF b THEN 1 ELSE 0

TypeOK == /\ context \in BOOLEAN
          /\ link \in {"open", "closing", "released"}
          /\ closer \in {"none", "lock", "reads", "writes", "writes?", "free", "end"}
          /\ request \in [Requests -> {"sent", "read", "rejected", "job", "counted",
                                       "written", "resume", "stuck", "done"}]
          /\ lies \in [Requests -> Buffers \cup {NoBuffer}]
          /\ {posted, parked} \subseteq Buffers \cup {NoBuffer}
          /\ reader \in {"idle", "parse", "count", "park", "read", "free", "resume", "stuck"}
          /\ {buffer, target} \subseteq Buffers
          /\ owed \in Seq(Buffers)
          /\ {piece, bad} \subseteq BOOLEAN
          /\ bufRefs \in [Buffers -> Int]
          /\ allocated \in Buffers
          /\ {loaded, started, finished, queued, finishing} \subseteq Nat /\ counter \in Int

Live == {b \in Buffers : bufRefs[b] > 0}

Owed(b) == Cardinality({i \in DOMAIN owed : owed[i] = b})

\* References held by the callback that is running.
ReaderHolds(b) ==
    CASE reader = "parse"                    -> 2 * If(b = buffer)
      [] reader \in {"count", "park", "read"} -> If(b = buffer) + If(b = target)
      [] reader \in {"free", "resume", "stuck"} -> Owed(b)
      [] reader = "idle"                     -> 0

\* A read buffer's reference count is the number of its users: the pending or
\* parked read, the running callback and each request that lies in it and has
\* not handed its response over.  So serverFreeReadBuffer frees none under a user, leaks
\* none, and read_counter is the number of buffers that are alive.
BufferRefsExact ==
    /\ TypeOK
    /\ \A b \in Buffers :
          bufRefs[b] = If(b = posted) + If(b = parked) + ReaderHolds(b)
                       + Cardinality({q \in In("job") \cup In("counted") \cup In("written") :
                                         lies[q] = b})
    /\ counter = Cardinality(Live) - If(reader = "count")

\* serverRead asserts that nothing is parked when it parks (154), and a parked read
\* is not also pending: a connection has one read at a time.
OneRead == /\ reader = "park" => parked = NoBuffer
           /\ Cardinality({b \in {posted, parked} : b # NoBuffer})
                 + If(reader \in {"parse", "count", "park", "read"}) <= 1

\* Somebody has brought the number of buffers down to the half and has not taken the lock.
Resuming == In("resume") # {} \/ reader = "resume"

\* The thread that has brought the number of buffers down to the half takes the lock before
\* more are counted in (66-68).
ResumesInTime == parked # NoBuffer /\ link = "open" /\ Resuming => counter <= Half

\* A connection holds no more than max_read_buffer_counter read buffers, however many
\* requests lie in them; and while nothing is parked and no buffer has just been taken,
\* there is room for one more.
RoomForOne ==
    /\ Cardinality(Live) <= MaxCounter
    /\ link = "open" /\ parked = NoBuffer /\ reader \notin {"count", "park"}
          => Cardinality(Live) < MaxCounter

\* A connection reads only while it has room, and never twice at a time, as long as the
\* parked read is posted in time.  That is needed from a limit of three on: a thread that
\* has brought the number down to the half may come to post the parked read (68-73) when
\* the limit has been reached meanwhile, and the buffers beyond it are not parked (152).
BackPressure == []OneRead /\ ([]ResumesInTime => []RoomForOne)

\* serverOnClose frees the context only when the read is over, every buffer is freed,
\* every action has handed its response over, and every write is counted as done.
\* It waits for counters: not for a thread between the decrement of read_counter
\* and to_read_buf_lock (ResumeBeforeFree), nor for one between the two increments
\* of serverWriteCallback (SentBeforeFree), who go on to use the context.
OnCloseWaits ==
    ~context => /\ posted = NoBuffer /\ parked = NoBuffer /\ Live = {}
                /\ reader \in {"idle", "free", "resume"} /\ owed = <<>>
                /\ In("job") \cup In("counted") \cup In("written") = {}
                /\ queued = 0

\* A write callback has made both its increments of the context before it is
\* freed.  This does not hold: serverOnClose compares after the first (88-89).
SentBeforeFree == ~context => finishing = 0

\* A thread that is about to take to_read_buf_lock in serverReadDone finds it there:
\* not destroyed by serverOnClose, and not freed with the context.  This does not
\* hold: the buffers are counted out before the lock is taken (66-68).
ResumeBeforeFree == closer \notin {"none", "lock"} => In("resume") = {} /\ reader # "resume"

\* Between the increment that reaches the limit (151) and the parking (153-156) the
\* buffers are not released down to the half.
ParksInTime == reader = "park" => counter > Half

\* A parked read has somebody who will post it: a thread that is about to, or the
\* buffers whose release will bring read_counter down to the half.  Without ParksInTime,
\* which a limit of four or more does not give, the half may be passed while nothing is
\* parked yet, and the read is left for ever.
ParkedResumes == parked # NoBuffer /\ link = "open" => counter > Half \/ Resuming

\* What the peer has sent is read in the end, unless the connection closes, as long as reads
\* are parked in time.
EventuallyRead ==
    []ParksInTime => ((In("sent") # {}) ~> (In("sent") = {} \/ link # "open"))

\* A connection that begins to close gets through serverOnClose, unless a thread waits for
\* itself: from a limit of three on one that frees the parked read may take its lock again.
CloseCompletes == (link = "closing") ~> (closer = "end" \/ ~Unlocked)
=============================================================================
