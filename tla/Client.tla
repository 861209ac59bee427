------------------------------- MODULE Client -------------------------------
(***************************************************************************)
(* The request client of corecode/client/Client.c on one connection.       *)
(*                                                                         *)
(* Senders run clientSendRequest in their own threads: they link the       *)
(* request into waiting_hash_slots and then write it.  The thread of the   *)
(* read pool decodes responses, unlinks the request each one answers and   *)
(* hands it to the worker pool, which calls the sender's callback; a       *)
(* response refers to the read buffer it lies in, and a buffer is freed    *)
(* with its last reference.  When the connection closes, onClose waits for *)
(* the buffers and the writes and answers with an error what is still      *)
(* linked.                                                                 *)
(*                                                                         *)
(* The connection is what Connection.tla promises: read and write refuse   *)
(* after it began to close, else call back exactly once.  The server       *)
(* answers each request it has received at most once, in any order.        *)
(***************************************************************************)
EXTENDS Integers, Sequences, FiniteSets

CONSTANTS Requests,
          MaxBuffers,  \* bound: read buffers that may ever be allocated
          CanClose,    \* whether the connection may close
          Quiet,       \* no sender counts a write between onClose's two loads of the writes
          CanStray     \* whether the server may send a response to no request

ASSUME ClientAssumption == /\ IsFiniteSet(Requests)
                           /\ "stray" \notin Requests
                           /\ MaxBuffers \in Nat \ {0}
                           /\ {CanClose, Quiet, CanStray} \subseteq BOOLEAN

Buffers == 1..MaxBuffers
Stray == "stray"    \* a response whose sequence number no request has

VARIABLES
    conn,       \* priv_p->conn is set
    context,    \* the CConnectionContext is not freed
    link,       \* the connection: open, closing (read and write refuse), released
    closer,     \* control point of the thread that closes
    loaded,     \* the first operand of the comparison onClose evaluates
    sender,     \* control point of clientSendRequest, then its return value
    slot,       \* the requests linked in waiting_hash_slots
    refs,       \* send_arg->ref; 0 when the send_arg is freed, less when used after that
    write,      \* the write of each request, seen by the connection
    started,    \* ccxt->write_counter
    finished,   \* ccxt->write_done_counter
    stream,     \* responses sent and not yet decoded
    seen,       \* the header of the stream's first response has been read
    reader,     \* control point of clientReadCallback
    chunk,      \* responses the callback still finds complete in the buffer
    partial,    \* ... followed by the beginning of another one
    found,      \* the request whose response is being decoded
    buffer,     \* the buffer of the pending read, or of the callback
    target,     \* the buffer clientRead has chosen for the next read
    bufRefs,    \* rbuf->reference; 0 when freed or not yet allocated
    created,    \* ccxt->read_counter
    released,   \* ccxt->read_done_counter
    job,        \* a decoded response: the buffer it lies in, -1 once it is freed
    handled,    \* the requests whose callback clientDoJob has made
    callbacks   \* history: the results the callback of each request was given

senders  == <<conn, sender, started>>
args     == <<slot, refs>>
writes   == <<write, finished>>
peer     == <<stream, seen>>
readers  == <<reader, chunk, partial, found, buffer, target>>
buffers  == <<bufRefs, created, released>>
workers  == <<job, handled, callbacks>>
closing  == <<context, link, closer, loaded>>
vars == <<senders, args, writes, peer, readers, buffers, workers, closing>>

None == 0

\* clientOnConnect has posted the first read.
Init == /\ conn = TRUE /\ context = TRUE /\ link = "open" /\ closer = "none" /\ loaded = 0
        /\ sender = [q \in Requests |-> "idle"]
        /\ slot = {}
        /\ refs = [q \in Requests |-> 0]
        /\ write = [q \in Requests |-> "none"]
        /\ started = 0 /\ finished = 0
        /\ stream = <<>> /\ seen = FALSE
        /\ reader = "posted" /\ chunk = 0 /\ partial = FALSE /\ found = Stray
        /\ buffer = 1 /\ target = 1
        /\ bufRefs = [b \in Buffers |-> IF b = 1 THEN 1 ELSE 0]
        /\ created = 1 /\ released = 0
        /\ job = [q \in Requests |-> None]
        /\ handled = {}
        /\ callbacks = [q \in Requests |-> <<>>]

CallBack(q, result) == callbacks' = [callbacks EXCEPT ![q] = Append(@, result)]

\* clientFreeReadBuffer: n references of b go; the last one counts it as done.
FreeReadBuffer(b, n) == /\ bufRefs' = [bufRefs EXCEPT ![b] = @ - n]
                        /\ released' = IF bufRefs[b] = n THEN released + 1 ELSE released

-----------------------------------------------------------------------------
(* clientSendRequest.  A connection that is released cannot be used: a sender *)
(* that still holds the pointer has no defined next step.                     *)

SendUnconnected(q) == /\ sender[q] = "idle" /\ ~conn
                      /\ sender' = [sender EXCEPT ![q] = "false"]
                      /\ UNCHANGED <<conn, started, args, writes, peer, readers, buffers, workers, closing>>

\* Mutant: the response has no reference.
SendBeginOneRef(q) == /\ sender[q] = "idle" /\ conn
                      /\ sender' = [sender EXCEPT ![q] = "begun"]
                      /\ refs' = [refs EXCEPT ![q] = 1]
                      /\ UNCHANGED <<conn, started, slot, writes, peer, readers, buffers, workers, closing>>

\* The encoder fails: nothing is linked, the send_arg is freed again.
SendUnencoded(q) == /\ sender[q] = "idle" /\ conn
                    /\ sender' = [sender EXCEPT ![q] = "false"]
                    /\ UNCHANGED <<conn, started, args, writes, peer, readers, buffers, workers, closing>>

\* Read priv_p->conn, build the send_arg, encode the request.
SendBegin(q) == /\ sender[q] = "idle" /\ conn
                /\ sender' = [sender EXCEPT ![q] = "begun"]
                /\ refs' = [refs EXCEPT ![q] = 2]
                /\ UNCHANGED <<conn, started, slot, writes, peer, readers, buffers, workers, closing>>

\* The request is linked; perhaps in a slot that onClose has already passed.
SendLink(q) == /\ sender[q] = "begun" /\ link # "released"
               /\ \/ slot' = slot \cup {q}
                  \/ closer = "drain" /\ slot' = slot
               /\ sender' = [sender EXCEPT ![q] = "linked"]
               /\ UNCHANGED <<conn, started, refs, writes, peer, readers, buffers, workers, closing>>

SendCount(q) == /\ sender[q] = "linked" /\ link # "released"
                /\ Quiet => closer # "writes?"
                /\ started' = started + 1
                /\ sender' = [sender EXCEPT ![q] = "counted"]
                /\ UNCHANGED <<conn, args, writes, peer, readers, buffers, workers, closing>>

SendWrite(q) == /\ sender[q] = "counted" /\ link = "open"
                /\ write' = [write EXCEPT ![q] = "queued"]
                /\ sender' = [sender EXCEPT ![q] = "true"]
                /\ UNCHANGED <<conn, started, args, finished, peer, readers, buffers, workers, closing>>

\* write refuses: count the write as done ...
SendRefused(q) == /\ sender[q] = "counted" /\ link = "closing"
                  /\ finished' = finished + 1
                  /\ sender' = [sender EXCEPT ![q] = "refused"]
                  /\ UNCHANGED <<conn, started, args, write, peer, readers, buffers, workers, closing>>

\* ... unlink and free the send_arg, and return false.  onClose may have answered the
\* request and freed the send_arg before: then it is unlinked and freed a second time.
SendUndo(q) == /\ sender[q] = "refused"
               /\ slot' = slot \ {q}
               /\ refs' = [refs EXCEPT ![q] = @ - 2]
               /\ sender' = [sender EXCEPT ![q] = "false"]
               /\ UNCHANGED <<conn, started, writes, peer, readers, buffers, workers, closing>>

Sender(q) == \/ SendLink(q) \/ SendCount(q) \/ SendWrite(q) \/ SendRefused(q) \/ SendUndo(q)

-----------------------------------------------------------------------------
(* The connection and the server *)

\* All bytes of the request are on the wire; the thread of the write pool may
\* be in the middle of it when the connection begins to close.
Transmit(q) == /\ write[q] = "queued" /\ link # "released"
               /\ write' = [write EXCEPT ![q] = "sent"]
               /\ UNCHANGED <<senders, args, finished, peer, readers, buffers, workers, closing>>

\* clientWriteCallback with rc true: drop the writer's reference ...
WriteOk(q) == /\ write[q] = "sent"
              /\ refs' = [refs EXCEPT ![q] = @ - 1]
              /\ write' = [write EXCEPT ![q] = "counting"]
              /\ UNCHANGED <<senders, slot, finished, peer, readers, buffers, workers, closing>>

\* Mutant: the request stays linked.
WriteFailedLinked(q) == /\ write[q] = "queued" /\ link = "closing"
                        /\ refs' = [refs EXCEPT ![q] = 0]
                        /\ CallBack(q, "write failed")
                        /\ write' = [write EXCEPT ![q] = "counting"]
                        /\ UNCHANGED <<senders, slot, finished, peer, readers, buffers, job, handled, closing>>

\* ... with rc false: unlink, report -3, free.  A write fails only on a
\* connection that is going down.
WriteFailed(q) == /\ write[q] = "queued" /\ link = "closing"
                  /\ slot' = slot \ {q}
                  /\ refs' = [refs EXCEPT ![q] = 0]
                  /\ CallBack(q, "write failed")
                  /\ write' = [write EXCEPT ![q] = "counting"]
                  /\ UNCHANGED <<senders, finished, peer, readers, buffers, job, handled, closing>>

WriteCounted(q) == /\ write[q] = "counting"
                   /\ finished' = finished + 1
                   /\ write' = [write EXCEPT ![q] = "done"]
                   /\ UNCHANGED <<senders, args, peer, readers, buffers, workers, closing>>

Writer(q) == Transmit(q) \/ WriteOk(q) \/ WriteFailed(q) \/ WriteCounted(q)

Sent == {q \in Requests : write[q] \in {"sent", "counting", "done"}
                          /\ "write failed" \notin {callbacks[q][i] : i \in DOMAIN callbacks[q]}}

\* The responses that were ever sent: those in the stream and those decoded.
Decoded == {q \in Requests : job[q] # None}
InStream == {stream[i] : i \in DOMAIN stream}

Answer(q) == /\ link = "open" /\ q \in Sent \ (Decoded \cup InStream) /\ q # found
             /\ stream' = Append(stream, q)
             /\ UNCHANGED <<senders, args, writes, seen, readers, buffers, workers, closing>>

AnswerNobody == /\ CanStray /\ link = "open" /\ Stray \notin InStream
                /\ stream' = Append(stream, Stray)
                /\ UNCHANGED <<senders, args, writes, seen, readers, buffers, workers, closing>>

-----------------------------------------------------------------------------
(* clientReadCallback and clientRead *)

\* A read completes: n whole responses, perhaps a piece of the next.
ReadOk == /\ reader = "posted" /\ link # "released"
          /\ \E n \in 0..Len(stream), p \in BOOLEAN :
                /\ p => n < Len(stream)
                /\ n > 0 \/ (p /\ ~seen)
                /\ chunk' = n /\ partial' = p
                /\ seen' = p
          /\ bufRefs' = [bufRefs EXCEPT ![buffer] = @ + 1]
          /\ reader' = "parse"
          /\ UNCHANGED <<senders, args, writes, stream, found, buffer, target, created, released,
                         workers, closing>>

\* A read fails: the connection is closing.
ReadFailed == /\ reader = "posted" /\ link = "closing"
              /\ FreeReadBuffer(buffer, 1)
              /\ reader' = "none"
              /\ UNCHANGED <<senders, args, writes, peer, chunk, partial, found, buffer, target,
                             created, workers, closing>>

\* A response is looked up by its sequence number and its request unlinked.
Lookup == /\ reader = "parse" /\ (chunk > 0 \/ partial)
          /\ Head(stream) \in slot
          /\ found' = Head(stream)
          /\ slot' = slot \ {Head(stream)}
          /\ reader' = "decode"
          /\ UNCHANGED <<senders, refs, writes, peer, chunk, partial, buffer, target, buffers,
                         workers, closing>>

\* No request has that number: give up both references and close.
Unknown == /\ reader = "parse" /\ (chunk > 0 \/ partial)
           /\ Head(stream) \notin slot
           /\ FreeReadBuffer(buffer, 2)
           /\ link' = IF link = "open" THEN "closing" ELSE link
           /\ closer' = IF link = "open" THEN "onClose" ELSE closer
           /\ reader' = "none"
           /\ UNCHANGED <<senders, args, writes, peer, chunk, partial, found, buffer, target,
                          created, workers, context, loaded>>

\* Mutant: no reference for the response.
DecodeNoRef == /\ reader = "decode" /\ chunk > 0
               /\ job' = [job EXCEPT ![found] = buffer]
               /\ stream' = Tail(stream) /\ chunk' = chunk - 1
               /\ found' = Stray /\ reader' = "parse"
               /\ UNCHANGED <<senders, args, writes, seen, partial, buffer, target, buffers,
                              handled, callbacks, closing>>

\* A whole response becomes a job that refers to the buffer.
Decode == /\ reader = "decode" /\ chunk > 0
          /\ bufRefs' = [bufRefs EXCEPT ![buffer] = @ + 1]
          /\ job' = [job EXCEPT ![found] = buffer]
          /\ stream' = Tail(stream)
          /\ chunk' = chunk - 1
          /\ found' = Stray
          /\ reader' = "parse"
          /\ UNCHANGED <<senders, args, writes, seen, partial, buffer, target, created, released,
                         handled, callbacks, closing>>

\* Mutant: the request is not linked again.
IncompleteLost == /\ reader = "decode" /\ chunk = 0
                  /\ found' = Stray /\ partial' = FALSE /\ reader' = "parse"
                  /\ UNCHANGED <<senders, args, writes, peer, chunk, buffer, target, buffers,
                                 workers, closing>>

\* A piece of one is not decoded: its request is linked again.
Incomplete == /\ reader = "decode" /\ chunk = 0
              /\ slot' = slot \cup {found}
              /\ found' = Stray
              /\ partial' = FALSE
              /\ reader' = "parse"
              /\ UNCHANGED <<senders, refs, writes, peer, chunk, buffer, target, buffers,
                             workers, closing>>

\* clientRead while the buffer has room: read on behind what is there.
ReadOn == /\ reader = "parse" /\ chunk = 0 /\ ~partial
          /\ target' = buffer
          /\ reader' = "read"
          /\ UNCHANGED <<senders, args, writes, peer, chunk, partial, found, buffer, buffers,
                         workers, closing>>

\* clientRead when the buffer is full: take a new one and let the old one go ...
ReadAnew == /\ reader = "parse" /\ chunk = 0 /\ ~partial
            /\ created + 1 \in Buffers
            /\ target' = created + 1
            /\ bufRefs' = [bufRefs EXCEPT ![created + 1] = 1, ![buffer] = @ - 1]
            /\ released' = IF bufRefs[buffer] = 1 THEN released + 1 ELSE released
            /\ reader' = "count"
            /\ UNCHANGED <<senders, args, writes, peer, chunk, partial, found, buffer, created,
                           workers, closing>>

\* ... and count the new one.
ReadCount == /\ reader = "count"
             /\ created' = created + 1
             /\ reader' = "read"
             /\ UNCHANGED <<senders, args, writes, peer, chunk, partial, found, buffer, target,
                            bufRefs, released, workers, closing>>

\* connRead accepts; the callback then drops its own reference.
ReadPosted == /\ reader = "read" /\ link = "open"
              /\ reader' = "posted"
              /\ buffer' = target
              /\ FreeReadBuffer(buffer, 1)
              /\ UNCHANGED <<senders, args, writes, peer, chunk, partial, found, target, created,
                             workers, closing>>

\* connRead refuses: the reference of the read that will not happen goes ...
ReadRefused == /\ reader = "read" /\ link = "closing"
               /\ FreeReadBuffer(target, 1)
               /\ reader' = "leave"
               /\ UNCHANGED <<senders, args, writes, peer, chunk, partial, found, buffer, target,
                              created, workers, closing>>

\* ... and that of the callback.
ReadLeave == /\ reader = "leave"
             /\ FreeReadBuffer(buffer, 1)
             /\ reader' = "none"
             /\ UNCHANGED <<senders, args, writes, peer, chunk, partial, found, buffer, target,
                            created, workers, closing>>

Reader == \/ ReadOk \/ ReadFailed \/ Lookup \/ Unknown \/ Decode \/ Incomplete \/ ReadOn
          \/ ReadAnew \/ ReadCount \/ ReadPosted \/ ReadRefused \/ ReadLeave

-----------------------------------------------------------------------------
(* clientDoJob: the sender's callback, ... *)

DoJob(q) == /\ job[q] \in Buffers /\ q \notin handled
            /\ CallBack(q, "response")
            /\ handled' = handled \cup {q}
            /\ UNCHANGED <<senders, args, writes, peer, readers, buffers, job, closing>>

\* ... then, or when the user calls clientFreeResp later, the response goes: its
\* buffer first, the send_arg last.
FreeResp(q) == /\ job[q] \in Buffers /\ q \in handled
               /\ FreeReadBuffer(job[q], 1)
               /\ refs' = [refs EXCEPT ![q] = @ - 1]
               /\ job' = [job EXCEPT ![q] = -1]
               /\ UNCHANGED <<senders, slot, writes, peer, readers, created, handled,
                              callbacks, closing>>

Worker(q) == DoJob(q) \/ FreeResp(q)

-----------------------------------------------------------------------------
(* The end of the connection *)

\* The peer, destroy, or an error: the connection closes and fails what it has.
Close == /\ CanClose /\ link = "open"
         /\ link' = "closing"
         /\ closer' = "onClose"
         /\ UNCHANGED <<senders, args, writes, peer, readers, buffers, workers, context, loaded>>

\* clientOnClose: senders find no connection any more.
OnCloseUnset == /\ closer = "onClose"
                /\ conn' = FALSE
                /\ closer' = "reads"
                /\ UNCHANGED <<sender, started, args, writes, peer, readers, buffers, workers,
                               context, link, loaded>>

\* The two operands of a comparison are two loads: what was begun first ...
OnCloseLoad == /\ \/ closer = "reads" /\ loaded' = created /\ closer' = "reads?"
                  \/ closer = "writes" /\ loaded' = started /\ closer' = "writes?"
               /\ UNCHANGED <<senders, args, writes, peer, readers, buffers, workers, context, link>>

\* ... then what is done; when they differ, sleep and look again.
OnCloseReads == /\ closer = "reads?"
                /\ closer' = IF loaded = released THEN "writes" ELSE "reads"
                /\ UNCHANGED <<senders, args, writes, peer, readers, buffers, workers, context,
                               link, loaded>>

\* Mutant: the writes are not waited for.
OnCloseWritesAtOnce == /\ closer = "writes?"
                       /\ context' = FALSE /\ closer' = "drain"
                       /\ UNCHANGED <<senders, args, writes, peer, readers, buffers, workers, link,
                                      loaded>>

OnCloseWrites == /\ closer = "writes?"
                 /\ context' = (loaded # finished)
                 /\ closer' = IF loaded = finished THEN "drain" ELSE "writes"
                 /\ UNCHANGED <<senders, args, writes, peer, readers, buffers, workers, link, loaded>>

\* One slot after the other: report -4 and free.
OnCloseDrain(q) == /\ closer = "drain" /\ q \in slot
                   /\ slot' = slot \ {q}
                   /\ refs' = [refs EXCEPT ![q] = 0]
                   /\ CallBack(q, "closed")
                   /\ UNCHANGED <<senders, writes, peer, readers, buffers, job, handled, closing>>

\* onClose returns and the connection is released.
OnCloseReturn == /\ closer = "drain" /\ slot = {}
                 /\ closer' = "end"
                 /\ link' = "released"
                 /\ UNCHANGED <<senders, args, writes, peer, readers, buffers, workers, context, loaded>>

Closer == \/ OnCloseUnset \/ OnCloseLoad \/ OnCloseReads \/ OnCloseWrites \/ OnCloseReturn
          \/ \E q \in Requests : OnCloseDrain(q)

Next == \/ \E q \in Requests : \/ SendUnconnected(q) \/ SendUnencoded(q) \/ SendBegin(q)
                               \/ Sender(q) \/ Writer(q) \/ Answer(q) \/ Worker(q)
        \/ AnswerNobody \/ Reader \/ Close \/ Closer

Spec == Init /\ [][Next]_vars

\* Threads run, callbacks return, responses are released, and the server
\* answers what it has received.
Fairness == /\ \A q \in Requests : /\ WF_vars(Sender(q)) /\ WF_vars(Writer(q))
                                   /\ WF_vars(Answer(q)) /\ WF_vars(Worker(q))
            /\ WF_vars(Reader) /\ WF_vars(Closer)

FairSpec == Spec /\ Fairness
-----------------------------------------------------------------------------
(* Properties *)

If(b) == IF b THEN 1 ELSE 0

TypeOK == /\ conn \in BOOLEAN /\ context \in BOOLEAN
          /\ link \in {"open", "closing", "released"}
          /\ closer \in {"none", "onClose", "reads", "reads?", "writes", "writes?", "drain", "end"}
          /\ sender \in [Requests -> {"idle", "begun", "linked", "counted", "refused",
                                      "true", "false"}]
          /\ slot \subseteq Requests
          /\ refs \in [Requests -> Int]
          /\ write \in [Requests -> {"none", "queued", "sent", "counting", "done"}]
          /\ {started, finished, created, released, chunk, loaded} \subseteq Nat
          /\ stream \in Seq(Requests \cup {Stray})
          /\ seen \in BOOLEAN /\ partial \in BOOLEAN
          /\ reader \in {"posted", "parse", "decode", "count", "read", "leave", "none"}
          /\ found \in Requests \cup {Stray}
          /\ buffer \in Buffers /\ target \in Buffers
          /\ bufRefs \in [Buffers -> Nat]
          /\ job \in [Requests -> Buffers \cup {None, -1}]
          /\ handled \subseteq Requests
          /\ callbacks \in [Requests -> Seq({"response", "write failed", "closed"})]

\* References held by the read that is posted or about to be, and by the
\* callback that is running.
ReadHolds(b) ==
    CASE reader = "posted"                   -> If(b = buffer)
      [] reader \in {"parse", "decode"}      -> 2 * If(b = buffer)
      [] reader \in {"count", "read"}        -> If(b = buffer) + If(b = target)
      [] reader = "leave"                    -> If(b = buffer)
      [] reader = "none"                     -> 0

Live == {b \in Buffers : bufRefs[b] > 0}

\* A read buffer's reference count is the number of its users: the pending read,
\* the running callback and each response that lies in it and is not freed.  So
\* no buffer is freed under a user (clientFreeReadBuffer) nor leaked, and
\* the counters onClose waits on differ by the buffers that are alive.
BufferRefsExact ==
    /\ TypeOK
    /\ \A b \in Buffers :
          bufRefs[b] = ReadHolds(b) + Cardinality({q \in Requests : job[q] = b})
    /\ created - released = Cardinality(Live) - If(reader = "count")

\* The send_arg of an accepted request is referred to by its write until
\* clientWriteCallback and by its response until that is freed, in whichever order
\* they come: it is freed by the last of them and neither finds it freed.
ArgRefsExact ==
    \A q \in Requests :
       sender[q] = "true" =>
          refs[q] = IF callbacks[q] # <<>> /\ q \notin handled THEN 0
                    ELSE If(write[q] \in {"queued", "sent"}) + If(job[q] # -1)

\* onClose frees the connection's context, and begins to answer what is still linked, only
\* after every write callback has counted itself; every accepted request is then in one
\* place: linked for onClose to answer, decoded, or called back because its write failed.
Failed(q) == \E i \in DOMAIN callbacks[q] : callbacks[q][i] # "response"
FreedAfterWrites ==
    ~context => \A q \in Requests :
                   /\ write[q] \in {"none", "done"}
                   /\ sender[q] = "true" =>
                         If(q \in slot) + If(job[q] # None) + If(Failed(q)) = 1

\* Nor is a read, a callback or a response left that uses it: with one read buffer.  Not
\* so with two, as onClose loads a counter between the two accesses of a moving read.
ContextFreedLast ==
    /\ FreedAfterWrites
    /\ ~context => /\ reader = "none" /\ Live = {}
                  /\ \A q \in Requests : job[q] \notin Buffers

\* clientSendRequest and clientOnClose race for a request: it is linked before its write is
\* tried.  Still an accepted request is called back at most once, by its response, its
\* failed write or the close; and one for which clientSendRequest returns false is never
\* called back, except by onClose when it comes between the link and the unlinking of a
\* refused write.  Then both outcomes happen, which test/UtClient3.c:66-77 counts twice.
\* Once false has been returned, nothing is left that would call back.
Answers(q) == {callbacks[q][i] : i \in DOMAIN callbacks[q]}
OutcomeOnce == \A q \in Requests :
                  /\ Len(callbacks[q]) <= 1
                  /\ sender[q] \in {"refused", "false"} => Answers(q) \subseteq {"closed"}
                  /\ sender[q] = "false" => q \notin slot /\ job[q] = None

\* The callback of every accepted request runs in the end.
EventuallyAnswered == \A q \in Requests : (sender[q] = "true") ~> (callbacks[q] # <<>>)

=============================================================================
