---------------------------- MODULE ClientProofs ----------------------------
(***************************************************************************)
(* Proofs about the client, for any number of requests and buffers.  First *)
(* its read buffers: the references of every read buffer are exact, and so *)
(* are the counters onClose waits on.  Then its requests: each accepted    *)
(* one is called back at most once, its send_arg is freed with its last    *)
(* reference, and onClose frees the connection's context after the last    *)
(* write callback.  A sender may overtake the close at every step but one: *)
(* Quiet, no write is counted between the two loads of a comparison.       *)
(***************************************************************************)
EXTENDS Client, FiniteSetTheorems, SequenceTheorems, TLAPS

\* A request is unlinked before its response becomes a job, and linked only before.
Links ==
    /\ \A q \in Requests : sender[q] \in {"idle", "begun"} => q \notin slot /\ job[q] = None
    /\ \A q \in slot : job[q] = None
    /\ reader = "decode" => /\ found \in Requests /\ sender[found] \notin {"idle", "begun"}
                            /\ job[found] = None /\ found \notin slot

\* What the callback finds is in the stream.
Chunked == chunk <= Len(stream) /\ (partial => chunk < Len(stream))

\* A buffer that is not yet counted is new.
Fresh ==
    /\ reader = "count" => target = created + 1 /\ target # buffer
    /\ \A b \in Buffers : b > created + If(reader = "count") => bufRefs[b] = 0

\* The parts of BufferRefsExact.
Lying(b) == {q \in Requests : job[q] = b}
Users(b) == ReadHolds(b) + Cardinality(Lying(b))
RefsExact == \A b \in Buffers : bufRefs[b] = Users(b)
CounterExact == created - released = Cardinality(Live) - If(reader = "count")

BufferIInv == BufferRefsExact /\ Links /\ Chunked /\ Fresh

LEMMA Exactness ==
  /\ BufferRefsExact <=> TypeOK /\ RefsExact /\ CounterExact
  /\ BufferRefsExact' <=> TypeOK' /\ RefsExact' /\ CounterExact'
  BY DEF BufferRefsExact, RefsExact, CounterExact, Users, Lying

-----------------------------------------------------------------------------
(* Types: of the connection, the requests, the reads, the buffers *)

LineTypes == /\ conn \in BOOLEAN /\ context \in BOOLEAN
             /\ link \in {"open", "closing", "released"}
             /\ closer \in {"none", "onClose", "reads", "reads?", "writes", "writes?", "drain", "end"}
             /\ loaded \in Nat

RequestTypes == /\ sender \in [Requests -> {"idle", "begun", "linked", "counted", "refused",
                                            "true", "false"}]
                /\ slot \subseteq Requests
                /\ refs \in [Requests -> Int]
                /\ write \in [Requests -> {"none", "queued", "sent", "counting", "done"}]
                /\ started \in Nat /\ finished \in Nat
                /\ handled \subseteq Requests

CallbackTypes == callbacks \in [Requests -> Seq({"response", "write failed", "closed"})]

ReadTypes == /\ chunk \in Nat
             /\ stream \in Seq(Requests \cup {Stray})
             /\ seen \in BOOLEAN /\ partial \in BOOLEAN
             /\ reader \in {"posted", "parse", "decode", "count", "read", "leave", "none"}
             /\ found \in Requests \cup {Stray}
             /\ buffer \in Buffers /\ target \in Buffers

BufferTypes == /\ created \in Nat /\ released \in Nat
               /\ bufRefs \in [Buffers -> Nat]
               /\ job \in [Requests -> Buffers \cup {None, -1}]

LEMMA TypeParts ==
  /\ TypeOK <=> LineTypes /\ RequestTypes /\ CallbackTypes /\ ReadTypes /\ BufferTypes
  /\ TypeOK' <=> LineTypes' /\ RequestTypes' /\ CallbackTypes' /\ ReadTypes' /\ BufferTypes'
  BY DEF TypeOK, LineTypes, RequestTypes, CallbackTypes, ReadTypes, BufferTypes

\* The buffers have the numbers from one on.
LEMMA BufferNumbers == Buffers \subseteq Nat \ {0} /\ 1 \in Buffers /\ None \notin Buffers /\ -1 \notin Buffers
  BY ClientAssumption DEF Buffers, None

LEMMA LineType == TypeOK /\ [Next]_vars => LineTypes'
<1> SUFFICES ASSUME TypeOK, [Next]_vars PROVE LineTypes'
  OBVIOUS
<1>0. LineTypes /\ created \in Nat /\ started \in Nat
  BY DEF TypeOK, LineTypes
<1>1. CASE Unknown
  BY <1>0, <1>1 DEF Unknown, LineTypes, senders
<1>2. CASE Close
  BY <1>0, <1>2 DEF Close, LineTypes, senders
<1>3. CASE Closer
  <2>1. CASE OnCloseUnset
    BY <1>0, <2>1 DEF OnCloseUnset, LineTypes
  <2>2. CASE OnCloseLoad
    BY <1>0, <2>2 DEF OnCloseLoad, LineTypes, senders
  <2>3. CASE OnCloseReads
    BY <1>0, <2>3 DEF OnCloseReads, LineTypes, senders
  <2>4. CASE OnCloseWrites
    <3>1. context' \in BOOLEAN
      BY <2>4 DEF OnCloseWrites
    <3>2. QED BY <1>0, <2>4, <3>1 DEF OnCloseWrites, LineTypes, senders
  <2>5. CASE OnCloseReturn
    BY <1>0, <2>5 DEF OnCloseReturn, LineTypes, senders
  <2>6. CASE \E q \in Requests : OnCloseDrain(q)
    BY <1>0, <2>6 DEF OnCloseDrain, LineTypes, senders, closing
  <2>7. QED BY <1>3, <2>1, <2>2, <2>3, <2>4, <2>5, <2>6 DEF Closer
<1>4. CASE ~(Unknown \/ Close \/ Closer)
  <2>1. UNCHANGED <<conn, closing>>
    BY <1>4 DEF Next, SendUnconnected, SendUnencoded, SendBegin, Sender, SendLink, SendCount, SendWrite, SendRefused,
          SendUndo, Writer, Transmit, WriteOk, WriteFailed, WriteCounted, Answer, AnswerNobody, Worker,
          DoJob, FreeResp, Reader, ReadOk, ReadFailed, Lookup, Decode, Incomplete, ReadOn, ReadAnew,
          ReadCount, ReadPosted, ReadRefused, ReadLeave, senders, vars
  <2>2. QED BY <1>0, <2>1 DEF LineTypes, closing
<1>5. QED BY <1>1, <1>2, <1>3, <1>4

LEMMA RequestType ==
  ASSUME TypeOK, reader = "decode" => found \in Requests, [Next]_vars
  PROVE  RequestTypes'
<1>0. RequestTypes
  BY TypeParts
<1>1. ASSUME NEW q \in Requests,
             SendUnconnected(q) \/ SendUnencoded(q) \/ SendBegin(q) \/ Sender(q) \/ Writer(q) \/ Worker(q) \/ OnCloseDrain(q)
      PROVE  RequestTypes'
  <2>1. /\ sender' = sender \/ \E pc \in {"begun", "linked", "counted", "refused", "true", "false"} :
              sender' = [sender EXCEPT ![q] = pc]
        /\ slot' \in {slot, slot \cup {q}, slot \ {q}}
        /\ write' = write \/ \E pc \in {"queued", "sent", "counting", "done"} :
              write' = [write EXCEPT ![q] = pc]
        /\ started' \in {started, started + 1} /\ finished' \in {finished, finished + 1}
        /\ handled' \in {handled, handled \cup {q}}
    BY <1>1 DEF SendUnconnected, SendUnencoded, SendBegin, Sender, SendLink, SendCount, SendWrite, SendRefused, SendUndo,
          Writer, Transmit, WriteOk, WriteFailed, WriteCounted, Worker, DoJob, FreeResp, OnCloseDrain,
          senders, args, writes, workers
  <2>2. refs' = refs \/ \E n \in {0, 2, refs[q] - 1, refs[q] - 2} : refs' = [refs EXCEPT ![q] = n]
    BY <1>1 DEF SendUnconnected, SendUnencoded, SendBegin, Sender, SendLink, SendCount, SendWrite, SendRefused, SendUndo,
          Writer, Transmit, WriteOk, WriteFailed, WriteCounted, Worker, DoJob, FreeResp, OnCloseDrain,
          args
  <2>3. /\ sender' \in [Requests -> {"idle", "begun", "linked", "counted", "refused", "true", "false"}]
        /\ write' \in [Requests -> {"none", "queued", "sent", "counting", "done"}]
    BY <1>0, <2>1 DEF RequestTypes
  <2>4. refs' \in [Requests -> Int]
    <3>1. refs[q] - 1 \in Int /\ refs[q] - 2 \in Int
      BY <1>0 DEF RequestTypes
    <3>2. QED BY <1>0, <2>2, <3>1 DEF RequestTypes
  <2>5. slot' \subseteq Requests /\ handled' \subseteq Requests /\ started' \in Nat /\ finished' \in Nat
    BY <1>0, <2>1 DEF RequestTypes
  <2>6. QED BY <2>3, <2>4, <2>5 DEF RequestTypes
<1>2. CASE Lookup \/ Incomplete
  <2>1. slot' \subseteq slot \/ (slot' = slot \cup {found} /\ found \in Requests)
    BY <1>2 DEF Lookup, Incomplete
  <2>2. UNCHANGED <<sender, refs, write, started, finished, handled>>
    BY <1>2 DEF Lookup, Incomplete, senders, writes, workers
  <2>3. QED BY <1>0, <2>1, <2>2 DEF RequestTypes
<1>3. CASE UNCHANGED <<sender, slot, refs, write, started, finished, handled>>
  BY <1>0, <1>3 DEF RequestTypes
<1>4. QED BY <1>1, <1>2, <1>3 DEF Next, Answer, AnswerNobody, Reader, ReadOk, ReadFailed, Unknown, Decode,
        ReadOn, ReadAnew, ReadCount, ReadPosted, ReadRefused, ReadLeave, Close, Closer, OnCloseUnset,
        OnCloseLoad, OnCloseReads, OnCloseWrites, OnCloseReturn, senders, args, writes, workers, vars

LEMMA CallbackType == TypeOK /\ [Next]_vars => CallbackTypes'
<1> SUFFICES ASSUME TypeOK, [Next]_vars PROVE CallbackTypes'
  OBVIOUS
<1>0. CallbackTypes
  BY TypeParts
<1>1. ASSUME NEW q \in Requests, NEW r \in {"response", "write failed", "closed"}, CallBack(q, r)
      PROVE  CallbackTypes'
  <2>1. callbacks[q] \in Seq({"response", "write failed", "closed"})
    BY <1>0 DEF CallbackTypes
  <2>2. Append(callbacks[q], r) \in Seq({"response", "write failed", "closed"})
    BY <2>1, AppendProperties
  <2>3. callbacks' = [callbacks EXCEPT ![q] = Append(callbacks[q], r)]
    BY <1>1 DEF CallBack
  <2>4. QED BY <1>0, <2>2, <2>3 DEF CallbackTypes
<1>2. callbacks' = callbacks
         \/ \E q \in Requests, r \in {"response", "write failed", "closed"} : CallBack(q, r)
  BY DEF Next, SendUnconnected, SendUnencoded, SendBegin, Sender, SendLink, SendCount, SendWrite, SendRefused,
        SendUndo, Writer, Transmit, WriteOk, WriteFailed, WriteCounted, Answer, AnswerNobody, Worker,
        DoJob, FreeResp, Reader, ReadOk, ReadFailed, Lookup, Unknown, Decode, Incomplete, ReadOn, ReadAnew,
        ReadCount, ReadPosted, ReadRefused, ReadLeave, Close, Closer, OnCloseUnset, OnCloseLoad,
        OnCloseReads, OnCloseWrites, OnCloseReturn, OnCloseDrain, workers, vars
<1>3. QED BY <1>0, <1>1, <1>2 DEF CallbackTypes

\* The stream grows at its end and is decoded at its head.
LEMMA ReadType ==
  ASSUME TypeOK, Chunked, [Next]_vars
  PROVE  ReadTypes' /\ Chunked'
<1>0. /\ ReadTypes /\ slot \subseteq Requests /\ Len(stream) \in Nat
      /\ chunk <= Len(stream) /\ (partial => chunk < Len(stream))
  <2>1. ReadTypes /\ RequestTypes
    BY TypeParts
  <2>2. Len(stream) \in Nat /\ slot \subseteq Requests
    BY <2>1, LenProperties DEF ReadTypes, RequestTypes
  <2>3. QED BY <2>1, <2>2 DEF Chunked
<1>1. ASSUME NEW q \in Requests \cup {Stray}, stream' = Append(stream, q), UNCHANGED <<seen, readers>>
      PROVE  ReadTypes' /\ Chunked'
  <2>1. stream' \in Seq(Requests \cup {Stray}) /\ Len(stream') = Len(stream) + 1
    BY <1>0, <1>1 DEF ReadTypes
  <2>2. QED BY <1>0, <1>1, <2>1 DEF ReadTypes, Chunked, readers
<1>2. CASE ReadOk
  <2>1. /\ chunk' \in 0..Len(stream) /\ partial' \in BOOLEAN /\ seen' = partial' /\ stream' = stream
        /\ partial' => chunk' < Len(stream)
    BY <1>2 DEF ReadOk
  <2>2. reader' = "parse" /\ UNCHANGED <<found, buffer, target>>
    BY <1>2 DEF ReadOk
  <2>3. chunk' \in Nat /\ chunk' <= Len(stream') /\ (partial' => chunk' < Len(stream'))
    BY <1>0, <2>1
  <2>4. ReadTypes'
    BY <1>0, <2>1, <2>2, <2>3, Zenon DEF ReadTypes
  <2>5. QED BY <2>3, <2>4 DEF Chunked
<1>3. CASE Decode
  <2>1. stream # <<>>
    BY <1>0, <1>3 DEF Decode, ReadTypes
  <2>2. Tail(stream) \in Seq(Requests \cup {Stray}) /\ Len(Tail(stream)) = Len(stream) - 1
    BY <1>0, <2>1, HeadTailProperties DEF ReadTypes
  <2>3. QED BY <1>0, <1>3, <2>2 DEF Decode, ReadTypes, Chunked
<1>4. CASE Lookup
  BY <1>0, <1>4 DEF Lookup, ReadTypes, Chunked, peer
<1>5. CASE Incomplete
  BY <1>0, <1>5 DEF Incomplete, ReadTypes, Chunked, peer
<1>6. CASE ReadAnew
  BY <1>0, <1>6 DEF ReadAnew, ReadTypes, Chunked, peer
<1>7. CASE ReadFailed \/ Unknown \/ ReadOn \/ ReadCount \/ ReadPosted \/ ReadRefused \/ ReadLeave
  BY <1>0, <1>7 DEF ReadFailed, Unknown, ReadOn, ReadCount, ReadPosted, ReadRefused, ReadLeave, ReadTypes,
        Chunked, peer
<1>8. CASE UNCHANGED <<peer, readers>>
  BY <1>0, <1>8 DEF ReadTypes, Chunked, peer, readers
<1>9. CASE AnswerNobody \/ \E q \in Requests : Answer(q)
  BY <1>1, <1>9 DEF AnswerNobody, Answer
<1>10. QED BY <1>2, <1>3, <1>4, <1>5, <1>6, <1>7, <1>8, <1>9 DEF Next, SendUnconnected, SendUnencoded, SendBegin, Sender,
        SendLink, SendCount, SendWrite, SendRefused, SendUndo, Writer, Transmit, WriteOk, WriteFailed,
        WriteCounted, Worker, DoJob, FreeResp, Reader, Close, Closer, OnCloseUnset, OnCloseLoad,
        OnCloseReads, OnCloseWrites, OnCloseReturn, OnCloseDrain, vars

-----------------------------------------------------------------------------
(* Counting users *)

\* The responses in a buffer are finitely many, and so are the live buffers.
LEMMA FinitelyMany ==
  /\ \A b : IsFiniteSet(Lying(b)) /\ Cardinality(Lying(b)) \in Nat
  /\ IsFiniteSet(Live) /\ Cardinality(Live) \in Nat
<1>1. IsFiniteSet(Requests) /\ \A b : Lying(b) \subseteq Requests
  BY ClientAssumption DEF Lying
<1>2. IsFiniteSet(Buffers) /\ Live \subseteq Buffers
  BY ClientAssumption, FS_Interval DEF Buffers, Live
<1>3. QED BY <1>1, <1>2, FS_Subset, FS_CardinalityType

\* Adding or removing an element changes a cardinality unless it was, or was not, there.
LEMMA AddAndRemove ==
  \A S, x : IsFiniteSet(S) =>
     /\ Cardinality(S \cup {x}) = IF x \in S THEN Cardinality(S) ELSE Cardinality(S) + 1
     /\ Cardinality(S \ {x}) = IF x \in S THEN Cardinality(S) - 1 ELSE Cardinality(S)
<1> TAKE S, x
<1> HAVE IsFiniteSet(S)
<1>1. QED BY FS_AddElement, FS_RemoveElement

LEMMA UsersType ==
  ASSUME TypeOK
  PROVE  \A b \in Buffers : /\ Users(b) \in Nat /\ ReadHolds(b) \in Nat
                            /\ Cardinality(Lying(b)) \in Nat /\ bufRefs[b] \in Nat
<1>1. \A b \in Buffers : ReadHolds(b) \in Nat
  <2>1. \A x : If(x) \in {0, 1}
    BY DEF If
  <2>2. reader \in {"posted", "parse", "decode", "count", "read", "leave", "none"}
    BY DEF TypeOK
  <2>3. QED BY <2>1, <2>2 DEF ReadHolds
<1>2. \A b \in Buffers : Cardinality(Lying(b)) \in Nat /\ bufRefs[b] \in Nat
  BY FinitelyMany DEF TypeOK
<1>3. QED BY <1>1, <1>2 DEF Users

\* A response that is decoded or freed is one user more or less of its buffer.
LEMMA JobMoves ==
  ASSUME TypeOK, NEW q \in Requests, NEW v, job' = [job EXCEPT ![q] = v]
  PROVE  \A b \in Buffers :
            Cardinality(Lying(b)') = Cardinality(Lying(b)) - (IF job[q] = b THEN 1 ELSE 0)
                                                              + (IF v = b THEN 1 ELSE 0)
<1> SUFFICES ASSUME NEW b \in Buffers
             PROVE  Cardinality(Lying(b)') = Cardinality(Lying(b)) - (IF job[q] = b THEN 1 ELSE 0)
                                                              + (IF v = b THEN 1 ELSE 0)
  OBVIOUS
<1>1. \A p \in Requests : job'[p] = IF p = q THEN v ELSE job[p]
  BY DEF TypeOK
<1>2. /\ Lying(b)' = IF v = b THEN Lying(b) \cup {q} ELSE Lying(b) \ {q}
      /\ q \in Lying(b) <=> job[q] = b
  BY <1>1 DEF Lying
<1>3. /\ Cardinality(Lying(b) \cup {q})
            = IF q \in Lying(b) THEN Cardinality(Lying(b)) ELSE Cardinality(Lying(b)) + 1
      /\ Cardinality(Lying(b) \ {q})
            = IF q \in Lying(b) THEN Cardinality(Lying(b)) - 1 ELSE Cardinality(Lying(b))
      /\ Cardinality(Lying(b)) \in Nat
  BY FinitelyMany, AddAndRemove
<1>4. QED BY <1>2, <1>3

\* Steps that free nothing keep the counts exact ...
LEMMA SameUsers ==
  ASSUME TypeOK, RefsExact, CounterExact, UNCHANGED buffers,
         If(reader = "count")' = If(reader = "count"), \A b \in Buffers : Users(b)' = Users(b)
  PROVE  RefsExact' /\ CounterExact'
<1>1. Live' = Live /\ UNCHANGED <<bufRefs, created, released>>
  BY DEF Live, buffers
<1>2. QED BY <1>1 DEF RefsExact, CounterExact

\* ... one reference more on a live buffer does ...
LEMMA OneMoreUser ==
  ASSUME TypeOK, RefsExact, CounterExact, NEW b \in Buffers, UNCHANGED <<created, released>>,
         bufRefs' = [bufRefs EXCEPT ![b] = @ + 1], bufRefs[b] > 0,
         If(reader = "count")' = If(reader = "count"),
         \A c \in Buffers : Users(c)' = IF c = b THEN Users(c) + 1 ELSE Users(c)
  PROVE  /\ bufRefs' \in [Buffers -> Nat] /\ RefsExact' /\ CounterExact'
         /\ \A c \in Buffers : bufRefs[c] = 0 => bufRefs'[c] = 0
<1>0. bufRefs \in [Buffers -> Nat]
  BY DEF TypeOK
<1>1. \A c \in Buffers : bufRefs'[c] = IF c = b THEN bufRefs[c] + 1 ELSE bufRefs[c]
  BY <1>0
<1>2. bufRefs' \in [Buffers -> Nat]
  BY <1>0
<1>3. RefsExact'
  BY <1>1 DEF RefsExact
<1>4. Live' = Live
  BY <1>0, <1>1 DEF Live
<1>5. CounterExact'
  BY <1>4 DEF CounterExact
<1>6. QED BY <1>0, <1>1, <1>2, <1>3, <1>5

\* ... and clientFreeReadBuffer does, as it counts what it frees.
LEMMA FewerUsers ==
  ASSUME TypeOK, RefsExact, CounterExact, NEW b \in Buffers, NEW n \in {1, 2}, FreeReadBuffer(b, n),
         UNCHANGED created, If(reader = "count")' = If(reader = "count"), bufRefs[b] >= n,
         \A c \in Buffers : Users(c)' = IF c = b THEN Users(c) - n ELSE Users(c)
  PROVE  /\ bufRefs' \in [Buffers -> Nat] /\ released' \in Nat /\ RefsExact' /\ CounterExact'
         /\ \A c \in Buffers : bufRefs[c] = 0 => bufRefs'[c] = 0
<1>0. bufRefs \in [Buffers -> Nat] /\ created \in Nat /\ released \in Nat
  BY DEF TypeOK
<1>1. \A c \in Buffers : bufRefs'[c] = IF c = b THEN bufRefs[c] - n ELSE bufRefs[c]
  BY <1>0 DEF FreeReadBuffer
<1>2. bufRefs' \in [Buffers -> Nat]
  BY <1>0 DEF FreeReadBuffer
<1>3. RefsExact'
  BY <1>1 DEF RefsExact
<1>4. released' \in Nat
  BY <1>0 DEF FreeReadBuffer
<1>5. CounterExact'
  <2>1. b \in Live /\ Live' = IF bufRefs[b] = n THEN Live \ {b} ELSE Live
    BY <1>0, <1>1 DEF Live
  <2>2. /\ Cardinality(Live \ {b}) = Cardinality(Live) - 1
        /\ Cardinality(Live) \in Nat /\ If(reader = "count") \in {0, 1}
    BY <2>1, FinitelyMany, AddAndRemove DEF If
  <2>3. CASE bufRefs[b] = n
    <3>1. released' = released + 1 /\ Cardinality(Live') = Cardinality(Live) - 1
      BY <2>1, <2>2, <2>3 DEF FreeReadBuffer
    <3>2. QED BY <1>0, <2>2, <3>1 DEF CounterExact
  <2>4. CASE bufRefs[b] # n
    <3>1. released' = released /\ Live' = Live
      BY <2>1, <2>4 DEF FreeReadBuffer
    <3>2. QED BY <3>1 DEF CounterExact
  <2>5. QED BY <2>3, <2>4
<1>6. QED BY <1>0, <1>1, <1>2, <1>3, <1>4, <1>5

LEMMA FreshKeeps ==
  ASSUME Fresh, UNCHANGED created, reader' = "count" <=> reader = "count",
         reader = "count" => UNCHANGED <<target, buffer>>,
         \A c \in Buffers : bufRefs[c] = 0 => bufRefs'[c] = 0
  PROVE  Fresh'
  BY DEF Fresh, If

-----------------------------------------------------------------------------
(* clientReadCallback and clientRead *)

\* Which references the callback holds where.
LEMMA Holding ==
  /\ \A b : /\ reader \in {"posted", "leave"} => ReadHolds(b) = IF b = buffer THEN 1 ELSE 0
            /\ reader \in {"parse", "decode"} => ReadHolds(b) = IF b = buffer THEN 2 ELSE 0
            /\ reader \in {"count", "read"} =>
                  ReadHolds(b) = (IF b = buffer THEN 1 ELSE 0) + (IF b = target THEN 1 ELSE 0)
            /\ reader = "none" => ReadHolds(b) = 0
  /\ \A b : /\ reader' \in {"posted", "leave"} => ReadHolds(b)' = IF b = buffer' THEN 1 ELSE 0
            /\ reader' \in {"parse", "decode"} => ReadHolds(b)' = IF b = buffer' THEN 2 ELSE 0
            /\ reader' \in {"count", "read"} =>
                  ReadHolds(b)' = (IF b = buffer' THEN 1 ELSE 0) + (IF b = target' THEN 1 ELSE 0)
            /\ reader' = "none" => ReadHolds(b)' = 0
  BY DEF ReadHolds, If

\* A read that completes takes one reference, and a response that is decoded does.
LEMMA TakesOne ==
  ASSUME BufferIInv, ReadOk \/ Decode
  PROVE  BufferTypes' /\ RefsExact' /\ CounterExact' /\ Fresh'
<1>0. /\ TypeOK /\ RefsExact /\ CounterExact /\ Links /\ Fresh
      /\ buffer \in Buffers /\ BufferTypes
      /\ \A b \in Buffers : ReadHolds(b) \in Nat /\ Cardinality(Lying(b)) \in Nat
  <2>1. TypeOK
    BY Exactness DEF BufferIInv
  <2>2. QED BY <2>1, Exactness, UsersType, TypeParts DEF BufferIInv, ReadTypes
<1>1. /\ bufRefs' = [bufRefs EXCEPT ![buffer] = @ + 1] /\ reader' = "parse"
      /\ UNCHANGED <<buffer, target, created, released>> /\ reader \in {"posted", "decode"}
  BY DEF ReadOk, Decode
<1>2. \A c \in Buffers : Users(c)' = IF c = buffer THEN Users(c) + 1 ELSE Users(c)
  <2>1. CASE ReadOk
    <3>1. reader = "posted" /\ job' = job
      BY <2>1 DEF ReadOk, workers
    <3>2. \A c \in Buffers : /\ ReadHolds(c) = IF c = buffer THEN 1 ELSE 0
                             /\ ReadHolds(c)' = IF c = buffer THEN 2 ELSE 0
      BY <1>1, <3>1, Holding
    <3>3. \A c \in Buffers : Lying(c)' = Lying(c)
      BY <3>1 DEF Lying
    <3>4. QED BY <1>0, <3>2, <3>3 DEF Users
  <2>2. CASE Decode
    <3>1. found \in Requests /\ job[found] = None /\ job' = [job EXCEPT ![found] = buffer]
      BY <1>0, <2>2 DEF Decode, Links
    <3>2. \A c \in Buffers :
             Cardinality(Lying(c)') = Cardinality(Lying(c)) - (IF job[found] = c THEN 1 ELSE 0)
                                                            + (IF buffer = c THEN 1 ELSE 0)
      BY <1>0, <3>1, JobMoves
    <3>3. \A c \in Buffers : job[found] # c
      BY <3>1, BufferNumbers
    <3>4. reader = "decode"
      BY <2>2 DEF Decode
    <3>5. \A c \in Buffers : /\ ReadHolds(c) = IF c = buffer THEN 2 ELSE 0
                             /\ ReadHolds(c)' = IF c = buffer THEN 2 ELSE 0
      BY <1>1, <3>4, Holding
    <3>6. QED BY <1>0, <3>2, <3>3, <3>5 DEF Users
  <2>3. QED BY <2>1, <2>2
<1>3. bufRefs[buffer] > 0
  <2>1. ReadHolds(buffer) > 0
    BY <1>0, <1>1, Holding
  <2>2. QED BY <1>0, <2>1 DEF RefsExact, Users
<1>4. If(reader = "count")' = If(reader = "count")
  BY <1>1 DEF If
<1>5. /\ bufRefs' \in [Buffers -> Nat] /\ RefsExact' /\ CounterExact'
      /\ \A c \in Buffers : bufRefs[c] = 0 => bufRefs'[c] = 0
  BY <1>0, <1>1, <1>2, <1>3, <1>4, OneMoreUser
<1>6. Fresh'
  BY <1>0, <1>1, <1>5, FreshKeeps
<1>7. job' \in [Requests -> Buffers \cup {None, -1}]
  BY <1>0 DEF ReadOk, Decode, workers, BufferTypes
<1>8. QED BY <1>0, <1>1, <1>5, <1>6, <1>7 DEF BufferTypes

\* What gives up references, one or two of one buffer.
LEMMA GivesUp ==
  ASSUME BufferIInv, ReadFailed \/ Unknown \/ ReadPosted \/ ReadRefused \/ ReadLeave
  PROVE  BufferTypes' /\ RefsExact' /\ CounterExact' /\ Fresh'
<1>0. /\ TypeOK /\ RefsExact /\ CounterExact /\ Fresh
      /\ buffer \in Buffers /\ target \in Buffers /\ BufferTypes
      /\ \A b \in Buffers : ReadHolds(b) \in Nat /\ Cardinality(Lying(b)) \in Nat
  <2>1. TypeOK
    BY Exactness DEF BufferIInv
  <2>2. QED BY <2>1, Exactness, UsersType, TypeParts DEF BufferIInv, ReadTypes
<1>1. /\ UNCHANGED <<job, target, created>> /\ reader # "count" /\ reader' # "count"
      /\ \A c \in Buffers : Lying(c)' = Lying(c)
  BY DEF ReadFailed, Unknown, ReadPosted, ReadRefused, ReadLeave, workers, Lying
<1>2. \E b \in Buffers, n \in {1, 2} :
         /\ FreeReadBuffer(b, n)
         /\ \A c \in Buffers : ReadHolds(c)' = IF c = b THEN ReadHolds(c) - n ELSE ReadHolds(c)
         /\ ReadHolds(b) >= n
  <2>2. CASE ReadFailed
    <3>1. reader = "posted" /\ reader' = "none" /\ buffer' = buffer /\ FreeReadBuffer(buffer, 1)
      BY <2>2 DEF ReadFailed
    <3>2. \A c \in Buffers : /\ ReadHolds(c) = IF c = buffer THEN 1 ELSE 0
                             /\ ReadHolds(c)' = 0
      BY <3>1, Holding
    <3>3. /\ \A c \in Buffers : ReadHolds(c)' = IF c = buffer THEN ReadHolds(c) - 1 ELSE ReadHolds(c)
          /\ ReadHolds(buffer) >= 1
      BY <1>0, <3>1, <3>2
    <3>4. QED BY <1>0, <3>1, <3>3
  <2>3. CASE Unknown
    <3>1. reader = "parse" /\ reader' = "none" /\ buffer' = buffer /\ FreeReadBuffer(buffer, 2)
      BY <2>3 DEF Unknown
    <3>2. \A c \in Buffers : /\ ReadHolds(c) = IF c = buffer THEN 2 ELSE 0
                             /\ ReadHolds(c)' = 0
      BY <3>1, Holding
    <3>3. /\ \A c \in Buffers : ReadHolds(c)' = IF c = buffer THEN ReadHolds(c) - 2 ELSE ReadHolds(c)
          /\ ReadHolds(buffer) >= 2
      BY <1>0, <3>1, <3>2
    <3>4. QED BY <1>0, <3>1, <3>3
  <2>4. CASE ReadPosted
    <3>1. reader = "read" /\ reader' = "posted" /\ buffer' = target /\ FreeReadBuffer(buffer, 1)
      BY <2>4 DEF ReadPosted
    <3>2. \A c \in Buffers : /\ ReadHolds(c) = (IF c = buffer THEN 1 ELSE 0) + (IF c = target THEN 1 ELSE 0)
                             /\ ReadHolds(c)' = IF c = target THEN 1 ELSE 0
      BY <3>1, Holding
    <3>3. /\ \A c \in Buffers : ReadHolds(c)' = IF c = buffer THEN ReadHolds(c) - 1 ELSE ReadHolds(c)
          /\ ReadHolds(buffer) >= 1
      BY <1>0, <3>1, <3>2
    <3>4. QED BY <1>0, <3>1, <3>3
  <2>5. CASE ReadRefused
    <3>1. reader = "read" /\ reader' = "leave" /\ buffer' = buffer /\ FreeReadBuffer(target, 1)
      BY <2>5 DEF ReadRefused
    <3>2. \A c \in Buffers : /\ ReadHolds(c) = (IF c = buffer THEN 1 ELSE 0) + (IF c = target THEN 1 ELSE 0)
                             /\ ReadHolds(c)' = IF c = buffer THEN 1 ELSE 0
      BY <3>1, Holding
    <3>3. /\ \A c \in Buffers : ReadHolds(c)' = IF c = target THEN ReadHolds(c) - 1 ELSE ReadHolds(c)
          /\ ReadHolds(target) >= 1
      BY <1>0, <3>1, <3>2
    <3>4. QED BY <1>0, <3>1, <3>3
  <2>6. CASE ReadLeave
    <3>1. reader = "leave" /\ reader' = "none" /\ buffer' = buffer /\ FreeReadBuffer(buffer, 1)
      BY <2>6 DEF ReadLeave
    <3>2. \A c \in Buffers : /\ ReadHolds(c) = IF c = buffer THEN 1 ELSE 0
                             /\ ReadHolds(c)' = 0
      BY <3>1, Holding
    <3>3. /\ \A c \in Buffers : ReadHolds(c)' = IF c = buffer THEN ReadHolds(c) - 1 ELSE ReadHolds(c)
          /\ ReadHolds(buffer) >= 1
      BY <1>0, <3>1, <3>2
    <3>4. QED BY <1>0, <3>1, <3>3
  <2>7. QED BY <2>2, <2>3, <2>4, <2>5, <2>6
<1>3. PICK b \in Buffers, n \in {1, 2} :
         /\ FreeReadBuffer(b, n)
         /\ \A c \in Buffers : ReadHolds(c)' = IF c = b THEN ReadHolds(c) - n ELSE ReadHolds(c)
         /\ ReadHolds(b) >= n
  BY <1>2
<1>4. \A c \in Buffers : Users(c)' = IF c = b THEN Users(c) - n ELSE Users(c)
  BY <1>0, <1>1, <1>3 DEF Users
<1>5. bufRefs[b] >= n
  BY <1>0, <1>3 DEF RefsExact, Users
<1>6. If(reader = "count")' = If(reader = "count")
  BY <1>1 DEF If
<1>7. /\ bufRefs' \in [Buffers -> Nat] /\ released' \in Nat /\ RefsExact' /\ CounterExact'
      /\ \A c \in Buffers : bufRefs[c] = 0 => bufRefs'[c] = 0
  BY <1>0, <1>1, <1>3, <1>4, <1>5, <1>6, FewerUsers
<1>8. Fresh'
  BY <1>0, <1>1, <1>7, FreshKeeps
<1>9. QED BY <1>0, <1>1, <1>7, <1>8 DEF BufferTypes

\* A response is freed with its reference.
LEMMA FreeRespExact ==
  ASSUME BufferIInv, NEW q \in Requests, FreeResp(q)
  PROVE  BufferTypes' /\ RefsExact' /\ CounterExact' /\ Fresh'
<1>0. /\ TypeOK /\ RefsExact /\ CounterExact /\ Fresh /\ BufferTypes
      /\ \A b \in Buffers : ReadHolds(b) \in Nat /\ Cardinality(Lying(b)) \in Nat
  <2>1. TypeOK
    BY Exactness DEF BufferIInv
  <2>2. QED BY <2>1, Exactness, UsersType, TypeParts DEF BufferIInv
<1>1. /\ UNCHANGED <<reader, buffer, target, created>> /\ job[q] \in Buffers
      /\ FreeReadBuffer(job[q], 1) /\ job' = [job EXCEPT ![q] = -1]
  BY DEF FreeResp, readers
<1>2. \A c \in Buffers : ReadHolds(c)' = ReadHolds(c)
  BY <1>1 DEF ReadHolds, If
<1>3. \A c \in Buffers : Cardinality(Lying(c)') = IF c = job[q] THEN Cardinality(Lying(c)) - 1
                                                  ELSE Cardinality(Lying(c))
  <2>1. ASSUME NEW v, v = -1
        PROVE  \A c \in Buffers :
                  Cardinality(Lying(c)') = Cardinality(Lying(c)) - (IF job[q] = c THEN 1 ELSE 0)
                                                                 + (IF v = c THEN 1 ELSE 0)
    <3>1. TypeOK /\ job' = [job EXCEPT ![q] = v]
      BY <1>0, <1>1, <2>1
    <3>2. QED BY <3>1, JobMoves
  <2>2. \A c \in Buffers : -1 # c
    BY BufferNumbers
  <2>3. QED BY <1>0, <2>1, <2>2
<1>4. \A c \in Buffers : Users(c)' = IF c = job[q] THEN Users(c) - 1 ELSE Users(c)
  BY <1>0, <1>2, <1>3 DEF Users
<1>5. bufRefs[job[q]] >= 1
  <2>1. q \in Lying(job[q]) /\ IsFiniteSet(Lying(job[q]))
    BY FinitelyMany DEF Lying
  <2>2. Cardinality(Lying(job[q])) >= 1
    BY <1>0, <1>1, <2>1, FS_EmptySet
  <2>3. QED BY <1>0, <1>1, <2>2 DEF RefsExact, Users
<1>6. If(reader = "count")' = If(reader = "count")
  BY <1>1 DEF If
<1>7. /\ bufRefs' \in [Buffers -> Nat] /\ released' \in Nat /\ RefsExact' /\ CounterExact'
      /\ \A c \in Buffers : bufRefs[c] = 0 => bufRefs'[c] = 0
  BY <1>0, <1>1, <1>4, <1>5, <1>6, FewerUsers
<1>8. Fresh'
  BY <1>0, <1>1, <1>7, FreshKeeps
<1>9. job' \in [Requests -> Buffers \cup {None, -1}]
  BY <1>0, <1>1 DEF BufferTypes
<1>10. QED BY <1>0, <1>1, <1>7, <1>8, <1>9 DEF BufferTypes
\* clientRead moves to a new buffer: it takes one reference there and leaves one.
LEMMA ReadAnewExact ==
  ASSUME BufferIInv, ReadAnew
  PROVE  BufferTypes' /\ RefsExact' /\ CounterExact' /\ Fresh'
<1>0. /\ TypeOK /\ RefsExact /\ CounterExact /\ Fresh /\ buffer \in Buffers
      /\ bufRefs \in [Buffers -> Nat] /\ created \in Nat /\ released \in Nat /\ BufferTypes
      /\ \A b \in Buffers : ReadHolds(b) \in Nat /\ Cardinality(Lying(b)) \in Nat
  <2>1. TypeOK
    BY Exactness DEF BufferIInv
  <2>2. QED BY <2>1, Exactness, UsersType, TypeParts DEF BufferIInv, ReadTypes, BufferTypes
<1>1. /\ reader = "parse" /\ reader' = "count" /\ target' = created + 1 /\ created + 1 \in Buffers
      /\ bufRefs' = [bufRefs EXCEPT ![created + 1] = 1, ![buffer] = @ - 1]
      /\ released' = IF bufRefs[buffer] = 1 THEN released + 1 ELSE released
      /\ UNCHANGED <<buffer, created, job>>
  BY DEF ReadAnew, workers
<1>2. \A c \in Buffers : /\ ReadHolds(c) = IF c = buffer THEN 2 ELSE 0
                         /\ ReadHolds(c)' = (IF c = buffer THEN 1 ELSE 0)
                                              + (IF c = created + 1 THEN 1 ELSE 0)
  BY <1>1, Holding
<1>3. bufRefs[buffer] >= 2
  BY <1>0, <1>2 DEF RefsExact, Users
<1>4. bufRefs[created + 1] = 0 /\ created + 1 # buffer
  <2>1. bufRefs[created + 1] = 0
    BY <1>0, <1>1 DEF Fresh, If
  <2>2. QED BY <1>3, <2>1
<1>5. /\ \A c \in Buffers : bufRefs'[c] = IF c = created + 1 THEN 1
                                          ELSE IF c = buffer THEN bufRefs[c] - 1 ELSE bufRefs[c]
      /\ released' = released
  BY <1>0, <1>1, <1>3, <1>4
<1>6. bufRefs' \in [Buffers -> Nat]
  <2>1. bufRefs[buffer] - 1 \in Nat
    BY <1>0, <1>3
  <2>2. QED BY <1>0, <1>1, <1>4, <2>1
<1>7. RefsExact'
  <2>1. \A c \in Buffers : Lying(c)' = Lying(c)
    BY <1>1 DEF Lying
  <2>2. \A c \in Buffers : bufRefs[c] = ReadHolds(c) + Cardinality(Lying(c))
    BY <1>0 DEF RefsExact, Users
  <2>3. \A c \in Buffers : bufRefs'[c] = ReadHolds(c)' + Cardinality(Lying(c))
    BY <1>0, <1>2, <1>4, <1>5, <2>2
  <2>4. QED BY <2>1, <2>3 DEF RefsExact, Users
<1>8. CounterExact'
  <2>1. Live' = Live \cup {created + 1} /\ created + 1 \notin Live
    BY <1>0, <1>1, <1>3, <1>4, <1>5 DEF Live
  <2>2. Cardinality(Live') = Cardinality(Live) + 1 /\ Cardinality(Live) \in Nat
    BY <2>1, FinitelyMany, AddAndRemove
  <2>3. created - released = Cardinality(Live)
    BY <1>0, <1>1, <2>2 DEF CounterExact, If
  <2>4. QED BY <1>0, <1>1, <1>5, <2>2, <2>3 DEF CounterExact, If
<1>9. Fresh'
  <2>1. \A c \in Buffers : c > created => bufRefs[c] = 0
    BY <1>0, <1>1, BufferNumbers DEF Fresh, If
  <2>2. \A c \in Buffers : c > created + 1 => bufRefs'[c] = 0
    BY <1>0, <1>3, <1>5, <2>1, BufferNumbers
  <2>3. QED BY <1>1, <1>4, <2>2 DEF Fresh, If
<1>10. QED BY <1>0, <1>1, <1>5, <1>6, <1>7, <1>8, <1>9 DEF BufferTypes

LEMMA ReadCountExact ==
  ASSUME BufferIInv, ReadCount
  PROVE  BufferTypes' /\ RefsExact' /\ CounterExact' /\ Fresh'
<1>0. /\ RefsExact /\ CounterExact /\ Fresh /\ BufferTypes
      /\ created \in Nat /\ released \in Nat /\ Cardinality(Live) \in Nat
  <2>1. TypeOK
    BY Exactness DEF BufferIInv
  <2>2. QED BY <2>1, Exactness, FinitelyMany, TypeParts DEF BufferIInv, BufferTypes
<1>1. /\ reader = "count" /\ reader' = "read" /\ created' = created + 1
      /\ UNCHANGED <<buffer, target, bufRefs, released, job>>
  BY DEF ReadCount, workers
<1>2. \A c \in Buffers : Lying(c)' = Lying(c) /\ ReadHolds(c)' = ReadHolds(c)
  BY <1>1 DEF Lying, ReadHolds, If
<1>3. RefsExact'
  BY <1>0, <1>1, <1>2 DEF RefsExact, Users
<1>4. CounterExact'
  <2>1. Live' = Live
    BY <1>1 DEF Live
  <2>2. QED BY <1>0, <1>1, <2>1 DEF CounterExact, If
<1>5. Fresh'
  BY <1>0, <1>1, BufferNumbers DEF Fresh, If
<1>6. QED BY <1>0, <1>1, <1>3, <1>4, <1>5 DEF BufferTypes

\* The rest gives and takes no reference.
LEMMA SameExact ==
  ASSUME BufferIInv, UNCHANGED <<buffers, job>>,
         \/ UNCHANGED <<reader, buffer, target>>
         \/ Lookup \/ Incomplete \/ ReadOn
  PROVE  BufferTypes' /\ RefsExact' /\ CounterExact' /\ Fresh'
<1>0. /\ TypeOK /\ RefsExact /\ CounterExact /\ Fresh /\ BufferTypes
  <2>1. TypeOK
    BY Exactness DEF BufferIInv
  <2>2. QED BY <2>1, Exactness, TypeParts DEF BufferIInv
<1>1. \A c \in Buffers : Lying(c)' = Lying(c)
  BY DEF Lying
<1>2. /\ \A c \in Buffers : ReadHolds(c)' = ReadHolds(c)
      /\ reader' = "count" <=> reader = "count" 
      /\ reader = "count" => UNCHANGED <<target, buffer>>
  <2>1. CASE UNCHANGED <<reader, buffer, target>>
    BY <2>1 DEF ReadHolds, If
  <2>2. CASE Lookup \/ Incomplete
    <3>1. reader \in {"parse", "decode"} /\ reader' \in {"parse", "decode"} /\ buffer' = buffer
      BY <2>2 DEF Lookup, Incomplete
    <3>2. \A c \in Buffers : /\ ReadHolds(c) = IF c = buffer THEN 2 ELSE 0
                             /\ ReadHolds(c)' = IF c = buffer THEN 2 ELSE 0
      BY <3>1, Holding
    <3>3. QED BY <3>1, <3>2
  <2>3. CASE ReadOn
    <3>1. reader = "parse" /\ reader' = "read" /\ buffer' = buffer /\ target' = buffer
      BY <2>3 DEF ReadOn
    <3>2. \A c \in Buffers : /\ ReadHolds(c) = IF c = buffer THEN 2 ELSE 0
                             /\ ReadHolds(c)' = (IF c = buffer THEN 1 ELSE 0)
                                                  + (IF c = buffer THEN 1 ELSE 0)
      BY <3>1, Holding
    <3>3. \A c \in Buffers : ReadHolds(c)' = ReadHolds(c)
      BY <3>2
    <3>4. QED BY <3>1, <3>3
  <2>4. QED BY <2>1, <2>2, <2>3
<1>3. \A c \in Buffers : Users(c)' = Users(c)
  BY <1>1, <1>2 DEF Users
<1>4. If(reader = "count")' = If(reader = "count")
  BY <1>2 DEF If
<1>5. RefsExact' /\ CounterExact'
  BY <1>0, <1>3, <1>4, SameUsers
<1>6. Fresh'
  <2>1. created' = created /\ bufRefs' = bufRefs
    BY DEF buffers
  <2>2. QED BY <1>0, <1>2, <2>1, FreshKeeps
<1>7. QED BY <1>0, <1>5, <1>6 DEF BufferTypes, buffers

-----------------------------------------------------------------------------
(* Links *)

LEMMA LinksKept ==
  ASSUME TypeOK, Links, [Next]_vars
  PROVE  Links'
<1>0. /\ sender \in [Requests -> {"idle", "begun", "linked", "counted", "refused", "true", "false"}]
      /\ slot \subseteq Requests /\ job \in [Requests -> Buffers \cup {None, -1}]
  BY DEF TypeOK
<1>1. ASSUME NEW q \in Requests, SendUnconnected(q) \/ SendUnencoded(q) \/ SendBegin(q) \/ Sender(q)
      PROVE  Links'
  <2>1. /\ \E pc \in {"begun", "linked", "counted", "refused", "true", "false"} :
              /\ sender' = [sender EXCEPT ![q] = pc]
              /\ pc = "begun" => sender[q] = "idle"
        /\ slot' \subseteq slot \/ (sender[q] = "begun" /\ sender'[q] = "linked" /\ slot' = slot \cup {q})
        /\ UNCHANGED <<job, reader, found>>
    BY <1>0, <1>1 DEF SendUnconnected, SendUnencoded, SendBegin, Sender, SendLink, SendCount, SendWrite, SendRefused,
          SendUndo, args, readers, workers
  <2>2. PICK pc \in {"begun", "linked", "counted", "refused", "true", "false"} :
           /\ sender' = [sender EXCEPT ![q] = pc]
           /\ pc = "begun" => sender[q] = "idle"
    BY <2>1
  <2>3. \A p \in Requests : sender'[p] = IF p = q THEN pc ELSE sender[p]
    BY <1>0, <2>2
  <2>4. \A p \in Requests : sender'[p] \in {"idle", "begun"} => p \notin slot' /\ job[p] = None
    BY <2>1, <2>2, <2>3 DEF Links
  <2>5. \A p \in slot' : job[p] = None
    BY <2>1 DEF Links
  <2>6. reader = "decode" => /\ found \in Requests /\ sender'[found] \notin {"idle", "begun"}
                             /\ job[found] = None /\ found \notin slot'
    BY <2>1, <2>2, <2>3 DEF Links
  <2>7. QED BY <2>1, <2>4, <2>5, <2>6 DEF Links
<1>2. CASE Lookup
  <2>1. /\ reader' = "decode" /\ found' \in slot /\ slot' = slot \ {found'} /\ UNCHANGED <<sender, job>>
    BY <1>2 DEF Lookup, senders, workers
  <2>2. QED BY <1>0, <2>1 DEF Links
<1>3. CASE Decode
  <2>1. /\ reader = "decode" /\ reader' = "parse" /\ UNCHANGED <<sender, slot>>
        /\ job' = [job EXCEPT ![found] = buffer]
    BY <1>3 DEF Decode, senders, args
  <2>2. \A p \in Requests : p # found => job'[p] = job[p]
    BY <1>0, <2>1
  <2>3. QED BY <1>0, <2>1, <2>2 DEF Links
<1>4. CASE Incomplete
  <2>1. reader = "decode" /\ reader' = "parse" /\ slot' = slot \cup {found} /\ UNCHANGED <<sender, job>>
    BY <1>4 DEF Incomplete, senders, workers
  <2>2. QED BY <1>0, <2>1 DEF Links
<1>5. ASSUME NEW q \in Requests, FreeResp(q) PROVE Links'
  <2>1. /\ job[q] # None /\ UNCHANGED <<sender, slot, reader, found>>
        /\ job' = [job EXCEPT ![q] = -1]
    BY <1>5, BufferNumbers DEF FreeResp, senders, readers
  <2>2. \A p \in Requests : p # q => job'[p] = job[p]
    BY <1>0, <2>1
  <2>3. QED BY <1>0, <2>1, <2>2 DEF Links
<1>6. CASE slot' \subseteq slot /\ UNCHANGED <<sender, job, reader, found>>
  BY <1>6 DEF Links
<1>7. CASE /\ ReadOk \/ ReadFailed \/ Unknown \/ ReadOn \/ ReadAnew \/ ReadCount \/ ReadPosted
                    \/ ReadRefused \/ ReadLeave
  <2>1. reader' # "decode" /\ UNCHANGED <<sender, job, slot>>
    BY <1>7 DEF ReadOk, ReadFailed, Unknown, ReadOn, ReadAnew, ReadCount, ReadPosted, ReadRefused,
          ReadLeave, senders, args, workers
  <2>2. QED BY <2>1 DEF Links
<1>8. CASE \E q \in Requests : Writer(q) \/ DoJob(q) \/ Answer(q) \/ OnCloseDrain(q)
  <2>1. slot' \subseteq slot /\ UNCHANGED <<sender, job, reader, found>>
    BY <1>8 DEF Writer, Transmit, WriteOk, WriteFailed, WriteCounted, DoJob, Answer, OnCloseDrain, senders,
          args, readers, workers
  <2>2. QED BY <1>6, <2>1
<1>9. CASE \/ AnswerNobody \/ Close \/ OnCloseUnset \/ OnCloseLoad \/ OnCloseReads \/ OnCloseWrites
           \/ OnCloseReturn \/ UNCHANGED vars
  <2>1. slot' \subseteq slot /\ UNCHANGED <<sender, job, reader, found>>
    BY <1>9 DEF AnswerNobody, Close, OnCloseUnset, OnCloseLoad, OnCloseReads, OnCloseWrites, OnCloseReturn,
          senders, args, readers, workers, vars
  <2>2. QED BY <1>6, <2>1
<1>10. QED BY <1>1, <1>2, <1>3, <1>4, <1>5, <1>7, <1>8, <1>9 DEF Next, Reader, Worker, Closer

-----------------------------------------------------------------------------
LEMMA BufferInit == Init => BufferIInv
<1> SUFFICES ASSUME Init PROVE BufferIInv
  OBVIOUS
<1>1. /\ reader = "posted" /\ chunk = 0 /\ partial = FALSE /\ buffer = 1 /\ target = 1 /\ stream = <<>>
      /\ created = 1 /\ released = 0 /\ slot = {} /\ found = Stray /\ seen = FALSE
      /\ bufRefs = [b \in Buffers |-> IF b = 1 THEN 1 ELSE 0]
      /\ job = [q \in Requests |-> None] /\ sender = [q \in Requests |-> "idle"]
  BY DEF Init
<1>2. LineTypes /\ RequestTypes /\ ReadTypes /\ BufferTypes
  <2>1. LineTypes /\ RequestTypes
    BY DEF Init, LineTypes, RequestTypes
  <2>2. stream \in Seq(Requests \cup {Stray}) /\ Len(stream) = 0
    BY <1>1, EmptySeq
  <2>3. ReadTypes /\ BufferTypes
    BY <1>1, <2>2, BufferNumbers DEF ReadTypes, BufferTypes
  <2>4. QED BY <2>1, <2>3
<1>3. CallbackTypes
  <2>1. <<>> \in Seq({"response", "write failed", "closed"})
    BY EmptySeq
  <2>2. QED BY <2>1 DEF Init, CallbackTypes
<1>4. TypeOK
  BY <1>2, <1>3, TypeParts
<1>5. \A b \in Buffers : Lying(b) = {} /\ ReadHolds(b) = IF b = 1 THEN 1 ELSE 0
  <2>1. \A b \in Buffers : Lying(b) = {}
    BY <1>1, BufferNumbers DEF Lying
  <2>2. QED BY <1>1, <2>1, Holding
<1>6. RefsExact
  <2>1. \A b \in Buffers : bufRefs[b] = (IF b = 1 THEN 1 ELSE 0) /\ Cardinality(Lying(b)) = 0
    BY <1>1, <1>5, FS_EmptySet
  <2>2. \A b \in Buffers : Users(b) = (IF b = 1 THEN 1 ELSE 0) + 0
    BY <1>5, <2>1 DEF Users
  <2>3. QED BY <2>1, <2>2 DEF RefsExact
<1>7. CounterExact
  <2>1. Live = {1}
    BY <1>1, BufferNumbers DEF Live
  <2>2. Cardinality(Live) = 1
    <3>1. IsFiniteSet({}) /\ Cardinality({}) = 0
      BY FS_EmptySet
    <3>2. Cardinality({} \cup {1}) = 1
      BY <3>1, AddAndRemove
    <3>3. {} \cup {1} = {1}
      OBVIOUS
    <3>4. QED BY <2>1, <3>2, <3>3
  <2>3. QED BY <1>1, <2>2 DEF CounterExact, If
<1>8. Links
  BY <1>1 DEF Links
<1>9. Chunked
  BY <1>1 DEF Chunked
<1>10. Fresh
  BY <1>1, BufferNumbers DEF Fresh, If
<1>11. QED BY <1>4, <1>6, <1>7, <1>8, <1>9, <1>10, Exactness DEF BufferIInv

LEMMA BufferStep == BufferIInv /\ [Next]_vars => BufferIInv'
<1> SUFFICES ASSUME BufferIInv, [Next]_vars PROVE BufferIInv'
  OBVIOUS
<1>0. TypeOK /\ Links /\ Chunked
  BY Exactness DEF BufferIInv
<1>1. Links'
  BY <1>0, LinksKept
<1>2. LineTypes' /\ RequestTypes' /\ CallbackTypes' /\ ReadTypes' /\ Chunked'
  <2>1. reader = "decode" => found \in Requests
    BY <1>0 DEF Links
  <2>2. QED BY <1>0, <2>1, LineType, RequestType, CallbackType, ReadType
<1>3. BufferTypes' /\ RefsExact' /\ CounterExact' /\ Fresh'
  <2>1. CASE ReadOk \/ Decode
    BY <2>1, TakesOne
  <2>2. CASE ReadFailed \/ Unknown \/ ReadPosted \/ ReadRefused \/ ReadLeave
    BY <2>2, GivesUp
  <2>3. CASE \E q \in Requests : FreeResp(q)
    BY <2>3, FreeRespExact
  <2>4. CASE ReadAnew
    BY <2>4, ReadAnewExact
  <2>5. CASE ReadCount
    BY <2>5, ReadCountExact
  <2>6. CASE Lookup \/ Incomplete \/ ReadOn
    <3>1. UNCHANGED <<buffers, job>>
      BY <2>6 DEF Lookup, Incomplete, ReadOn, workers
    <3>2. QED BY <2>6, <3>1, SameExact
  <2>7. CASE \/ \E q \in Requests : SendUnconnected(q) \/ SendUnencoded(q) \/ SendBegin(q) \/ Sender(q) \/ Writer(q)
                                      \/ Answer(q) \/ DoJob(q) \/ OnCloseDrain(q)
             \/ AnswerNobody \/ Close \/ OnCloseUnset \/ OnCloseLoad \/ OnCloseReads \/ OnCloseWrites
             \/ OnCloseReturn \/ UNCHANGED vars
    <3>1. UNCHANGED <<buffers, job, reader, buffer, target>>
      BY <2>7 DEF SendUnconnected, SendUnencoded, SendBegin, Sender, SendLink, SendCount, SendWrite, SendRefused, SendUndo,
            Writer, Transmit, WriteOk, WriteFailed, WriteCounted, Answer, DoJob, OnCloseDrain, AnswerNobody,
            Close, OnCloseUnset, OnCloseLoad, OnCloseReads, OnCloseWrites, OnCloseReturn, readers, workers,
            vars
    <3>2. QED BY <3>1, SameExact
  <2>8. QED BY <2>1, <2>2, <2>3, <2>4, <2>5, <2>6, <2>7 DEF Next, Reader, Worker, Closer
<1>4. QED BY <1>1, <1>2, <1>3, Exactness, TypeParts DEF BufferIInv

THEOREM BufferInvariance == Spec => []BufferIInv
<1>1. QED BY BufferInit, BufferStep, PTL DEF Spec

\* For any number of requests, however the client, the server and the close take turns:
\* clientFreeReadBuffer frees a read buffer with its last user and never before, and the
\* two counters onClose compares differ by the buffers that are alive and counted.
THEOREM ReadBuffersAreExact == Spec => []BufferRefsExact
<1>1. BufferIInv => BufferRefsExact
  BY DEF BufferIInv
<1>2. QED BY <1>1, BufferInvariance, PTL

-----------------------------------------------------------------------------
(* The outcome of a request *)

\* What a request's callback was given.
Silent == <<>>
Answered == <<"response">>
Broken == <<"write failed">>
Cut == <<"closed">>

Received(q) == write[q] \in {"sent", "counting", "done"}
Lost(q) == callbacks[q] \in {Broken, Cut}
Decoding(q) == reader = "decode" /\ found = q

\* Nothing happens to a request before it is written, but that onClose may answer it.
Unbegun(q) ==
    /\ sender[q] # "true" => /\ write[q] = "none" /\ job[q] = None /\ q \notin handled
                             /\ callbacks[q] \in {Silent, Cut}
    /\ sender[q] \in {"idle", "begun"} => callbacks[q] = Silent

\* Only what was sent is answered, and a request that was reported lost is not decoded.
Arrived(q) == /\ q \in InStream \/ Decoding(q) \/ job[q] # None => Received(q) /\ callbacks[q] # Broken
              /\ Decoding(q) \/ job[q] # None => callbacks[q] # Cut

Linked(q) == /\ q \in slot => /\ sender[q] \in {"linked", "counted", "refused", "true"}
                              /\ callbacks[q] = Silent /\ job[q] = None
             /\ sender[q] \in {"linked", "counted"} /\ link = "open" => q \in slot
             /\ Decoding(q) => callbacks[q] = Silent /\ job[q] = None /\ q \notin slot

\* An accepted request is in some place until its callback has run.
Placed(q) == sender[q] = "true" =>
                /\ write[q] # "none"
                /\ q \in slot \/ Decoding(q) \/ job[q] # None \/ Lost(q)

Outcome(q) == /\ callbacks[q] \in {Silent, Answered, Broken, Cut}
              /\ callbacks[q] = Answered <=> q \in handled
              /\ q \in handled => job[q] # None
              /\ job[q] = -1 => q \in handled
              /\ sender[q] = "true" /\ Lost(q) => refs[q] = 0 /\ write[q] \in {"counting", "done"}

ArgRefs(q) == /\ sender[q] \in {"begun", "linked", "counted"} /\ callbacks[q] = Silent => refs[q] = 2
              /\ sender[q] = "true" /\ ~Lost(q) =>
                    refs[q] = (IF write[q] \in {"queued", "sent"} THEN 1 ELSE 0)
                              + (IF job[q] # -1 THEN 1 ELSE 0)

Good(q) == Unbegun(q) /\ Arrived(q) /\ Linked(q) /\ Placed(q) /\ Outcome(q) /\ ArgRefs(q)

\* The writes that are counted as begun and not as done.
Pending == {q \in Requests : sender[q] = "counted" \/ write[q] \in {"queued", "sent", "counting"}}
WritesExact == started = finished + Cardinality(Pending)

Unwritten == \A q \in Requests : write[q] \in {"none", "done"}
Reads == {"read", "leave", "none"}

\* How far onClose has come, and what cannot happen any more.
Line == /\ conn <=> closer \in {"none", "onClose"}
        /\ link = "open" <=> closer = "none"
        /\ context <=> closer \notin {"drain", "end"}

ReadsOver ==
    /\ closer = "reads?" => loaded <= created /\ (loaded < created => reader \in Reads)
    /\ closer \in {"writes", "writes?", "drain", "end"} => reader \in Reads

WritesOver ==
    /\ closer = "writes?" => loaded = started
    /\ closer \in {"drain", "end"} => Unwritten

Phases == Line /\ ReadsOver /\ WritesOver

OutcomeIInv == BufferIInv /\ Phases /\ WritesExact /\ \A q \in Requests : Good(q)

-----------------------------------------------------------------------------
(* Results *)

LEMMA Results ==
  /\ Silent # Answered /\ Silent # Broken /\ Silent # Cut
  /\ Answered # Broken /\ Answered # Cut /\ Broken # Cut
  BY DEF Silent, Answered, Broken, Cut

LEMMA FirstCall ==
  /\ Append(Silent, "response") = Answered
  /\ Append(Silent, "write failed") = Broken
  /\ Append(Silent, "closed") = Cut
  BY DEF Silent, Answered, Broken, Cut

LEMMA Lengths == Len(Silent) = 0 /\ Len(Answered) = 1 /\ Len(Broken) = 1 /\ Len(Cut) = 1
  BY DEF Silent, Answered, Broken, Cut

LEMMA CalledBack ==
  ASSUME TypeOK, NEW q \in Requests, NEW r, CallBack(q, r), callbacks[q] = Silent
  PROVE  /\ \A p \in Requests : p # q => callbacks'[p] = callbacks[p]
         /\ callbacks'[q] = Append(Silent, r)
<1>1. DOMAIN callbacks = Requests
  BY TypeParts DEF CallbackTypes
<1>2. callbacks' = [callbacks EXCEPT ![q] = Append(callbacks[q], r)]
  BY DEF CallBack
<1>3. QED BY <1>1, <1>2

\* A request the server may answer was sent.
LEMMA SentRequests ==
  ASSUME NEW q \in Sent
  PROVE  Received(q) /\ callbacks[q] # Broken
<1>1. 1 \in DOMAIN Broken /\ Broken[1] = "write failed"
  BY DEF Broken
<1>2. QED BY <1>1 DEF Sent, Received

-----------------------------------------------------------------------------
(* Requests that a step leaves alone *)

Same(p) == /\ sender'[p] = sender[p] /\ refs'[p] = refs[p] /\ write'[p] = write[p] /\ job'[p] = job[p]
           /\ callbacks'[p] = callbacks[p]
           /\ p \in slot' <=> p \in slot
           /\ p \in handled' <=> p \in handled
           /\ p \in InStream' => p \in InStream
           /\ Decoding(p)' <=> Decoding(p)

LEMMA SameGood ==
  ASSUME NEW p \in Requests, Good(p), Same(p), link' = "open" => link = "open"
  PROVE  Good(p)'
<1>1. Received(p)' <=> Received(p)
  BY DEF Same, Received
<1>2. Lost(p)' <=> Lost(p)
  BY DEF Same, Lost
<1>3. Unbegun(p)' /\ Arrived(p)' /\ Linked(p)'
  BY <1>1, <1>2 DEF Same, Good, Unbegun, Arrived, Linked
<1>4. Placed(p)' /\ Outcome(p)' /\ ArgRefs(p)'
  BY <1>1, <1>2 DEF Same, Good, Placed, Outcome, ArgRefs
<1>5. QED BY <1>3, <1>4 DEF Good

\* A step of one request.
LEMMA OneRequest ==
  ASSUME \A p \in Requests : Good(p), NEW q \in Requests, link' = "open" => link = "open",
         \A p \in Requests : p # q => Same(p), Good(q)'
  PROVE  \A p \in Requests : Good(p)'
<1> TAKE p \in Requests
<1>1. CASE p = q
  BY <1>1
<1>2. CASE p # q
  BY <1>2, SameGood
<1>3. QED BY <1>1, <1>2

LEMMA Maps ==
  ASSUME TypeOK
  PROVE  /\ DOMAIN sender = Requests /\ DOMAIN refs = Requests /\ DOMAIN write = Requests
         /\ DOMAIN job = Requests
         /\ \A q \in Requests : /\ refs[q] \in Int /\ job[q] \in Buffers \cup {None, -1}
                                /\ sender[q] \in {"idle", "begun", "linked", "counted", "refused",
                                                  "true", "false"}
         /\ slot \subseteq Requests /\ handled \subseteq Requests
BY TypeParts DEF RequestTypes, BufferTypes

\* clientSendRequest
LEMMA SenderGood ==
  ASSUME TypeOK, Line, \A p \in Requests : Good(p), link' = "open" => link = "open",
         NEW q \in Requests,
         SendUnconnected(q) \/ SendUnencoded(q) \/ SendBegin(q) \/ Sender(q)
  PROVE  \A p \in Requests : Good(p)'
<1>0. /\ Good(q) /\ Unbegun(q) /\ Linked(q) /\ Placed(q) /\ ArgRefs(q) /\ Outcome(q) /\ Arrived(q)
      /\ DOMAIN sender = Requests /\ DOMAIN refs = Requests /\ DOMAIN write = Requests
  BY Maps DEF Good
<1>1. UNCHANGED <<finished, peer, readers, job, handled, callbacks>> \/ SendRefused(q)
  BY DEF SendUnconnected, SendUnencoded, SendBegin, Sender, SendLink, SendCount, SendWrite, SendUndo, writes, workers
<1>2. /\ UNCHANGED <<stream, reader, found, job, handled, callbacks>>
      /\ UNCHANGED InStream /\ \A p \in Requests : Decoding(p)' <=> Decoding(p)
      /\ \A p \in Requests : Lost(p)' <=> Lost(p)
  BY <1>1 DEF SendRefused, peer, readers, workers, InStream, Decoding, Lost
<1>3. \A p \in Requests : p # q => Same(p)
  <2>1. /\ \E x : sender' = [sender EXCEPT ![q] = x]
        /\ refs' = refs \/ \E x : refs' = [refs EXCEPT ![q] = x]
        /\ write' = write \/ \E x : write' = [write EXCEPT ![q] = x]
        /\ slot' \in {slot, slot \cup {q}, slot \ {q}}
    BY DEF SendUnconnected, SendUnencoded, SendBegin, Sender, SendLink, SendCount, SendWrite, SendRefused, SendUndo,
          args, writes
  <2>2. \A p \in Requests : p # q => sender'[p] = sender[p] /\ refs'[p] = refs[p] /\ write'[p] = write[p]
    BY <1>0, <2>1
  <2>3. QED BY <1>2, <2>1, <2>2 DEF Same
<1>4. CASE UNCHANGED <<slot, refs, write>> /\ q \notin slot
           /\ sender[q] # "true" /\ sender' = [sender EXCEPT ![q] = "false"]
  <2>1. sender'[q] = "false"
    BY <1>0, <1>4
  <2>2. Good(q)'
    BY <1>0, <1>2, <1>4, <2>1 DEF Good, Unbegun, Linked, Placed, ArgRefs, Outcome, Arrived, Received
  <2>3. QED BY <1>3, <2>2, OneRequest
<1>5. CASE SendUnconnected(q) \/ SendUnencoded(q)
  <2>1. q \notin slot
    BY <1>0, <1>5 DEF SendUnconnected, SendUnencoded, Linked
  <2>2. QED BY <1>4, <1>5, <2>1 DEF SendUnconnected, SendUnencoded, args, writes
<1>6. CASE SendBegin(q)
  <2>1. sender'[q] = "begun" /\ refs'[q] = 2 /\ slot' = slot /\ write' = write /\ sender[q] = "idle"
    BY <1>0, <1>6 DEF SendBegin, writes
  <2>2. Good(q)'
    BY <1>0, <1>2, <2>1 DEF Good, Unbegun, Linked, Placed, ArgRefs, Outcome, Arrived, Received, Lost
  <2>3. QED BY <1>3, <2>2, OneRequest
<1>7. CASE SendLink(q)
  <2>1. /\ sender'[q] = "linked" /\ refs' = refs /\ write' = write /\ sender[q] = "begun"
        /\ slot' \in {slot, slot \cup {q}} /\ (link' = "open" => q \in slot')
    BY <1>0, <1>7 DEF SendLink, writes, closing, Line
  <2>2. ~Decoding(q)
    BY <1>0, <2>1 DEF Arrived, Unbegun, Received
  <2>3. Good(q)'
    BY <1>0, <1>2, <2>1, <2>2 DEF Good, Unbegun, Linked, Placed, ArgRefs, Outcome, Arrived, Received, Lost
  <2>4. QED BY <1>3, <2>3, OneRequest
<1>8. CASE SendCount(q)
  <2>1. sender'[q] = "counted" /\ UNCHANGED <<refs, slot, write>> /\ sender[q] = "linked"
    BY <1>0, <1>8 DEF SendCount, writes, args
  <2>2. Good(q)'
    BY <1>0, <1>2, <2>1 DEF Good, Unbegun, Linked, Placed, ArgRefs, Outcome, Arrived, Received, Lost
  <2>3. QED BY <1>3, <2>2, OneRequest
<1>9. CASE SendWrite(q)
  <2>1. /\ sender'[q] = "true" /\ UNCHANGED <<refs, slot>> /\ write'[q] = "queued" /\ sender[q] = "counted"
    BY <1>0, <1>9 DEF SendWrite, args
  <2>2. q \in slot /\ job[q] = None /\ callbacks[q] = Silent /\ refs[q] = 2 /\ write[q] = "none" /\ ~Lost(q)
    BY <1>0, <1>9, <2>1, Results DEF SendWrite, Linked, Unbegun, ArgRefs, Lost
  <2>3. q \notin InStream /\ ~Decoding(q) /\ None # -1
    BY <1>0, <2>2 DEF Arrived, Received, None
  <2>4. Good(q)'
    BY <1>0, <1>2, <2>1, <2>2, <2>3 DEF Good, Unbegun, Linked, Placed, ArgRefs, Outcome, Arrived, Received
  <2>5. QED BY <1>3, <2>4, OneRequest
<1>10. CASE SendRefused(q)
  <2>1. sender'[q] = "refused" /\ UNCHANGED <<refs, slot, write>> /\ sender[q] = "counted"
    BY <1>0, <1>10 DEF SendRefused, args
  <2>2. Good(q)'
    BY <1>0, <1>2, <2>1 DEF Good, Unbegun, Linked, Placed, ArgRefs, Outcome, Arrived, Received, Lost
  <2>3. QED BY <1>3, <2>2, OneRequest
<1>11. CASE SendUndo(q)
  <2>1. /\ sender'[q] = "false" /\ slot' = slot \ {q} /\ write' = write
        /\ sender[q] = "refused"
    BY <1>0, <1>11 DEF SendUndo, writes
  <2>2. Good(q)'
    BY <1>0, <1>2, <2>1 DEF Good, Unbegun, Linked, Placed, ArgRefs, Outcome, Arrived, Received
  <2>3. QED BY <1>3, <2>2, OneRequest
<1>12. QED BY <1>5, <1>6, <1>7, <1>8, <1>9, <1>10, <1>11 DEF Sender

\* The connection's thread and clientWriteCallback
LEMMA WriterGood ==
  ASSUME TypeOK, \A p \in Requests : Good(p), link' = "open" => link = "open",
         NEW q \in Requests, Writer(q)
  PROVE  \A p \in Requests : Good(p)'
<1>0. /\ Good(q) /\ Unbegun(q) /\ Linked(q) /\ Placed(q) /\ ArgRefs(q) /\ Outcome(q) /\ Arrived(q)
      /\ DOMAIN refs = Requests /\ DOMAIN write = Requests /\ refs[q] \in Int
  BY Maps DEF Good
<1>1. /\ UNCHANGED <<sender, stream, reader, found, job, handled>>
      /\ UNCHANGED InStream /\ \A p \in Requests : Decoding(p)' <=> Decoding(p)
  BY DEF Writer, Transmit, WriteOk, WriteFailed, WriteCounted, senders, peer, readers, workers, InStream,
        Decoding
<1>2. write[q] # "none" /\ sender[q] = "true"
  BY <1>0 DEF Writer, Transmit, WriteOk, WriteFailed, WriteCounted, Unbegun
<1>3. CASE WriteFailed(q)
  <2>1. /\ write[q] = "queued" /\ write'[q] = "counting" /\ refs'[q] = 0 /\ slot' = slot \ {q}
        /\ CallBack(q, "write failed")
        /\ \A p \in Requests : p # q => write'[p] = write[p] /\ refs'[p] = refs[p]
    BY <1>0, <1>3 DEF WriteFailed
  <2>2. ~Decoding(q) /\ q \notin InStream /\ job[q] = None /\ ~Lost(q)
    BY <1>0, <1>2, <2>1 DEF Arrived, Received, Outcome
  <2>3. callbacks[q] = Silent /\ q \notin handled
    BY <1>0, <1>2, <2>2 DEF Placed, Linked, Outcome
  <2>4. callbacks'[q] = Broken /\ \A p \in Requests : p # q => callbacks'[p] = callbacks[p]
    BY <2>1, <2>3, CalledBack, FirstCall
  <2>5. \A p \in Requests : p # q => Same(p)
    BY <1>1, <2>1, <2>4 DEF Same
  <2>6. Good(q)'
    BY <1>1, <1>2, <2>1, <2>2, <2>3, <2>4, Results, BufferNumbers
       DEF Good, Unbegun, Linked, Placed, ArgRefs, Outcome, Arrived, Received, Lost, None
  <2>7. QED BY <2>5, <2>6, OneRequest
<1>4. CASE ~WriteFailed(q)
  <2>1. UNCHANGED <<slot, callbacks>> /\ (refs' = refs \/ refs' = [refs EXCEPT ![q] = refs[q] - 1])
        /\ \E x : write' = [write EXCEPT ![q] = x]
    BY <1>4 DEF Writer, Transmit, WriteOk, WriteCounted, args, workers
  <2>2. \A p \in Requests : p # q => Same(p)
    <3>1. \A p \in Requests : p # q => write'[p] = write[p] /\ refs'[p] = refs[p]
      BY <1>0, <2>1
    <3>2. QED BY <1>1, <2>1, <3>1 DEF Same
  <2>3. Lost(q)' <=> Lost(q)
    BY <2>1 DEF Lost
  <2>4. CASE Transmit(q)
    <3>1. write[q] = "queued" /\ write'[q] = "sent" /\ refs' = refs
      BY <1>0, <2>4 DEF Transmit, args
    <3>2. ~Lost(q)
      BY <1>0, <1>2, <3>1 DEF Outcome
    <3>3. Good(q)'
      BY <1>0, <1>1, <1>2, <2>1, <2>3, <3>1, <3>2 DEF Good, Unbegun, Linked, Placed, ArgRefs, Outcome, Arrived,
            Received
    <3>4. QED BY <2>2, <3>3, OneRequest
  <2>5. CASE WriteOk(q)
    <3>1. write[q] = "sent" /\ write'[q] = "counting" /\ refs'[q] = refs[q] - 1
      BY <1>0, <2>5 DEF WriteOk
    <3>2. ~Lost(q)
      BY <1>0, <1>2, <3>1 DEF Outcome
    <3>3. refs'[q] = IF job[q] # -1 THEN 1 ELSE 0
      BY <1>0, <1>2, <3>1, <3>2 DEF ArgRefs
    <3>4. ArgRefs(q)'
      BY <1>1, <1>2, <3>1, <3>3 DEF ArgRefs
    <3>5. Good(q)'
      BY <1>0, <1>1, <1>2, <2>1, <2>3, <3>1, <3>2, <3>4 DEF Good, Unbegun, Linked, Placed, Outcome, Arrived,
            Received
    <3>6. QED BY <2>2, <3>5, OneRequest
  <2>6. CASE WriteCounted(q)
    <3>1. write[q] = "counting" /\ write'[q] = "done" /\ refs' = refs
      BY <1>0, <2>6 DEF WriteCounted, args
    <3>2. Good(q)'
      BY <1>0, <1>1, <1>2, <2>1, <2>3, <3>1 DEF Good, Unbegun, Linked, Placed, ArgRefs, Outcome, Arrived, Received
    <3>3. QED BY <2>2, <3>2, OneRequest
  <2>7. QED BY <1>4, <2>4, <2>5, <2>6 DEF Writer
<1>5. QED BY <1>3, <1>4

\* The server answers.
LEMMA AnswerGood ==
  ASSUME TypeOK, \A p \in Requests : Good(p), link' = "open" => link = "open",
         AnswerNobody \/ \E q \in Requests : Answer(q)
  PROVE  \A p \in Requests : Good(p)'
<1>0. stream \in Seq(Requests \cup {Stray})
  BY TypeParts DEF ReadTypes
<1>1. /\ UNCHANGED <<sender, refs, write, job, callbacks, slot, handled, reader, found>>
      /\ \A p \in Requests : Decoding(p)' <=> Decoding(p)
  BY DEF AnswerNobody, Answer, senders, args, writes, readers, workers, Decoding
<1>2. ASSUME NEW q \in Requests \cup {Stray}, stream' = Append(stream, q)
      PROVE  InStream' = InStream \cup {q}
  <2>1. /\ Len(stream') = Len(stream) + 1 /\ Len(stream) \in Nat
        /\ stream'[Len(stream) + 1] = q
        /\ \A i \in 1..Len(stream) : stream'[i] = stream[i]
        /\ DOMAIN stream = 1..Len(stream) /\ DOMAIN stream' = 1..Len(stream')
    BY <1>0, <1>2, AppendProperties, LenProperties
  <2>2. DOMAIN stream' = DOMAIN stream \cup {Len(stream) + 1}
    BY <2>1
  <2>3. QED BY <2>1, <2>2 DEF InStream
<1>3. ASSUME NEW q \in Requests, Answer(q) PROVE \A p \in Requests : Good(p)'
  <2>1. q \in Sent /\ InStream' = InStream \cup {q}
    BY <1>2, <1>3 DEF Answer
  <2>2. \A p \in Requests : p # q => Same(p)
    BY <1>1, <2>1 DEF Same
  <2>3. Received(q) /\ callbacks[q] # Broken
    BY <2>1, SentRequests
  <2>4. Good(q)'
    BY <1>1, <2>3 DEF Good, Unbegun, Linked, Placed, ArgRefs, Outcome, Arrived, Received, Lost
  <2>5. QED BY <2>2, <2>4, OneRequest
<1>4. CASE AnswerNobody
  <2>1. InStream' = InStream \cup {Stray}
    BY <1>2, <1>4 DEF AnswerNobody
  <2>2. \A p \in Requests : Same(p)
    BY <1>1, <2>1, ClientAssumption DEF Same, Stray
  <2>3. QED BY <2>2, SameGood
<1>5. QED BY <1>3, <1>4

\* clientReadCallback
LEMMA ReaderGood ==
  ASSUME TypeOK, Links, Chunked, \A p \in Requests : Good(p), link' = "open" => link = "open",
         Reader
  PROVE  \A p \in Requests : Good(p)'
<1>0. DOMAIN job = Requests /\ slot \subseteq Requests
  BY Maps
<1>1. CASE Lookup
  <2>1. /\ reader = "parse" /\ reader' = "decode" /\ found' \in slot /\ slot' = slot \ {found'}
        /\ found' = Head(stream)
        /\ UNCHANGED <<sender, refs, write, job, callbacks, handled, stream>>
    BY <1>1 DEF Lookup, senders, writes, workers, peer
  <2>2. found' \in InStream
    <3>1. stream \in Seq(Requests \cup {Stray}) /\ chunk \in Nat
      BY TypeParts DEF ReadTypes
    <3>2. stream # <<>>
      BY <1>1, <3>1, EmptySeq DEF Lookup, Chunked
    <3>3. 1 \in DOMAIN stream /\ Head(stream) = stream[1]
      BY <3>1, <3>2
    <3>4. QED BY <2>1, <3>3 DEF InStream
  <2>3. PICK q \in Requests : q = found'
    BY <1>0, <2>1
  <2>4. InStream' = InStream /\ Decoding(q)' /\ ~Decoding(q)
    BY <2>1, <2>3 DEF InStream, Decoding
  <2>5. \A p \in Requests : p # q => Same(p)
    BY <2>1, <2>3, <2>4 DEF Same, Decoding
  <2>6. Good(q)'
    BY <2>1, <2>2, <2>3, <2>4, Results DEF Good, Unbegun, Linked, Placed, ArgRefs, Outcome, Arrived, Received, Lost
  <2>7. QED BY <2>5, <2>6, OneRequest
<1>2. CASE Decode
  <2>1. PICK q \in Requests : q = found
    BY <1>2 DEF Decode, Links
  <2>2. /\ reader = "decode" /\ reader' = "parse" /\ job' = [job EXCEPT ![q] = buffer] /\ buffer \in Buffers
        /\ stream' = Tail(stream)
        /\ UNCHANGED <<sender, refs, write, slot, callbacks, handled>>
    BY <1>2, <2>1, TypeParts DEF Decode, senders, args, writes, workers, ReadTypes
  <2>3. InStream' \subseteq InStream
    <3>1. stream \in Seq(Requests \cup {Stray}) /\ chunk \in Nat
      BY TypeParts DEF ReadTypes
    <3>2. stream # <<>>
      BY <1>2, <3>1, EmptySeq DEF Decode, Chunked
    <3>3. \A i \in DOMAIN stream' : i + 1 \in DOMAIN stream /\ stream'[i] = stream[i + 1]
      BY <2>2, <3>1, <3>2
    <3>4. QED BY <3>3 DEF InStream
  <2>4. Decoding(q) /\ \A p \in Requests : ~Decoding(p)'
    BY <2>1, <2>2 DEF Decoding
  <2>5. \A p \in Requests : p # q => Same(p)
    BY <1>0, <2>1, <2>2, <2>3, <2>4 DEF Same, Decoding
  <2>6. job[q] = None /\ job'[q] # None /\ job'[q] # -1 /\ None # -1
    BY <1>0, <2>1, <2>2, <2>4, BufferNumbers DEF Links, None
  <2>7. Good(q)'
    BY <2>2, <2>3, <2>4, <2>6 DEF Good, Unbegun, Linked, Placed, ArgRefs, Outcome, Arrived, Received, Lost
  <2>8. QED BY <2>5, <2>7, OneRequest
<1>3. CASE Incomplete
  <2>1. PICK q \in Requests : q = found
    BY <1>3 DEF Incomplete, Links
  <2>2. /\ reader = "decode" /\ reader' = "parse" /\ slot' = slot \cup {q}
        /\ UNCHANGED <<sender, refs, write, job, callbacks, handled, stream>>
    BY <1>3, <2>1 DEF Incomplete, senders, writes, workers, peer
  <2>3. InStream' = InStream /\ Decoding(q) /\ \A p \in Requests : ~Decoding(p)'
    BY <2>1, <2>2 DEF InStream, Decoding
  <2>4. \A p \in Requests : p # q => Same(p)
    BY <2>1, <2>2, <2>3 DEF Same, Decoding
  <2>5. Good(q)'
    BY <2>2, <2>3 DEF Good, Unbegun, Linked, Placed, ArgRefs, Outcome, Arrived, Received, Lost
  <2>6. QED BY <2>4, <2>5, OneRequest
<1>4. CASE \/ ReadOk \/ ReadFailed \/ Unknown \/ ReadOn \/ ReadAnew \/ ReadCount \/ ReadPosted
           \/ ReadRefused \/ ReadLeave
  <2>1. /\ UNCHANGED <<sender, refs, write, job, callbacks, slot, handled, stream>>
        /\ reader # "decode" /\ reader' # "decode"
    BY <1>4 DEF ReadOk, ReadFailed, Unknown, ReadOn, ReadAnew, ReadCount, ReadPosted, ReadRefused, ReadLeave,
          senders, args, writes, workers, peer
  <2>2. \A p \in Requests : Same(p)
    BY <2>1 DEF Same, InStream, Decoding
  <2>3. QED BY <2>2, SameGood
<1>5. QED BY <1>1, <1>2, <1>3, <1>4 DEF Reader

\* clientDoJob and clientFreeResp
LEMMA WorkerGood ==
  ASSUME TypeOK, \A p \in Requests : Good(p), link' = "open" => link = "open",
         NEW q \in Requests, Worker(q)
  PROVE  \A p \in Requests : Good(p)'
<1>0. /\ Good(q) /\ Unbegun(q) /\ Linked(q) /\ Placed(q) /\ ArgRefs(q) /\ Outcome(q) /\ Arrived(q)
      /\ DOMAIN refs = Requests /\ DOMAIN job = Requests /\ refs[q] \in Int
  BY Maps DEF Good
<1>1. /\ UNCHANGED <<sender, stream, reader, found, slot, write>> /\ job[q] \in Buffers
      /\ UNCHANGED InStream /\ \A p \in Requests : Decoding(p)' <=> Decoding(p)
  BY DEF Worker, DoJob, FreeResp, senders, args, writes, peer, readers, InStream, Decoding
<1>2. job[q] # None /\ job[q] # -1 /\ ~Lost(q) /\ ~Decoding(q) /\ q \notin slot /\ sender[q] = "true"
  BY <1>0, <1>1, BufferNumbers DEF Arrived, Lost, Linked, Unbegun
<1>3. CASE DoJob(q)
  <2>1. /\ q \notin handled /\ handled' = handled \cup {q} /\ UNCHANGED <<refs, job>>
        /\ CallBack(q, "response")
    BY <1>3 DEF DoJob, args
  <2>2. callbacks[q] = Silent
    BY <1>0, <1>2, <2>1 DEF Outcome, Lost
  <2>3. callbacks'[q] = Answered /\ \A p \in Requests : p # q => callbacks'[p] = callbacks[p]
    BY <2>1, <2>2, CalledBack, FirstCall
  <2>4. \A p \in Requests : p # q => Same(p)
    BY <1>1, <2>1, <2>3 DEF Same
  <2>5. Good(q)'
    BY <1>0, <1>1, <1>2, <2>1, <2>3, Results
       DEF Good, Unbegun, Linked, Placed, ArgRefs, Outcome, Arrived, Received, Lost
  <2>6. QED BY <2>4, <2>5, OneRequest
<1>4. CASE FreeResp(q)
  <2>1. /\ q \in handled /\ refs'[q] = refs[q] - 1 /\ job'[q] = -1 /\ UNCHANGED <<handled, callbacks>>
        /\ \A p \in Requests : p # q => refs'[p] = refs[p] /\ job'[p] = job[p]
    BY <1>0, <1>4 DEF FreeResp
  <2>2. \A p \in Requests : p # q => Same(p)
    BY <1>1, <2>1 DEF Same
  <2>3. refs'[q] = IF write[q] \in {"queued", "sent"} THEN 1 ELSE 0
    BY <1>0, <1>2, <2>1 DEF ArgRefs
  <2>4. ArgRefs(q)' /\ -1 # None
    BY <1>1, <1>2, <2>1, <2>3 DEF ArgRefs, None
  <2>5. Good(q)'
    BY <1>0, <1>1, <1>2, <2>1, <2>4 DEF Good, Unbegun, Linked, Placed, Outcome, Arrived, Received, Lost
  <2>6. QED BY <2>2, <2>5, OneRequest
<1>5. QED BY <1>3, <1>4 DEF Worker

\* clientOnClose answers what is linked.
LEMMA DrainGood ==
  ASSUME TypeOK, Phases, \A p \in Requests : Good(p), link' = "open" => link = "open",
         NEW q \in Requests, OnCloseDrain(q)
  PROVE  \A p \in Requests : Good(p)'
<1>0. /\ Good(q) /\ Unbegun(q) /\ Linked(q) /\ Placed(q) /\ ArgRefs(q) /\ Outcome(q) /\ Arrived(q)
      /\ DOMAIN refs = Requests
  BY Maps DEF Good
<1>1. /\ UNCHANGED <<sender, stream, reader, found, write, job, handled>> /\ q \in slot
      /\ slot' = slot \ {q} /\ CallBack(q, "closed") /\ refs' = [refs EXCEPT ![q] = 0]
      /\ UNCHANGED InStream /\ \A p \in Requests : Decoding(p)' <=> Decoding(p)
  BY DEF OnCloseDrain, senders, writes, peer, readers, InStream, Decoding
<1>2. /\ callbacks[q] = Silent /\ job[q] = None /\ reader # "decode" /\ link # "open"
      /\ sender[q] \in {"linked", "counted", "refused", "true"}
  BY <1>0, <1>1 DEF OnCloseDrain, Linked, Phases, Line, ReadsOver, Reads
<1>3. sender[q] = "true" => write[q] = "done"
  BY <1>0, <1>1 DEF OnCloseDrain, Placed, Phases, WritesOver, Unwritten
<1>4. callbacks'[q] = Cut /\ \A p \in Requests : p # q => callbacks'[p] = callbacks[p]
  BY <1>1, <1>2, CalledBack, FirstCall
<1>5. refs'[q] = 0 /\ \A p \in Requests : p # q => refs'[p] = refs[p]
  BY <1>0, <1>1
<1>6. \A p \in Requests : p # q => Same(p)
  BY <1>1, <1>4, <1>5 DEF Same
<1>7. ~Decoding(q) /\ q \notin handled /\ None # -1
  BY <1>0, <1>2 DEF Decoding, Outcome, None
<1>8. Good(q)'
  BY <1>0, <1>1, <1>2, <1>3, <1>4, <1>5, <1>7, Results
     DEF Good, Unbegun, Linked, Placed, ArgRefs, Outcome, Arrived, Received, Lost
<1>9. QED BY <1>6, <1>8, OneRequest

-----------------------------------------------------------------------------
(* The writes *)

LEMMA PendingFinite == IsFiniteSet(Pending) /\ Cardinality(Pending) \in Nat
<1>1. IsFiniteSet(Requests) /\ Pending \subseteq Requests
  BY ClientAssumption DEF Pending
<1>2. QED BY <1>1, FS_Subset, FS_CardinalityType

\* write_counter and write_done_counter differ by the writes that are pending.
LEMMA WritesStep ==
  ASSUME TypeOK, WritesExact, \A p \in Requests : Good(p), [Next]_vars
  PROVE  WritesExact'
<1>0. /\ DOMAIN sender = Requests /\ DOMAIN write = Requests /\ started \in Nat /\ finished \in Nat
      /\ Cardinality(Pending) \in Nat
  BY Maps, PendingFinite, TypeParts DEF RequestTypes
<1>1. ASSUME NEW q \in Requests, SendUnconnected(q) \/ SendUnencoded(q) \/ SendBegin(q) \/ Sender(q) \/ Writer(q)
      PROVE  WritesExact'
  <2>1. /\ Good(q) /\ Unbegun(q)
        /\ sender' = sender \/ \E x : sender' = [sender EXCEPT ![q] = x]
        /\ write' = write \/ \E x : write' = [write EXCEPT ![q] = x]
    BY <1>1 DEF SendUnconnected, SendUnencoded, SendBegin, Sender, SendLink, SendCount, SendWrite, SendRefused, SendUndo,
          Writer, Transmit, WriteOk, WriteFailed, WriteCounted, senders, writes, Good
  <2>2. \A p \in Requests : p # q => sender'[p] = sender[p] /\ write'[p] = write[p]
    BY <1>0, <2>1
  <2>3. Pending' = IF q \in Pending' THEN Pending \cup {q} ELSE Pending \ {q}
    BY <2>2 DEF Pending
  <2>4. CASE SendCount(q)
    <3>1. q \in Pending' /\ q \notin Pending /\ started' = started + 1 /\ finished' = finished
      BY <1>0, <2>1, <2>4 DEF SendCount, Unbegun, Pending, writes
    <3>2. Cardinality(Pending') = Cardinality(Pending) + 1
      BY <2>3, <3>1, PendingFinite, AddAndRemove
    <3>3. QED BY <1>0, <3>1, <3>2 DEF WritesExact
  <2>5. CASE SendRefused(q) \/ WriteCounted(q)
    <3>1. q \notin Pending' /\ q \in Pending /\ started' = started /\ finished' = finished + 1
      BY <1>0, <2>1, <2>5 DEF SendRefused, WriteCounted, Unbegun, Pending, senders
    <3>2. Cardinality(Pending') = Cardinality(Pending) - 1
      BY <2>3, <3>1, PendingFinite, AddAndRemove
    <3>3. QED BY <1>0, <3>1, <3>2 DEF WritesExact
  <2>6. CASE ~(SendCount(q) \/ SendRefused(q) \/ WriteCounted(q))
    <3>1. (q \in Pending' <=> q \in Pending) /\ started' = started /\ finished' = finished
      BY <1>0, <1>1, <2>1, <2>6 DEF SendUnconnected, SendUnencoded, SendBegin, Sender, SendLink, SendWrite, SendUndo, Writer,
            Transmit, WriteOk, WriteFailed, Unbegun, Pending, senders, writes
    <3>2. Pending' = Pending
      BY <2>3, <3>1
    <3>3. QED BY <3>1, <3>2 DEF WritesExact
  <2>7. QED BY <2>4, <2>5, <2>6
<1>2. CASE UNCHANGED <<sender, write, started, finished>>
  BY <1>2 DEF WritesExact, Pending
<1>3. QED BY <1>1, <1>2 DEF Next, Answer, AnswerNobody, Worker, DoJob, FreeResp, Reader, ReadOk, ReadFailed,
        Lookup, Unknown, Decode, Incomplete, ReadOn, ReadAnew, ReadCount, ReadPosted, ReadRefused, ReadLeave,
        Close, Closer, OnCloseUnset, OnCloseLoad, OnCloseReads, OnCloseWrites, OnCloseReturn, OnCloseDrain,
        senders, writes, vars

-----------------------------------------------------------------------------
(* clientOnClose *)

\* What is not a step of the close leaves its control point, or begins it.
LEMMA ClosingSteps ==
  ASSUME [Next]_vars, ~Closer
  PROVE  /\ conn' = conn /\ context' = context /\ loaded' = loaded
         /\ \/ closer' = closer /\ link' = link
            \/ link = "open" /\ link' = "closing" /\ closer' = "onClose"
BY DEF Next, SendUnconnected, SendUnencoded, SendBegin, Sender, SendLink, SendCount, SendWrite, SendRefused, SendUndo, Writer,
      Transmit, WriteOk, WriteFailed, WriteCounted, Answer, AnswerNobody, Worker, DoJob, FreeResp, Reader, ReadOk,
      ReadFailed, Lookup, Unknown, Decode, Incomplete, ReadOn, ReadAnew, ReadCount, ReadPosted, ReadRefused,
      ReadLeave, Close, senders, closing, vars

LEMMA LineStep == TypeOK /\ Line /\ [Next]_vars => Line'
<1> SUFFICES ASSUME TypeOK, Line, [Next]_vars PROVE Line'
  OBVIOUS
<1>1. CASE ~Closer
  BY <1>1, ClosingSteps DEF Line
<1>2. CASE OnCloseUnset
  BY <1>2 DEF OnCloseUnset, Line
<1>3. CASE OnCloseLoad
  BY <1>3 DEF OnCloseLoad, Line, senders
<1>4. CASE OnCloseReads
  BY <1>4 DEF OnCloseReads, Line, senders
<1>5. CASE OnCloseWrites
  <2>1. /\ conn' = conn /\ link' = link /\ closer = "writes?"
        /\ closer' \in {"drain", "writes"} /\ (context' <=> closer' = "writes")
    BY <1>5 DEF OnCloseWrites, senders
  <2>2. QED BY <2>1 DEF Line
<1>6. CASE OnCloseReturn
  BY <1>6 DEF OnCloseReturn, Line, senders
<1>7. CASE \E q \in Requests : OnCloseDrain(q)
  BY <1>7 DEF OnCloseDrain, Line, senders, closing
<1>8. QED BY <1>1, <1>2, <1>3, <1>4, <1>5, <1>6, <1>7 DEF Closer

\* When every buffer that was counted is freed, no read is posted and no callback decodes.
LEMMA NoneLive ==
  ASSUME BufferIInv, created = released
  PROVE  reader \in Reads
<1>0. /\ TypeOK /\ RefsExact /\ CounterExact /\ Fresh /\ created \in Nat
      /\ buffer \in Buffers /\ target \in Buffers
      /\ reader \in {"posted", "parse", "decode", "count", "read", "leave", "none"}
  <2>1. TypeOK /\ RefsExact /\ CounterExact /\ Fresh
    BY Exactness DEF BufferIInv
  <2>2. QED BY <2>1, TypeParts DEF ReadTypes, BufferTypes
<1>1. Cardinality(Live) = If(reader = "count") /\ IsFiniteSet(Live) /\ Cardinality(Live) \in Nat
  BY <1>0, FinitelyMany DEF CounterExact, If
<1>2. \A b \in Buffers : ReadHolds(b) > 0 => b \in Live
  BY <1>0, UsersType DEF RefsExact, Users, Live
<1>3. CASE reader \in {"posted", "parse", "decode"}
  <2>1. ReadHolds(buffer) > 0
    BY <1>3, Holding
  <2>2. buffer \in Live /\ Cardinality(Live) = 0
    BY <1>0, <1>1, <1>2, <1>3, <2>1 DEF If
  <2>3. QED BY <1>1, <2>2, FS_EmptySet
<1>4. CASE reader = "count"
  <2>1. ReadHolds(buffer) > 0 /\ ReadHolds(target) > 0 /\ buffer # target
    <3>1. buffer # target
      BY <1>0, <1>4 DEF Fresh
    <3>2. \A b : ReadHolds(b) = (IF b = buffer THEN 1 ELSE 0) + (IF b = target THEN 1 ELSE 0)
      BY <1>4, Holding
    <3>3. QED BY <3>1, <3>2
  <2>2. buffer \in Live /\ target \in Live /\ Cardinality(Live) = 1
    BY <1>0, <1>1, <1>2, <1>4, <2>1 DEF If
  <2>3. Cardinality(Live \ {buffer}) = 0 /\ IsFiniteSet(Live \ {buffer}) /\ target \in Live \ {buffer}
    BY <1>1, <2>1, <2>2, AddAndRemove, FS_Subset
  <2>4. QED BY <2>3, FS_EmptySet
<1>5. QED BY <1>0, <1>3, <1>4 DEF Reads

\* On a connection that closes no read is posted any more.
LEMMA ReadsStay ==
  ASSUME [Next]_vars, link # "open", reader \in Reads
  PROVE  reader' \in Reads /\ created' = created
BY DEF Next, SendUnconnected, SendUnencoded, SendBegin, Sender, SendLink, SendCount, SendWrite, SendRefused, SendUndo, Writer,
      Transmit, WriteOk, WriteFailed, WriteCounted, Answer, AnswerNobody, Worker, DoJob, FreeResp, Reader, ReadOk,
      ReadFailed, Lookup, Unknown, Decode, Incomplete, ReadOn, ReadAnew, ReadCount, ReadPosted, ReadRefused,
      ReadLeave, Close, Closer, OnCloseUnset, OnCloseLoad, OnCloseReads, OnCloseWrites, OnCloseReturn,
      OnCloseDrain, readers, buffers, vars, Reads

LEMMA ReadsOverStep ==
  ASSUME BufferIInv, Line, ReadsOver, [Next]_vars
  PROVE  ReadsOver'
<1>0. TypeOK /\ created \in Nat /\ loaded \in Nat
  BY Exactness, TypeParts DEF BufferIInv, LineTypes, BufferTypes
<1>1. reader \in Reads /\ link # "open" => reader' \in Reads
  BY ReadsStay
<1>2. CASE ~Closer
  <2>1. CASE closer' = closer /\ link' = link
    <3>1. loaded' = loaded
      BY <1>2, ClosingSteps
    <3>2. created' = created \/ (created' = created + 1 /\ reader' = "read")
      BY <1>2 DEF Next, SendUnconnected, SendUnencoded, SendBegin, Sender, SendLink, SendCount, SendWrite, SendRefused,
            SendUndo, Writer, Transmit, WriteOk, WriteFailed, WriteCounted, Answer, AnswerNobody, Worker, DoJob,
            FreeResp, Reader, ReadOk, ReadFailed, Lookup, Unknown, Decode, Incomplete, ReadOn, ReadAnew, ReadCount,
            ReadPosted, ReadRefused, ReadLeave, Close, buffers, vars
    <3>3. closer \in {"reads?", "writes", "writes?", "drain", "end"} => link # "open"
      BY DEF Line
    <3>4. closer' = "reads?" => loaded' <= created' /\ (loaded' < created' => reader' \in Reads)
      BY <1>0, <1>1, <2>1, <3>1, <3>2, <3>3 DEF ReadsOver, Reads
    <3>5. closer' \in {"writes", "writes?", "drain", "end"} => reader' \in Reads
      BY <1>1, <2>1, <3>3 DEF ReadsOver
    <3>6. QED BY <3>4, <3>5 DEF ReadsOver
  <2>2. CASE closer' = "onClose"
    BY <2>2 DEF ReadsOver
  <2>3. QED BY <1>2, <2>1, <2>2, ClosingSteps
<1>3. CASE OnCloseLoad
  <2>1. /\ \/ closer = "reads" /\ loaded' = created /\ closer' = "reads?"
           \/ closer = "writes" /\ closer' = "writes?"
        /\ reader' = reader /\ created' = created
    BY <1>3 DEF OnCloseLoad, readers, buffers
  <2>2. QED BY <1>0, <2>1 DEF ReadsOver
<1>4. CASE OnCloseReads
  <2>1. closer = "reads?" /\ reader' = reader /\ closer' = IF loaded = released THEN "writes" ELSE "reads"
    BY <1>4 DEF OnCloseReads, readers
  <2>2. loaded = released => reader \in Reads
    BY <1>0, <2>1, NoneLive DEF ReadsOver
  <2>3. QED BY <2>1, <2>2 DEF ReadsOver
<1>5. CASE OnCloseUnset
  BY <1>5 DEF OnCloseUnset, ReadsOver
<1>6. CASE OnCloseWrites \/ OnCloseReturn \/ \E q \in Requests : OnCloseDrain(q)
  <2>1. closer \in {"writes?", "drain"} /\ closer' # "reads?" /\ reader' = reader
    BY <1>6 DEF OnCloseWrites, OnCloseReturn, OnCloseDrain, readers, closing
  <2>2. QED BY <2>1 DEF ReadsOver
<1>7. QED BY <1>2, <1>3, <1>4, <1>5, <1>6 DEF Closer

\* Once the connection refuses, no write is begun.
LEMMA UnwrittenStays ==
  ASSUME TypeOK, Unwritten, link # "open", [Next]_vars
  PROVE  Unwritten'
<1>1. \A q \in Requests : ~SendWrite(q) /\ ~Transmit(q) /\ ~WriteOk(q) /\ ~WriteFailed(q) /\ ~WriteCounted(q)
  BY DEF SendWrite, Transmit, WriteOk, WriteFailed, WriteCounted, Unwritten
<1>2. write' = write
  BY <1>1 DEF Next, SendUnconnected, SendUnencoded, SendBegin, Sender, SendLink, SendCount, SendRefused,
        SendUndo, Writer, Answer, AnswerNobody, Worker, DoJob, FreeResp, Reader, ReadOk, ReadFailed, Lookup,
        Unknown, Decode, Incomplete, ReadOn, ReadAnew, ReadCount, ReadPosted, ReadRefused, ReadLeave, Close,
        Closer, OnCloseUnset, OnCloseLoad, OnCloseReads, OnCloseWrites, OnCloseReturn, OnCloseDrain, writes,
        vars
<1>3. QED BY <1>2 DEF Unwritten

\* Under Quiet no write is counted between the two loads of the comparison.
LEMMA NoneCounted ==
  ASSUME Quiet, closer = "writes?", [Next]_vars
  PROVE  started' = started
BY DEF Next, SendUnconnected, SendUnencoded, SendBegin, Sender, SendLink, SendCount, SendWrite, SendRefused,
      SendUndo, Writer, Transmit, WriteOk, WriteFailed, WriteCounted, Answer, AnswerNobody, Worker, DoJob,
      FreeResp, Reader, ReadOk, ReadFailed, Lookup, Unknown, Decode, Incomplete, ReadOn, ReadAnew, ReadCount,
      ReadPosted, ReadRefused, ReadLeave, Close, Closer, OnCloseUnset, OnCloseLoad, OnCloseReads,
      OnCloseWrites, OnCloseReturn, OnCloseDrain, senders, vars

LEMMA WritesOverStep ==
  ASSUME Quiet, TypeOK, Line, WritesExact, WritesOver, [Next]_vars
  PROVE  WritesOver'
<1>0. /\ started \in Nat /\ finished \in Nat
      /\ write \in [Requests -> {"none", "queued", "sent", "counting", "done"}]
  BY TypeParts DEF RequestTypes
<1>1. CASE closer' = closer /\ loaded' = loaded
  <2>1. closer \in {"drain", "end"} => Unwritten'
    BY UnwrittenStays DEF WritesOver, Line
  <2>2. QED BY <1>1, <2>1, NoneCounted DEF WritesOver
<1>2. CASE ~Closer
  BY <1>1, <1>2, ClosingSteps DEF WritesOver
<1>3. CASE OnCloseUnset
  BY <1>3 DEF OnCloseUnset, WritesOver
<1>4. CASE OnCloseLoad
  BY <1>4 DEF OnCloseLoad, WritesOver, senders
<1>5. CASE OnCloseReads
  BY <1>5 DEF OnCloseReads, WritesOver
<1>6. CASE OnCloseWrites
  <2>1. /\ closer = "writes?" /\ closer' = IF loaded = finished THEN "drain" ELSE "writes"
        /\ write' = write
    BY <1>6 DEF OnCloseWrites, writes
  <2>2. loaded = finished => Pending = {}
    <3>1. IsFiniteSet(Pending) /\ Cardinality(Pending) \in Nat
      BY PendingFinite
    <3>2. loaded = finished => Cardinality(Pending) = 0
      BY <1>0, <2>1, <3>1 DEF WritesOver, WritesExact
    <3>3. QED BY <3>1, <3>2, FS_EmptySet
  <2>3. Pending = {} => Unwritten'
    BY <1>0, <2>1 DEF Pending, Unwritten
  <2>4. QED BY <2>1, <2>2, <2>3 DEF WritesOver
<1>7. CASE OnCloseReturn
  BY <1>7 DEF OnCloseReturn, WritesOver, Unwritten, writes
<1>8. CASE \E q \in Requests : OnCloseDrain(q)
  BY <1>1, <1>8 DEF OnCloseDrain, closing
<1>9. QED BY <1>2, <1>3, <1>4, <1>5, <1>6, <1>7, <1>8 DEF Closer

-----------------------------------------------------------------------------
LEMMA OutcomeInit == Init => OutcomeIInv
<1> SUFFICES ASSUME Init PROVE OutcomeIInv
  OBVIOUS
<1>1. BufferIInv
  BY BufferInit
<1>2. Pending = {} /\ Cardinality(Pending) = 0
  <2>1. Pending = {}
    BY DEF Init, Pending
  <2>2. QED BY <2>1, FS_EmptySet
<1>3. WritesExact /\ Phases
  BY <1>2 DEF Init, WritesExact, Phases, Line, ReadsOver, WritesOver
<1>4. ASSUME NEW q \in Requests PROVE Good(q)
  <2>1. /\ sender[q] = "idle" /\ q \notin slot /\ write[q] = "none" /\ job[q] = None /\ refs[q] = 0
        /\ callbacks[q] = Silent /\ q \notin handled /\ ~Decoding(q) /\ None # -1
    BY DEF Init, Silent, None, Decoding
  <2>2. q \notin InStream
    BY DEF Init, InStream
  <2>3. QED BY <2>1, <2>2, Results
            DEF Good, Unbegun, Linked, Placed, ArgRefs, Outcome, Arrived, Received, Lost
<1>5. QED BY <1>1, <1>3, <1>4 DEF OutcomeIInv

LEMMA NeverReopens == [Next]_vars => (link' = "open" => link = "open")
<1> SUFFICES ASSUME [Next]_vars, link' = "open" PROVE link = "open"
  OBVIOUS
<1>1. CASE ~Closer
  BY <1>1, ClosingSteps
<1>2. CASE Closer
  BY <1>2 DEF Closer, OnCloseUnset, OnCloseLoad, OnCloseReads, OnCloseWrites, OnCloseReturn, OnCloseDrain,
        closing
<1>3. QED BY <1>1, <1>2

LEMMA GoodStep == OutcomeIInv /\ [Next]_vars => \A p \in Requests : Good(p)'
<1> SUFFICES ASSUME OutcomeIInv, [Next]_vars PROVE \A p \in Requests : Good(p)'
  OBVIOUS
<1>0. TypeOK /\ Links /\ Chunked /\ Phases /\ Line /\ \A p \in Requests : Good(p)
  BY Exactness DEF OutcomeIInv, BufferIInv, Phases
<1>9. link' = "open" => link = "open"
  BY NeverReopens
<1>1. CASE \E q \in Requests : SendUnconnected(q) \/ SendUnencoded(q) \/ SendBegin(q) \/ Sender(q)
  BY <1>0, <1>1, <1>9, SenderGood
<1>2. CASE \E q \in Requests : Writer(q)
  BY <1>0, <1>2, <1>9, WriterGood
<1>3. CASE AnswerNobody \/ \E q \in Requests : Answer(q)
  BY <1>0, <1>3, <1>9, AnswerGood
<1>4. CASE Reader
  BY <1>0, <1>4, <1>9, ReaderGood
<1>5. CASE \E q \in Requests : Worker(q)
  BY <1>0, <1>5, <1>9, WorkerGood
<1>6. CASE \E q \in Requests : OnCloseDrain(q)
  BY <1>0, <1>6, <1>9, DrainGood
<1>7. CASE \/ Close \/ OnCloseUnset \/ OnCloseLoad \/ OnCloseReads \/ OnCloseWrites \/ OnCloseReturn
           \/ UNCHANGED vars
  <2>1. UNCHANGED <<sender, slot, refs, write, job, callbacks, handled, stream, reader, found>>
    BY <1>7 DEF Close, OnCloseUnset, OnCloseLoad, OnCloseReads, OnCloseWrites, OnCloseReturn, senders, args,
          writes, peer, readers, workers, vars
  <2>2. \A p \in Requests : Same(p)
    BY <2>1 DEF Same, InStream, Decoding
  <2>3. QED BY <1>0, <1>9, <2>2, SameGood
<1>8. QED BY <1>1, <1>2, <1>3, <1>4, <1>5, <1>6, <1>7 DEF Next, Closer

LEMMA OutcomeStep ==
  ASSUME Quiet
  PROVE  OutcomeIInv /\ [Next]_vars => OutcomeIInv'
<1> SUFFICES ASSUME OutcomeIInv, [Next]_vars PROVE OutcomeIInv'
  OBVIOUS
<1>0. TypeOK /\ BufferIInv /\ Line /\ ReadsOver /\ WritesOver /\ WritesExact /\ \A p \in Requests : Good(p)
  BY Exactness DEF OutcomeIInv, BufferIInv, Phases
<1>1. BufferIInv'
  BY <1>0, BufferStep
<1>2. Line' /\ ReadsOver' /\ WritesOver'
  BY <1>0, LineStep, ReadsOverStep, WritesOverStep
<1>3. WritesExact'
  BY <1>0, WritesStep
<1>4. \A p \in Requests : Good(p)'
  BY GoodStep
<1>5. QED BY <1>1, <1>2, <1>3, <1>4 DEF OutcomeIInv, Phases

\* The inductive invariant of the requests.
THEOREM OutcomeInvariance ==
  ASSUME Quiet
  PROVE  Spec => []OutcomeIInv
<1>1. QED BY OutcomeInit, OutcomeStep, PTL DEF Spec

\* The send_arg of an accepted request is freed with the last of its two references, in
\* whichever order clientWriteCallback and clientFreeResp drop them.
THEOREM ArgsAreExact ==
  ASSUME Quiet
  PROVE  Spec => []ArgRefsExact
<1>1. OutcomeIInv => ArgRefsExact
  <2> SUFFICES ASSUME OutcomeIInv, NEW q \in Requests, sender[q] = "true"
               PROVE  refs[q] = IF callbacks[q] # <<>> /\ q \notin handled THEN 0
                                ELSE If(write[q] \in {"queued", "sent"}) + If(job[q] # -1)
    BY DEF ArgRefsExact
  <2>1. Outcome(q) /\ ArgRefs(q)
    BY DEF OutcomeIInv, Good
  <2>2. callbacks[q] # Silent /\ q \notin handled <=> Lost(q)
    BY <2>1, Results DEF Outcome, Lost
  <2>3. callbacks[q] # <<>> <=> callbacks[q] # Silent
    BY DEF Silent
  <2>4. CASE Lost(q)
    BY <2>1, <2>2, <2>3, <2>4 DEF Outcome
  <2>5. CASE ~Lost(q)
    BY <2>1, <2>2, <2>3, <2>5 DEF ArgRefs, If
  <2>6. QED BY <2>4, <2>5
<1>2. QED BY <1>1, OutcomeInvariance, PTL

\* However the sender, the response, the failed write and the close take turns: an accepted
\* request is called back at most once, and one that clientSendRequest gives up at most by
\* onClose, between the link and the unlinking of its refused write; not once it has returned.
THEOREM OneOutcome ==
  ASSUME Quiet
  PROVE  Spec => []OutcomeOnce
<1>1. OutcomeIInv => OutcomeOnce
  <2> SUFFICES ASSUME OutcomeIInv, NEW q \in Requests
               PROVE  /\ Len(callbacks[q]) <= 1
                      /\ sender[q] \in {"refused", "false"} => Answers(q) \subseteq {"closed"}
                      /\ sender[q] = "false" => q \notin slot /\ job[q] = None
    BY DEF OutcomeOnce
  <2>1. Unbegun(q) /\ Outcome(q) /\ Linked(q)
    BY DEF OutcomeIInv, Good
  <2>2. Len(callbacks[q]) <= 1
    <3>1. Len(callbacks[q]) = 0 \/ Len(callbacks[q]) = 1
      BY <2>1, Lengths, Zenon DEF Outcome
    <3>2. \A n : n = 0 \/ n = 1 => n <= 1
      OBVIOUS
    <3>3. QED BY <3>1, <3>2, Zenon
  <2>3. DOMAIN Silent = {} /\ DOMAIN Cut = {1} /\ Cut[1] = "closed"
    BY DEF Silent, Cut
  <2>4. sender[q] \in {"refused", "false"} => Answers(q) \subseteq {"closed"}
    BY <2>1, <2>3 DEF Unbegun, Answers
  <2>5. sender[q] = "false" => q \notin slot /\ job[q] = None
    BY <2>1 DEF Unbegun, Linked
  <2>6. QED BY <2>2, <2>4, <2>5
<1>2. QED BY <1>1, OutcomeInvariance, PTL

\* onClose frees the context after the last write callback has counted itself, and finds
\* every accepted request either linked, decoded, or reported as not written.
THEOREM ContextOutlivesWrites ==
  ASSUME Quiet
  PROVE  Spec => []FreedAfterWrites
<1>1. OutcomeIInv => FreedAfterWrites
  <2> SUFFICES ASSUME OutcomeIInv, ~context, NEW q \in Requests
               PROVE  /\ write[q] \in {"none", "done"}
                      /\ sender[q] = "true" => If(q \in slot) + If(job[q] # None) + If(Failed(q)) = 1
    BY DEF FreedAfterWrites
  <2>1. closer \in {"drain", "end"} /\ Unwritten /\ reader # "decode"
    <3>1. context \in BOOLEAN /\ closer \in {"drain", "end"}
      BY Exactness, TypeParts DEF OutcomeIInv, BufferIInv, LineTypes, Phases, Line
    <3>2. QED BY <3>1 DEF OutcomeIInv, Phases, ReadsOver, WritesOver, Reads
  <2>2. write[q] \in {"none", "done"}
    BY <2>1 DEF Unwritten
  <2>3. Outcome(q) /\ Linked(q) /\ Placed(q) /\ Arrived(q) /\ ~Decoding(q)
    BY <2>1 DEF OutcomeIInv, Good, Decoding
  <2>4. Failed(q) <=> Lost(q)
    <3>1. /\ \A i \in DOMAIN Silent : FALSE
          /\ \A i \in DOMAIN Answered : Answered[i] = "response"
          /\ 1 \in DOMAIN Broken /\ Broken[1] # "response" /\ 1 \in DOMAIN Cut /\ Cut[1] # "response"
      BY DEF Silent, Answered, Broken, Cut
    <3>2. callbacks[q] \in {Silent, Answered, Broken, Cut}
      BY <2>3 DEF Outcome
    <3>3. QED BY <3>1, <3>2, Results DEF Failed, Lost
  <2>5. ASSUME sender[q] = "true"
        PROVE  If(q \in slot) + If(job[q] # None) + If(Failed(q)) = 1
    <3>1. /\ q \in slot \/ job[q] # None \/ Lost(q)
          /\ ~(q \in slot /\ job[q] # None) /\ ~(q \in slot /\ Lost(q)) /\ ~(job[q] # None /\ Lost(q))
      BY <2>3, <2>5, Results DEF Placed, Linked, Arrived, Lost
    <3>2. QED BY <2>4, <3>1 DEF If
  <2>6. QED BY <2>2, <2>5
<1>2. QED BY <1>1, OutcomeInvariance, PTL
=============================================================================
