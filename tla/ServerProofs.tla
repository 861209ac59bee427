---------------------------- MODULE ServerProofs ----------------------------
(***************************************************************************)
(* Proofs about the server, for any number of requests, buffers and any    *)
(* limit: the references of read buffers are exact, a connection has one   *)
(* read, and serverOnClose frees the context after its counted users.  The *)
(* limit itself is kept if the parked read is taken up in time, and that   *)
(* read is not forgotten if it is parked in time.                          *)
(*                                                                         *)
(* All of it is under Settled: a read callback that runs into the close    *)
(* frees its buffer twice (Server.c:163-164, 254).                         *)
(***************************************************************************)
EXTENDS Server, FunctionTheorems, FiniteSetTheorems, SequenceTheorems, TLAPS

\* The read callback has a read to post or to park.
Reading == {"parse", "count", "park", "read"}

\* A request whose job, or response not yet handed over, refers to its buffer.
Unanswered == {"job", "counted", "written"}

\* The one read of the connection is pending, parked or in the callback, and a buffer that
\* is fresh or parked has no other user.
Turns ==
    /\ posted # NoBuffer => parked = NoBuffer /\ reader \notin Reading
    /\ parked # NoBuffer => reader \notin Reading /\ bufRefs[parked] = 1
    /\ reader \in Reading => link = "open"
    /\ reader \notin {"free", "resume", "stuck"} => owed = <<>>
    /\ reader \in {"count", "park"} => bufRefs[target] = 1 /\ target # buffer
    /\ \A q \in Requests : request[q] \in Unanswered => lies[q] \in Buffers
    /\ \A b \in Buffers : b > allocated => bufRefs[b] = 0

\* write_counter counts the writes that are begun and write_done_counter those that are over.
WritesCounted == started = finished + Cardinality(In("counted")) + queued

\* How far serverOnClose is, and what it has waited for.
Phases ==
    /\ link = "open" <=> closer = "none"
    /\ context <=> closer \notin {"free", "end"}
    /\ closer \in {"writes", "writes?", "free", "end"} => Live = {}
    /\ closer = "writes?" => loaded = started
    /\ WritesCounted
    /\ ~context => queued = 0
    /\ parked # NoBuffer => closer \in {"none", "lock"}
    /\ Unlocked \/ closer = "lock"

\* The references of the buffers.
Working(b) == {q \in In("job") \cup In("counted") \cup In("written") : lies[q] = b}
Users(b) == If(b = posted) + If(b = parked) + ReaderHolds(b) + Cardinality(Working(b))
RefsExact == \A b \in Buffers : bufRefs[b] = Users(b)
CounterExact == counter = Cardinality(Live) - If(reader = "count")

BufferIInv == TypeOK /\ RefsExact /\ CounterExact /\ Turns
ServerIInv == BufferIInv /\ Phases

-----------------------------------------------------------------------------
(* Types *)

\* The buffers have the numbers from one on.
LEMMA BufferNumbers == Buffers \subseteq Nat \ {0} /\ NoBuffer \notin Buffers /\ 1 \in Buffers
  BY ServerAssumption DEF Buffers, NoBuffer

\* serverFreeReadBuffer and serverReadDone keep the types.
LEMMA FreeType ==
  ASSUME bufRefs \in [Buffers -> Int], counter \in Int, NEW b \in Buffers, FreeReadBuffer(b)
  PROVE  bufRefs' \in [Buffers -> Int] /\ counter' \in Int
  BY DEF FreeReadBuffer

LEMMA ResumeType ==
  ASSUME TypeOK, Resume
  PROVE  /\ bufRefs' \in [Buffers -> Int] /\ counter' \in Int
         /\ {posted', parked'} \subseteq Buffers \cup {NoBuffer}
<1>1. /\ bufRefs \in [Buffers -> Int] /\ counter \in Int
      /\ {posted, parked} \subseteq Buffers \cup {NoBuffer}
  BY DEF TypeOK
<1>2. {posted', parked'} \subseteq Buffers \cup {NoBuffer}
  BY <1>1 DEF Resume
<1>3. CASE parked # NoBuffer /\ link # "open"
  BY <1>1, <1>2, <1>3, FreeType DEF Resume
<1>4. CASE ~(parked # NoBuffer /\ link # "open")
  BY <1>1, <1>2, <1>4 DEF Resume, counts
<1>5. QED BY <1>3, <1>4

\* The variables of the read callback and the buffers ...
ReadTypes == /\ {posted, parked} \subseteq Buffers \cup {NoBuffer}
             /\ reader \in {"idle", "parse", "count", "park", "read", "free", "resume", "stuck"}
             /\ {buffer, target} \subseteq Buffers
             /\ owed \in Seq(Buffers)
             /\ {piece, bad} \subseteq BOOLEAN
             /\ bufRefs \in [Buffers -> Int]
             /\ allocated \in Buffers
             /\ counter \in Int

\* ... those of the requests ...
RequestTypes == /\ request \in [Requests -> {"sent", "read", "rejected", "job", "counted",
                                             "written", "resume", "stuck", "done"}]
                /\ lies \in [Requests -> Buffers \cup {NoBuffer}]

\* ... and those of the connection's end.
EndTypes == /\ context \in BOOLEAN
            /\ link \in {"open", "closing", "released"}
            /\ closer \in {"none", "lock", "reads", "writes", "writes?", "free", "end"}
            /\ {loaded, started, finished, queued, finishing} \subseteq Nat

LEMMA TypeParts ==
  /\ TypeOK <=> ReadTypes /\ RequestTypes /\ EndTypes
  /\ TypeOK' <=> ReadTypes' /\ RequestTypes' /\ EndTypes'
  BY DEF TypeOK, ReadTypes, RequestTypes, EndTypes

LEMMA ReaderType == TypeOK /\ Reader => TypeOK'
<1> SUFFICES ASSUME TypeOK, Reader PROVE TypeOK'
  OBVIOUS
<1>0. ReadTypes /\ RequestTypes /\ EndTypes
  BY TypeParts
<1>1. RequestTypes'
  <2>2. CASE ReadOk
    BY <1>0, <2>2 DEF ReadOk, RequestTypes
  <2>3. ASSUME NEW q \in Requests, Decode(q) \/ Reject(q)
        PROVE  RequestTypes'
    <3>1. /\ request' = [request EXCEPT ![q] = "job"] \/ request' = [request EXCEPT ![q] = "rejected"]
          /\ lies' = lies \/ lies' = [lies EXCEPT ![q] = buffer]
      BY <2>3 DEF Decode, Reject
    <3>2. buffer \in Buffers
      BY <1>0 DEF ReadTypes
    <3>3. QED BY <1>0, <3>1, <3>2 DEF RequestTypes
  <2>4. CASE UNCHANGED requests
    BY <1>0, <2>4 DEF requests, RequestTypes
  <2>5. QED BY <2>2, <2>3, <2>4 DEF Reader, ReadFailed, ReadOn, ReadAnew, ReadCount, Park, ReadNext,
                ReaderFree, ReaderResume, ReaderReturn
<1>2. EndTypes'
  BY <1>0 DEF Reader, ReadOk, ReadFailed, Decode, Reject, ReadOn, ReadAnew, ReadCount, Park, ReadNext,
              ReaderFree, ReaderResume, ReaderReturn, writes, closing, EndTypes
<1>3. ReadTypes'
  <2>1. CASE ReadOk
    <3>1. piece' \in BOOLEAN
      BY <2>1 DEF ReadOk
    <3>2. posted \in Buffers
      BY <1>0, <2>1 DEF ReadOk, ReadTypes
    <3>3. bufRefs' \in [Buffers -> Int]
      BY <1>0, <2>1, <3>2 DEF ReadOk, ReadTypes
    <3>4. QED BY <1>0, <2>1, <3>1, <3>2, <3>3, Zenon DEF ReadOk, ReadTypes
  <2>2. CASE ReadFailed
    <3>1. posted \in Buffers
      BY <1>0, <2>2 DEF ReadFailed, ReadTypes
    <3>2. <<posted>> \in Seq(Buffers)
      BY <3>1
    <3>3. QED BY <1>0, <2>2, <3>2 DEF ReadFailed, ReadTypes, requests, counts
  <2>3. ASSUME NEW q \in Requests, Decode(q)
        PROVE  ReadTypes'
    BY <1>0, <2>3 DEF Decode, ReadTypes, callback
  <2>4. ASSUME NEW q \in Requests, Reject(q)
        PROVE  ReadTypes'
    <3>1. <<buffer, buffer>> \in Seq(Buffers)
      BY <1>0 DEF ReadTypes
    <3>2. QED BY <1>0, <2>4, <3>1 DEF Reject, ReadTypes, counts
  <2>5. CASE ReadOn
    BY <1>0, <2>5 DEF ReadOn, ReadTypes, requests, counts
  <2>6. CASE ReadAnew
    <3>1. allocated' \in Buffers /\ target' \in Buffers
      BY <2>6 DEF ReadAnew
    <3>2. bufRefs' \in [Buffers -> Int]
      BY <1>0, <2>6 DEF ReadAnew, ReadTypes
    <3>3. QED BY <1>0, <2>6, <3>1, <3>2 DEF ReadAnew, ReadTypes, requests
  <2>7. CASE ReadCount
    BY <1>0, <2>7 DEF ReadCount, ReadTypes, requests
  <2>8. CASE Park
    <3>1. <<buffer>> \in Seq(Buffers) /\ target \in Buffers
      BY <1>0 DEF ReadTypes
    <3>2. QED BY <1>0, <2>8, <3>1 DEF Park, ReadTypes, requests, counts
  <2>9. CASE ReadNext
    <3>1. <<buffer>> \in Seq(Buffers) /\ <<target, target, buffer>> \in Seq(Buffers) /\ target \in Buffers
      BY <1>0 DEF ReadTypes
    <3>2. QED BY <1>0, <2>9, <3>1 DEF ReadNext, ReadTypes, requests, counts
  <2>10. CASE ReaderFree
    <3>1. Head(owed) \in Buffers /\ Tail(owed) \in Seq(Buffers)
      BY <1>0, <2>10, HeadTailProperties DEF ReaderFree, ReadTypes
    <3>2. bufRefs' \in [Buffers -> Int] /\ counter' \in Int
      BY <1>0, <2>10, <3>1, FreeType DEF ReaderFree, ReadTypes
    <3>3. QED BY <1>0, <2>10, <3>1, <3>2 DEF ReaderFree, ReadTypes, requests
  <2>11. CASE ReaderResume
    <3>1. /\ bufRefs' \in [Buffers -> Int] /\ counter' \in Int
          /\ {posted', parked'} \subseteq Buffers \cup {NoBuffer}
      BY <2>11, ResumeType DEF ReaderResume
    <3>2. QED BY <1>0, <2>11, <3>1 DEF ReaderResume, ReadTypes, requests
  <2>12. CASE ReaderReturn
    BY <1>0, <2>12, BufferNumbers DEF ReaderReturn, ReadTypes, requests, counts
  <2>13. QED BY <2>1, <2>2, <2>3, <2>4, <2>5, <2>6, <2>7, <2>8, <2>9, <2>10, <2>11, <2>12 DEF Reader
<1>4. QED BY <1>1, <1>2, <1>3, TypeParts

LEMMA RequestType ==
  ASSUME TypeOK, NEW q \in Requests, Action(q),
         request[q] = "written" => lies[q] \in Buffers
  PROVE  TypeOK'
<1>0. ReadTypes /\ RequestTypes /\ EndTypes
  BY TypeParts
<1>1. RequestTypes'
  <2>1. /\ lies' = lies \/ lies' = [lies EXCEPT ![q] = NoBuffer]
        /\ \E pc \in {"counted", "written", "resume", "stuck", "done"} :
              request' = [request EXCEPT ![q] = pc]
    BY DEF Action, ActionCount, ActionWrite, ActionRefused, ActionFree, ActionResume
  <2>2. QED BY <1>0, <2>1 DEF RequestTypes
<1>2. EndTypes'
  <2>1. /\ UNCHANGED <<link, closing, finishing>>
        /\ started' = started \/ started' = started + 1
        /\ finished' = finished \/ finished' = finished + 1
        /\ queued' = queued \/ queued' = queued + 1
    BY DEF Action, ActionCount, ActionWrite, ActionRefused, ActionFree, ActionResume, writes
  <2>2. QED BY <1>0, <2>1 DEF EndTypes, closing
<1>3. ReadTypes'
  <2>1. UNCHANGED <<piece, callback, allocated>>
    BY DEF Action, ActionCount, ActionWrite, ActionRefused, ActionFree, ActionResume
  <2>2. CASE ActionFree(q)
    <3>1. bufRefs' \in [Buffers -> Int] /\ counter' \in Int
      BY <1>0, <2>2, FreeType DEF ActionFree, ReadTypes
    <3>2. QED BY <1>0, <2>1, <2>2, <3>1 DEF ActionFree, ReadTypes, callback
  <2>3. CASE ActionResume(q)
    <3>1. /\ bufRefs' \in [Buffers -> Int] /\ counter' \in Int
          /\ {posted', parked'} \subseteq Buffers \cup {NoBuffer}
      BY <2>3, ResumeType DEF ActionResume
    <3>2. QED BY <1>0, <2>1, <2>3, <3>1 DEF ReadTypes, callback
  <2>4. CASE UNCHANGED <<posted, parked, counts>>
    BY <1>0, <2>1, <2>4 DEF ReadTypes, callback, counts
  <2>5. QED BY <2>2, <2>3, <2>4 DEF Action, ActionCount, ActionWrite, ActionRefused
<1>4. QED BY <1>1, <1>2, <1>3, TypeParts

\* The write callback changes nothing but the writes.
Elsewhere == <<link, closing, requests, posted, callback, counts, allocated, parked>>

LEMMA WriterType == TypeOK /\ (WriteDone \/ WriteSent) => TypeOK' /\ UNCHANGED Elsewhere
<1> SUFFICES ASSUME TypeOK, WriteDone \/ WriteSent PROVE TypeOK' /\ UNCHANGED Elsewhere
  OBVIOUS
<1>0. ReadTypes /\ RequestTypes /\ EndTypes
  BY TypeParts
<1>1. UNCHANGED Elsewhere
  BY DEF WriteDone, WriteSent, Elsewhere
<1>2. ReadTypes' /\ RequestTypes'
  BY <1>0, <1>1 DEF Elsewhere, requests, callback, counts, ReadTypes, RequestTypes
<1>3. {started', finished', queued', finishing'} \subseteq Nat
  BY <1>0 DEF WriteDone, WriteSent, EndTypes
<1>4. EndTypes'
  BY <1>0, <1>1, <1>3 DEF Elsewhere, closing, EndTypes
<1>5. QED BY <1>1, <1>2, <1>4, TypeParts

LEMMA EndType == TypeOK /\ (Close \/ Closer) => TypeOK'
<1> SUFFICES ASSUME TypeOK, Close \/ Closer PROVE TypeOK'
  OBVIOUS
<1>0. ReadTypes /\ RequestTypes /\ EndTypes
  BY TypeParts
<1>1. RequestTypes' /\ UNCHANGED <<callback, posted, allocated, piece, writes>>
  BY <1>0 DEF Close, Closer, OnCloseLock, OnCloseReads, OnCloseLoad, OnCloseWrites, OnCloseReturn,
              requests, RequestTypes
<1>2. ReadTypes'
  <2>1. /\ bufRefs' = bufRefs \/ (parked # NoBuffer /\ bufRefs' = [bufRefs EXCEPT ![parked] = 0])
        /\ counter' = counter \/ counter' = counter - 1
        /\ parked' = parked \/ parked' = NoBuffer
    BY DEF Close, Closer, OnCloseLock, OnCloseReads, OnCloseLoad, OnCloseWrites, OnCloseReturn, counts
  <2>2. QED BY <1>0, <1>1, <2>1 DEF ReadTypes, callback
<1>3. EndTypes'
  <2>1. CASE Close \/ OnCloseLock \/ OnCloseReads \/ OnCloseReturn \/ OnCloseLoad
    BY <1>0, <1>1, <2>1 DEF Close, OnCloseLock, OnCloseReads, OnCloseLoad, OnCloseReturn, closing, writes, EndTypes
  <2>2. CASE OnCloseWrites
    <3>1. context' \in BOOLEAN
      BY <2>2 DEF OnCloseWrites
    <3>2. QED BY <1>0, <1>1, <2>2, <3>1 DEF OnCloseWrites, writes, EndTypes
  <2>3. QED BY <2>1, <2>2 DEF Closer
<1>4. QED BY <1>1, <1>2, <1>3, TypeParts

-----------------------------------------------------------------------------
(* Counting users *)

\* The requests in a buffer are finitely many, and so are the live buffers.
LEMMA FinitelyMany ==
  /\ \A b \in Buffers : IsFiniteSet(Working(b)) /\ Cardinality(Working(b)) \in Nat
  /\ IsFiniteSet(Live) /\ Cardinality(Live) \in Nat
<1>1. IsFiniteSet(Requests) /\ \A b : Working(b) \subseteq Requests
  BY ServerAssumption DEF Working, In
<1>2. IsFiniteSet(Buffers) /\ Live \subseteq Buffers
  BY ServerAssumption, FS_Interval DEF Buffers, Live
<1>3. QED BY <1>1, <1>2, FS_Subset, FS_CardinalityType

\* Adding or removing an element changes a cardinality unless it was, or was not, there.
LEMMA AddAndRemove ==
  \A S, x : IsFiniteSet(S) =>
     /\ Cardinality(S \cup {x}) = IF x \in S THEN Cardinality(S) ELSE Cardinality(S) + 1
     /\ Cardinality(S \ {x}) = IF x \in S THEN Cardinality(S) - 1 ELSE Cardinality(S)
<1> TAKE S, x
<1> HAVE IsFiniteSet(S)
<1>1. QED BY FS_AddElement, FS_RemoveElement

\* How often a buffer is owed: the lists that the callback makes ...
Times(s, b) == {i \in DOMAIN s : s[i] = b}
LEMMA FewOwed ==
  \A x, y, b : /\ Cardinality(Times(<<>>, b)) = 0
               /\ Cardinality(Times(<<x>>, b)) = If(b = x)
               /\ Cardinality(Times(<<x, y>>, b)) = If(b = x) + If(b = y)
<1> SUFFICES ASSUME NEW x, NEW y, NEW b
             PROVE  /\ Cardinality(Times(<<>>, b)) = 0
                    /\ Cardinality(Times(<<x>>, b)) = If(b = x)
                    /\ Cardinality(Times(<<x, y>>, b)) = If(b = x) + If(b = y)
  OBVIOUS
<1>1. /\ Cardinality({}) = 0 /\ IsFiniteSet({})
      /\ Cardinality({1}) = 1 /\ Cardinality({2}) = 1 /\ Cardinality({1, 2}) = 2
  <2>1. /\ Cardinality({}) = 0 /\ IsFiniteSet({}) /\ IsFiniteSet({1})
        /\ Cardinality({1}) = 1 /\ Cardinality({2}) = 1
    BY FS_EmptySet, FS_Singleton
  <2>2. {1, 2} = {1} \cup {2} /\ 2 \notin {1}
    OBVIOUS
  <2>3. QED BY <2>1, <2>2, FS_AddElement
<1>2. Times(<<>>, b) = {}
  BY DEF Times
<1>3. Times(<<x>>, b) = IF b = x THEN {1} ELSE {}
  BY DEF Times
<1>4. Times(<<x, y>>, b) = (IF b = x THEN {1} ELSE {}) \cup (IF b = y THEN {2} ELSE {})
  BY DEF Times
<1>5. Times(<<x, y>>, b) = IF b = x THEN IF b = y THEN {1, 2} ELSE {1} ELSE IF b = y THEN {2} ELSE {}
  BY <1>4
<1>6. Cardinality(Times(<<>>, b)) = 0
  BY <1>1, <1>2
<1>7. Cardinality(Times(<<x>>, b)) = If(b = x)
  BY <1>1, <1>3 DEF If
<1>8. Cardinality(Times(<<x, y>>, b)) = If(b = x) + If(b = y)
  <2>1. CASE b = x /\ b = y
    BY <1>1, <1>5, <2>1 DEF If
  <2>2. CASE b = x /\ b # y
    BY <1>1, <1>5, <2>2 DEF If
  <2>3. CASE b # x /\ b = y
    BY <1>1, <1>5, <2>3 DEF If
  <2>4. CASE b # x /\ b # y
    BY <1>1, <1>5, <2>4 DEF If
  <2>5. QED BY <2>1, <2>2, <2>3, <2>4
<1>9. QED BY <1>6, <1>7, <1>8

\* ... and what is left of them.
LEMMA OwedTail ==
  ASSUME NEW S, NEW s \in Seq(S), s # <<>>, NEW b
  PROVE  /\ Cardinality(Times(s, b)) \in Nat /\ Cardinality(Times(Tail(s), b)) \in Nat
         /\ Cardinality(Times(Tail(s), b)) = Cardinality(Times(s, b)) - If(b = Head(s))
<1>1. /\ DOMAIN s = 1..Len(s) /\ Len(s) \in Nat /\ Len(s) >= 1
      /\ DOMAIN Tail(s) = 1..(Len(s) - 1)
      /\ \A i \in 1..(Len(s) - 1) : Tail(s)[i] = s[i + 1]
      /\ Head(s) = s[1]
  BY HeadTailProperties
<1> DEFINE A == Times(Tail(s), b)
           B == Times(s, b) \ {1}
           f == [i \in A |-> i + 1]
<1>2. IsFiniteSet(A) /\ IsFiniteSet(B) /\ IsFiniteSet(Times(s, b))
  <2>1. IsFiniteSet(1..(Len(s) - 1)) /\ IsFiniteSet(1..Len(s))
    BY <1>1, FS_Interval
  <2>2. A \subseteq 1..(Len(s) - 1) /\ B \subseteq 1..Len(s) /\ Times(s, b) \subseteq 1..Len(s)
    BY <1>1 DEF Times
  <2>3. QED BY <2>1, <2>2, FS_Subset
<1>3. f \in Bijection(A, B)
  <2>1. f \in [A -> B]
    BY <1>1 DEF Times
  <2>2. \A i, j \in A : f[i] = f[j] => i = j
    BY <1>1 DEF Times
  <2>3. ASSUME NEW j \in B PROVE \E i \in A : f[i] = j
    <3>1. j - 1 \in A /\ f[j - 1] = j
      BY <1>1, <2>3 DEF Times
    <3>2. QED BY <3>1
  <2>4. QED BY <2>1, <2>2, <2>3, Fun_IsBij
<1>4. Cardinality(A) = Cardinality(B)
  BY <1>2, <1>3, FS_Bijection DEF ExistsBijection
<1>5. 1 \in Times(s, b) <=> b = Head(s)
  BY <1>1 DEF Times
<1>6. Cardinality(B) = Cardinality(Times(s, b)) - If(b = Head(s))
  <2>1. Cardinality(B) = IF 1 \in Times(s, b) THEN Cardinality(Times(s, b)) - 1
                         ELSE Cardinality(Times(s, b))
    BY <1>2, AddAndRemove
  <2>2. Cardinality(Times(s, b)) \in Nat
    BY <1>2, FS_CardinalityType
  <2>3. QED BY <1>5, <2>1, <2>2 DEF If
<1>7. QED BY <1>2, <1>4, <1>6, FS_CardinalityType

\* The number of users of a buffer is a number.
LEMMA UsersType ==
  ASSUME TypeOK
  PROVE  \A b \in Buffers : /\ Users(b) \in Nat /\ ReaderHolds(b) \in Nat /\ Owed(b) \in Nat
                            /\ Cardinality(Working(b)) \in Nat /\ bufRefs[b] \in Int
<1> SUFFICES ASSUME NEW b \in Buffers
             PROVE  /\ Users(b) \in Nat /\ ReaderHolds(b) \in Nat /\ Owed(b) \in Nat
                    /\ Cardinality(Working(b)) \in Nat /\ bufRefs[b] \in Int
  OBVIOUS
<1>1. Owed(b) \in Nat
  <2>1. IsFiniteSet(1..Len(owed)) /\ DOMAIN owed = 1..Len(owed)
    BY FS_Interval DEF TypeOK
  <2>2. {i \in DOMAIN owed : owed[i] = b} \subseteq 1..Len(owed)
    BY <2>1
  <2>3. QED BY <2>1, <2>2, FS_Subset, FS_CardinalityType DEF Owed
<1>2. ReaderHolds(b) \in Nat
  BY <1>1 DEF TypeOK, ReaderHolds, If
<1>3. Cardinality(Working(b)) \in Nat /\ bufRefs[b] \in Int
  BY FinitelyMany DEF TypeOK
<1>4. Users(b) \in Nat
  BY <1>2, <1>3 DEF Users, If
<1>5. QED BY <1>1, <1>2, <1>3, <1>4

\* A request that goes on is a user of its buffer from its decoding until its response has
\* been handed over.
LEMMA RequestMoves ==
  ASSUME TypeOK, NEW q \in Requests, NEW pc, request' = [request EXCEPT ![q] = pc],
         \/ lies' = lies
         \/ request[q] \notin Unanswered /\ lies' = [lies EXCEPT ![q] = buffer]
         \/ pc \notin Unanswered /\ lies' = [lies EXCEPT ![q] = NoBuffer]
  PROVE  \A b \in Buffers : Cardinality(Working(b)') = Cardinality(Working(b))
            - If(request[q] \in Unanswered /\ lies[q] = b) + If(pc \in Unanswered /\ lies'[q] = b)
<1> SUFFICES ASSUME NEW b \in Buffers
             PROVE  Cardinality(Working(b)') = Cardinality(Working(b))
                       - If(request[q] \in Unanswered /\ lies[q] = b)
                       + If(pc \in Unanswered /\ lies'[q] = b)
  OBVIOUS
<1>1. /\ \A p \in Requests : request'[p] = IF p = q THEN pc ELSE request[p]
      /\ \A p \in Requests : p # q => lies'[p] = lies[p]
  BY DEF TypeOK
<1>2. /\ Working(b)  = {p \in Requests : request[p]  \in Unanswered /\ lies[p]  = b}
      /\ Working(b)' = {p \in Requests : request'[p] \in Unanswered /\ lies'[p] = b}
  BY DEF Working, In, Unanswered
<1>3. /\ Working(b)' = IF pc \in Unanswered /\ lies'[q] = b THEN Working(b) \cup {q} ELSE Working(b) \ {q}
      /\ q \in Working(b) <=> request[q] \in Unanswered /\ lies[q] = b
      /\ request[q] \in Unanswered /\ pc \in Unanswered => lies'[q] = lies[q]
  BY <1>1, <1>2
<1>4. /\ Cardinality(Working(b) \cup {q})
            = IF q \in Working(b) THEN Cardinality(Working(b)) ELSE Cardinality(Working(b)) + 1
      /\ Cardinality(Working(b) \ {q})
            = IF q \in Working(b) THEN Cardinality(Working(b)) - 1 ELSE Cardinality(Working(b))
      /\ Cardinality(Working(b)) \in Nat
  BY FinitelyMany, AddAndRemove
<1>5. QED BY <1>3, <1>4 DEF If

\* Steps that free nothing keep the counts exact ...
LEMMA SameUsers ==
  ASSUME RefsExact, CounterExact, UNCHANGED counts, If(reader = "count")' = If(reader = "count"),
         \A c \in Buffers : Users(c)' = Users(c)
  PROVE  RefsExact' /\ CounterExact'
<1>1. RefsExact'
  BY DEF RefsExact, counts
<1>2. CounterExact'
  BY DEF CounterExact, Live, counts
<1>3. QED BY <1>1, <1>2

\* ... so does one that adds a user to a buffer that has one ...
LEMMA OneMoreUser ==
  ASSUME TypeOK, RefsExact, CounterExact, NEW b \in Buffers, Users(b) # 0,
         bufRefs' = [bufRefs EXCEPT ![b] = @ + 1], counter' = counter,
         If(reader = "count")' = If(reader = "count"),
         \A c \in Buffers : Users(c)' = Users(c) + If(c = b)
  PROVE  RefsExact' /\ CounterExact'
<1>1. \A c \in Buffers : bufRefs'[c] = bufRefs[c] + If(c = b) /\ bufRefs[c] \in Int
  BY DEF TypeOK, If
<1>2. RefsExact'
  BY <1>1 DEF RefsExact
<1>3. bufRefs[b] > 0
  BY UsersType DEF RefsExact
<1>4. Live' = Live
  BY <1>1, <1>3 DEF Live, If
<1>5. CounterExact'
  BY <1>4 DEF CounterExact
<1>6. QED BY <1>2, <1>5

\* ... and serverFreeReadBuffer by a user that goes: it counts the buffer out with its last.
LEMMA OneUserLess ==
  ASSUME TypeOK, RefsExact, CounterExact, NEW b \in Buffers, Users(b) # 0, FreeReadBuffer(b),
         If(reader = "count")' = If(reader = "count"),
         \A c \in Buffers : Users(c)' = Users(c) - If(c = b)
  PROVE  RefsExact' /\ CounterExact'
<1>1. \A c \in Buffers : bufRefs'[c] = bufRefs[c] - If(c = b) /\ bufRefs[c] \in Int
  BY DEF TypeOK, FreeReadBuffer, If
<1>2. RefsExact'
  BY <1>1 DEF RefsExact
<1>3. bufRefs[b] > 0
  BY UsersType DEF RefsExact
<1>4. Live' = IF bufRefs[b] = 1 THEN Live \ {b} ELSE Live
  BY <1>1, <1>3 DEF Live, If
<1>5. b \in Live
  BY <1>3 DEF Live
<1>6. Cardinality(Live') = IF bufRefs[b] = 1 THEN Cardinality(Live) - 1 ELSE Cardinality(Live)
  BY <1>4, <1>5, FinitelyMany, AddAndRemove
<1>7. If(reader = "count") \in Nat /\ Cardinality(Live) \in Nat /\ counter \in Int
  BY FinitelyMany DEF If, TypeOK
<1>8. CounterExact'
  BY <1>6, <1>7 DEF CounterExact, FreeReadBuffer
<1>9. QED BY <1>2, <1>8

\* A parked buffer has no other user; neither has one that the callback has just taken.
LEMMA Alone ==
  ASSUME TypeOK, RefsExact, Turns, NEW b \in Buffers
  PROVE  /\ Cardinality(Working(b)) # 0 \/ ReaderHolds(b) # 0 \/ b = posted => b # parked
         /\ Cardinality(Working(b)) # 0 /\ reader \in {"count", "park"} => b # target
<1>1. /\ Cardinality(Working(b)) \in Nat /\ ReaderHolds(b) \in Nat
      /\ bufRefs[b] = If(b = posted) + If(b = parked) + ReaderHolds(b) + Cardinality(Working(b))
  BY UsersType DEF RefsExact, Users
<1>2. ASSUME b = parked PROVE Cardinality(Working(b)) = 0 /\ ReaderHolds(b) = 0 /\ b # posted
  <2>1. bufRefs[b] = 1
    BY <1>2, BufferNumbers DEF Turns
  <2>2. QED BY <1>1, <1>2, <2>1 DEF If
<1>3. ASSUME b = target, reader \in {"count", "park"} PROVE Cardinality(Working(b)) = 0
  <2>1. bufRefs[b] = 1 /\ ReaderHolds(b) = If(b = buffer) + 1
    BY <1>3 DEF Turns, ReaderHolds, If
  <2>2. QED BY <1>1, <2>1 DEF If
<1>4. QED BY <1>2, <1>3

\* serverReadDone under its lock posts the parked read or frees its buffer.
LEMMA ResumeExact ==
  ASSUME BufferIInv, Resume, If(reader = "count")' = If(reader = "count"),
         \A b \in Buffers : /\ ReaderHolds(b)' = ReaderHolds(b)
                            /\ Cardinality(Working(b)') = Cardinality(Working(b))
  PROVE  RefsExact' /\ CounterExact'
<1>0. /\ TypeOK /\ RefsExact /\ CounterExact /\ Turns
      /\ \A b \in Buffers : ReaderHolds(b) \in Nat /\ Cardinality(Working(b)) \in Nat
  BY UsersType DEF BufferIInv
<1>1. CASE parked # NoBuffer /\ link # "open"
  <2>1. parked \in Buffers /\ parked' = NoBuffer /\ posted' = posted /\ FreeReadBuffer(parked)
    BY <1>0, <1>1 DEF Resume, TypeOK
  <2>2. \A c \in Buffers : Users(c)' = Users(c) - If(c = parked)
    BY <1>0, <2>1, BufferNumbers DEF Users, If
  <2>3. Users(parked) # 0
    BY <1>0, <2>1 DEF Users, If
  <2>4. QED BY <1>0, <2>1, <2>2, <2>3, OneUserLess
<1>2. CASE ~(parked # NoBuffer /\ link # "open")
  <2>1. /\ UNCHANGED counts /\ parked' = NoBuffer
        /\ posted' = IF parked # NoBuffer THEN parked ELSE posted
        /\ parked # NoBuffer => posted = NoBuffer
    BY <1>0, <1>2 DEF Resume, Turns
  <2>2. \A c \in Buffers : Users(c)' = Users(c)
    BY <1>0, <2>1, BufferNumbers DEF Users, If
  <2>3. QED BY <1>0, <2>1, <2>2, SameUsers
<1>3. QED BY <1>1, <1>2

-----------------------------------------------------------------------------
(* serverReadCallback and serverRead *)

\* The parts of the invariant that a step of the read callback has to keep.
LEMMA ReadBegins ==
  ASSUME BufferIInv, Settled, ReadOk
  PROVE  RefsExact' /\ CounterExact' /\ Turns'
<1>0. TypeOK /\ RefsExact /\ CounterExact /\ Turns
  BY DEF BufferIInv
<1> DEFINE p == posted
<1>1. /\ p \in Buffers /\ p # NoBuffer /\ link = "open" /\ reader = "idle"
      /\ bufRefs' = [bufRefs EXCEPT ![p] = @ + 1] /\ counter' = counter
      /\ reader' = "parse" /\ buffer' = p /\ posted' = NoBuffer
      /\ UNCHANGED <<link, lies, target, owed, allocated, parked>>
  BY <1>0 DEF ReadOk, TypeOK
<1>2. \A q \in Requests : /\ request'[q] \in Unanswered <=> request[q] \in Unanswered
                          /\ request'[q] \in {"job", "counted", "written"} => request'[q] = request[q]
  <2>1. PICK S \in SUBSET In("sent") :
           request' = [q \in Requests |-> IF q \in S THEN "read" ELSE request[q]]
    BY DEF ReadOk
  <2>2. QED BY <2>1 DEF In, Unanswered
<1>3. \A b \in Buffers : Working(b)' = Working(b)
  BY <1>1, <1>2 DEF Working, In, Unanswered
<1>4. \A b \in Buffers : ReaderHolds(b) = 0 /\ ReaderHolds(b)' = 2 * If(b = p)
  BY <1>1 DEF ReaderHolds
<1>5. \A b \in Buffers : Users(b)' = Users(b) + If(b = p)
  BY <1>1, <1>3, <1>4, FinitelyMany, BufferNumbers DEF Users, If
<1>6. Users(p) # 0
  BY <1>1, <1>4, FinitelyMany DEF Users, If
<1>7. RefsExact' /\ CounterExact'
  <2>1. If(reader = "count")' = If(reader = "count")
    BY <1>1 DEF If
  <2>2. QED BY <1>0, <1>1, <1>5, <1>6, <2>1, OneMoreUser
<1>8. Turns'
  <2>1. bufRefs[p] # 0
    BY <1>0, <1>1, <1>6 DEF RefsExact
  <2>2. \A b \in Buffers : b > allocated => bufRefs'[b] = 0
    BY <1>0, <1>1, <2>1 DEF Turns, TypeOK
  <2>3. parked = NoBuffer
    BY <1>0, <1>1 DEF Turns
  <2>4. QED BY <1>0, <1>1, <1>2, <2>2, <2>3 DEF Turns, Reading
<1>9. QED BY <1>7, <1>8

\* A decoded request is a further user of the buffer.
LEMMA DecodeExact ==
  ASSUME BufferIInv, NEW q \in Requests, Decode(q)
  PROVE  RefsExact' /\ CounterExact' /\ Turns'
<1>0. TypeOK /\ RefsExact /\ CounterExact /\ Turns
  BY DEF BufferIInv
<1>1. /\ reader = "parse" /\ request[q] = "read" /\ buffer \in Buffers
      /\ bufRefs' = [bufRefs EXCEPT ![buffer] = @ + 1] /\ counter' = counter
      /\ request' = [request EXCEPT ![q] = "job"] /\ lies' = [lies EXCEPT ![q] = buffer]
      /\ UNCHANGED <<link, posted, reader, buffer, target, owed, allocated, parked>>
  BY <1>0 DEF Decode, TypeOK, callback
<1>2. lies'[q] = buffer /\ \A r \in Requests : r # q => lies'[r] = lies[r] /\ request'[r] = request[r]
  BY <1>0, <1>1 DEF TypeOK
<1>3. \A b \in Buffers : Cardinality(Working(b)') = Cardinality(Working(b)) + If(b = buffer)
  <2>1. \A b \in Buffers : Cardinality(Working(b)') = Cardinality(Working(b))
           - If(request[q] \in Unanswered /\ lies[q] = b) + If("job" \in Unanswered /\ lies'[q] = b)
    BY <1>0, <1>1, RequestMoves DEF Unanswered
  <2>2. QED BY <1>1, <1>2, <2>1, FinitelyMany DEF Unanswered, If
<1>4. \A b \in Buffers : ReaderHolds(b)' = ReaderHolds(b) /\ ReaderHolds(b) = 2 * If(b = buffer)
  BY <1>1 DEF ReaderHolds
<1>5. \A b \in Buffers : Users(b)' = Users(b) + If(b = buffer)
  BY <1>1, <1>3, <1>4, FinitelyMany DEF Users, If
<1>6. Users(buffer) # 0
  BY <1>1, <1>4, FinitelyMany DEF Users, If
<1>7. RefsExact' /\ CounterExact'
  <2>1. If(reader = "count")' = If(reader = "count")
    BY <1>1 DEF If
  <2>2. QED BY <1>0, <1>1, <1>5, <1>6, <2>1, OneMoreUser
<1>8. Turns'
  <2>1. bufRefs[buffer] # 0
    BY <1>0, <1>1, <1>6 DEF RefsExact
  <2>2. \A b \in Buffers : b > allocated => bufRefs'[b] = 0
    BY <1>0, <1>1, <2>1 DEF Turns, TypeOK
  <2>3. parked = NoBuffer
    BY <1>0, <1>1 DEF Turns, Reading
  <2>4. \A r \in Requests : request'[r] \in Unanswered => lies'[r] \in Buffers
    BY <1>0, <1>1, <1>2 DEF Turns
  <2>5. QED BY <1>0, <1>1, <2>2, <2>3, <2>4 DEF Turns, Reading
<1>9. QED BY <1>7, <1>8

\* A full buffer is replaced by a new one, which is counted in the next step.
LEMMA ReadAnewExact ==
  ASSUME BufferIInv, ReadAnew
  PROVE  RefsExact' /\ CounterExact' /\ Turns'
<1>0. TypeOK /\ RefsExact /\ CounterExact /\ Turns
  BY DEF BufferIInv
<1> DEFINE new == allocated + 1
<1>1. /\ reader = "parse" /\ reader' = "count" /\ new \in Buffers /\ buffer \in Buffers
      /\ allocated' = new /\ target' = new /\ counter' = counter
      /\ bufRefs' = [bufRefs EXCEPT ![new] = 1, ![buffer] = @ - 1]
      /\ UNCHANGED <<link, request, lies, posted, buffer, owed, parked>>
  BY <1>0 DEF ReadAnew, TypeOK, requests
<1> HIDE DEF new
<1>2. bufRefs[new] = 0 /\ \A b \in Buffers : bufRefs[b] \in Int
  BY <1>0, <1>1, BufferNumbers DEF Turns, TypeOK, new
<1>3. \A b \in Buffers : /\ ReaderHolds(b) = 2 * If(b = buffer)
                         /\ ReaderHolds(b)' = If(b = buffer) + If(b = new)
  BY <1>1 DEF ReaderHolds
<1>4. \A b \in Buffers : Working(b)' = Working(b)
  BY <1>1 DEF Working, In
<1>5. \A b \in Buffers : Users(b)' = Users(b) - If(b = buffer) + If(b = new)
  BY <1>1, <1>3, <1>4, FinitelyMany DEF Users, If
<1>6. bufRefs[buffer] >= 2 /\ new # buffer
  <2>1. Users(buffer) >= 2
    BY <1>1, <1>3, FinitelyMany DEF Users, If
  <2>2. QED BY <1>0, <1>1, <1>2, <2>1 DEF RefsExact
<1>7. \A b \in Buffers :
         /\ bufRefs'[b] = IF b = new THEN 1 ELSE IF b = buffer THEN bufRefs[b] - 1 ELSE bufRefs[b]
         /\ bufRefs'[b] = bufRefs[b] - If(b = buffer) + If(b = new)
  <2>1. bufRefs \in [Buffers -> Int]
    BY <1>0 DEF TypeOK
  <2>2. \A b \in Buffers : bufRefs'[b] = IF b = new THEN 1
                                         ELSE IF b = buffer THEN bufRefs[b] - 1 ELSE bufRefs[b]
    BY <1>1, <1>6, <2>1
  <2>3. QED BY <1>2, <1>6, <2>2 DEF If
<1>8. RefsExact'
  BY <1>0, <1>5, <1>7 DEF RefsExact
<1>9. CounterExact'
  <2>1. Live' = Live \cup {new} /\ new \notin Live
    <3>1. ASSUME NEW b \in Buffers
          PROVE  b \in Live' <=> (b = new \/ b \in Live)
      <4>1. b \in Live <=> bufRefs[b] > 0
        BY DEF Live
      <4>2. b \in Live' <=> bufRefs'[b] > 0
        BY DEF Live
      <4>3. CASE b = new
        BY <1>7, <4>2, <4>3
      <4>4. CASE b = buffer
        BY <1>2, <1>6, <1>7, <4>1, <4>2, <4>4
      <4>5. CASE b # new /\ b # buffer
        BY <1>7, <4>1, <4>2, <4>5
      <4>6. QED BY <4>3, <4>4, <4>5
    <3>2. Live \subseteq Buffers /\ Live' \subseteq Buffers
      BY DEF Live
    <3>3. new \notin Live
      BY <1>2 DEF Live
    <3>4. QED BY <1>1, <3>1, <3>2, <3>3
  <2>2. Cardinality(Live') = Cardinality(Live) + 1
    BY <2>1, FinitelyMany, AddAndRemove
  <2>3. counter = Cardinality(Live) /\ Cardinality(Live) \in Nat
    BY <1>0, <1>1, FinitelyMany DEF CounterExact, If
  <2>4. QED BY <1>1, <2>2, <2>3 DEF CounterExact, If
<1>10. Turns'
  <2>1. \A b \in Buffers : b > allocated' => bufRefs'[b] = 0
    <3>1. \A b \in Buffers : b > allocated' => b > allocated /\ b # new /\ b # buffer
      <4>1. allocated \in Nat /\ buffer <= allocated
        BY <1>0, <1>1, <1>6, BufferNumbers DEF Turns, TypeOK
      <4>2. QED BY <1>1, <4>1, BufferNumbers DEF new
    <3>2. QED BY <1>0, <1>7, <3>1 DEF Turns
  <2>2. parked = NoBuffer /\ link = "open"
    BY <1>0, <1>1 DEF Turns, Reading
  <2>3. bufRefs'[new] = 1
    BY <1>1, <1>7
  <2>4. QED BY <1>0, <1>1, <1>6, <2>1, <2>2, <2>3 DEF Turns, Reading
<1>11. QED BY <1>8, <1>9, <1>10

\* The steps of the callback that leave the references alone: it hands its own on.
LEMMA HandOn ==
  ASSUME BufferIInv, Settled, ReadFailed \/ ReadOn \/ Park \/ ReadNext \/ ReaderReturn
                              \/ \E q \in Requests : Reject(q)
  PROVE  RefsExact' /\ CounterExact' /\ Turns'
<1>0. TypeOK /\ RefsExact /\ CounterExact /\ Turns
  BY DEF BufferIInv
<1>1. /\ UNCHANGED <<counts, lies, allocated>> /\ If(reader = "count")' = If(reader = "count")
      /\ \A q \in Requests : request'[q] \in Unanswered <=> request[q] \in Unanswered
      /\ \A b \in Buffers : Working(b)' = Working(b)
  <2>1. /\ UNCHANGED <<counts, lies, allocated>> /\ reader # "count" /\ reader' # "count"
        /\ request' = request \/ \E q \in Requests :
                                    request[q] = "read" /\ request' = [request EXCEPT ![q] = "rejected"]
    BY DEF ReadFailed, ReadOn, Park, ReadNext, ReaderReturn, Reject, requests
  <2>2. \A q \in Requests : /\ request'[q] \in Unanswered <=> request[q] \in Unanswered
                            /\ request'[q] \in Unanswered => request'[q] = request[q]
    BY <1>0, <2>1 DEF TypeOK, Unanswered
  <2>3. \A b \in Buffers : Working(b)' = Working(b)
    BY <2>1, <2>2 DEF Working, In, Unanswered
  <2>4. QED BY <2>1, <2>2, <2>3 DEF If
<1>2. \A b \in Buffers : /\ Cardinality(Working(b)) \in Nat
                         /\ Owed(b) = Cardinality(Times(owed, b)) /\ Owed(b)' = Cardinality(Times(owed', b))
  BY FinitelyMany DEF Owed, Times
<1>3. \A b \in Buffers : Users(b)' = Users(b)
  <2>1. CASE ReadFailed
    <3>1. /\ posted \in Buffers /\ posted' = NoBuffer /\ parked' = parked /\ owed' = <<posted>>
          /\ reader = "idle" /\ reader' = "free"
      BY <1>0, <2>1 DEF ReadFailed, TypeOK
    <3>2. \A b \in Buffers : ReaderHolds(b) = 0 /\ ReaderHolds(b)' = If(b = posted)
      BY <1>2, <3>1, FewOwed DEF ReaderHolds
    <3>3. QED BY <1>1, <1>2, <3>1, <3>2, BufferNumbers DEF Users, If
  <2>2. CASE ReadOn
    <3>1. /\ UNCHANGED <<posted, parked, buffer>> /\ target' = buffer
          /\ reader = "parse" /\ reader' = "read"
      BY <2>2 DEF ReadOn
    <3>2. \A b \in Buffers : ReaderHolds(b)' = ReaderHolds(b)
      BY <3>1 DEF ReaderHolds, If
    <3>3. QED BY <1>1, <3>1, <3>2 DEF Users, If
  <2>3. CASE Park
    <3>1. /\ posted' = posted /\ parked = NoBuffer /\ parked' = target /\ owed' = <<buffer>>
          /\ reader = "park" /\ reader' = "free"
      BY <1>0, <2>3 DEF Park, Turns, Reading
    <3>2. \A b \in Buffers : /\ ReaderHolds(b) = If(b = buffer) + If(b = target)
                             /\ ReaderHolds(b)' = If(b = buffer)
      BY <1>2, <3>1, FewOwed DEF ReaderHolds
    <3>3. QED BY <1>1, <1>2, <3>1, <3>2, BufferNumbers DEF Users, If
  <2>4. CASE ReadNext
    <3>1. /\ parked' = parked /\ posted = NoBuffer /\ posted' = target /\ owed' = <<buffer>>
          /\ reader = "read" /\ reader' = "free"
      BY <1>0, <2>4 DEF ReadNext, Turns, Reading
    <3>2. \A b \in Buffers : /\ ReaderHolds(b) = If(b = buffer) + If(b = target)
                             /\ ReaderHolds(b)' = If(b = buffer)
      BY <1>2, <3>1, FewOwed DEF ReaderHolds
    <3>3. QED BY <1>1, <1>2, <3>1, <3>2, BufferNumbers DEF Users, If
  <2>5. CASE ReaderReturn
    <3>1. UNCHANGED <<posted, parked>> /\ owed = <<>> /\ reader = "free" /\ reader' = "idle"
      BY <2>5 DEF ReaderReturn
    <3>2. \A b \in Buffers : ReaderHolds(b) = 0 /\ ReaderHolds(b)' = 0
      BY <1>2, <3>1, FewOwed DEF ReaderHolds
    <3>3. QED BY <1>1, <3>1, <3>2 DEF Users, If
  <2>6. CASE \E q \in Requests : Reject(q)
    <3>1. /\ UNCHANGED <<posted, parked>> /\ owed' = <<buffer, buffer>>
          /\ reader = "parse" /\ reader' = "free"
      BY <2>6 DEF Reject
    <3>2. \A b \in Buffers : ReaderHolds(b) = 2 * If(b = buffer) /\ ReaderHolds(b)' = If(b = buffer) + If(b = buffer)
      BY <1>2, <3>1, FewOwed DEF ReaderHolds
    <3>3. \A b \in Buffers : ReaderHolds(b)' = ReaderHolds(b)
      BY <3>2 DEF If
    <3>4. QED BY <1>1, <3>1, <3>3 DEF Users, If
  <2>7. QED BY <2>1, <2>2, <2>3, <2>4, <2>5, <2>6
<1>4. RefsExact' /\ CounterExact'
  BY <1>0, <1>1, <1>3, SameUsers
<1>5. Turns'
  <2>1. /\ \A q \in Requests : request'[q] \in Unanswered => lies'[q] \in Buffers
        /\ \A b \in Buffers : b > allocated' => bufRefs'[b] = 0
        /\ bufRefs' = bufRefs
    BY <1>0, <1>1 DEF Turns, counts
  <2>2. CASE ReadFailed \/ ReadOn \/ \E q \in Requests : Reject(q)
    BY <1>0, <2>1, <2>2 DEF ReadFailed, ReadOn, Reject, Turns, Reading
  <2>3. CASE Park \/ ReadNext
    BY <1>0, <2>1, <2>3 DEF Park, ReadNext, Turns, Reading
  <2>4. CASE ReaderReturn
    BY <1>0, <2>1, <2>4 DEF ReaderReturn, Turns, Reading
  <2>5. QED BY <2>2, <2>3, <2>4
<1>6. QED BY <1>4, <1>5

\* Counting the new buffer settles the counter.
LEMMA ReadCountExact ==
  ASSUME BufferIInv, ReadCount
  PROVE  RefsExact' /\ CounterExact' /\ Turns'
<1>0. TypeOK /\ RefsExact /\ CounterExact /\ Turns
  BY DEF BufferIInv
<1>1. /\ UNCHANGED <<bufRefs, request, lies, posted, parked, buffer, target, owed, allocated, link>>
      /\ reader = "count" /\ reader' \in {"park", "read"} /\ counter' = counter + 1
  BY DEF ReadCount, requests
<1>2. \A b \in Buffers : ReaderHolds(b)' = ReaderHolds(b) /\ Working(b)' = Working(b)
  BY <1>1 DEF ReaderHolds, If, Working, In
<1>3. RefsExact'
  BY <1>0, <1>1, <1>2 DEF RefsExact, Users, If
<1>4. CounterExact'
  BY <1>0, <1>1, FinitelyMany DEF CounterExact, Live, If
<1>5. Turns'
  BY <1>0, <1>1 DEF Turns, Reading
<1>6. QED BY <1>3, <1>4, <1>5

\* The callback gives up what it owes.
LEMMA ReaderFreeExact ==
  ASSUME BufferIInv, ReaderFree
  PROVE  RefsExact' /\ CounterExact' /\ Turns'
<1>0. TypeOK /\ RefsExact /\ CounterExact /\ Turns
  BY DEF BufferIInv
<1> DEFINE h == Head(owed)
<1>1. /\ reader = "free" /\ owed # <<>> /\ owed \in Seq(Buffers) /\ h \in Buffers
      /\ FreeReadBuffer(h) /\ owed' = Tail(owed) /\ reader' \in {"free", "resume"}
      /\ UNCHANGED <<request, lies, posted, parked, buffer, target, allocated, link>>
  BY <1>0, HeadTailProperties DEF ReaderFree, TypeOK, requests
<1>2. \A b \in Buffers : /\ ReaderHolds(b) \in Nat /\ ReaderHolds(b)' = ReaderHolds(b) - If(b = h)
                         /\ Cardinality(Working(b)) \in Nat /\ Working(b)' = Working(b)
  <2>1. \A b \in Buffers : /\ ReaderHolds(b) = Cardinality(Times(owed, b))
                           /\ ReaderHolds(b)' = Cardinality(Times(owed', b))
    BY <1>1 DEF ReaderHolds, Owed, Times
  <2>2. \A b \in Buffers : /\ Cardinality(Times(owed, b)) \in Nat
                           /\ Cardinality(Times(owed', b)) = Cardinality(Times(owed, b)) - If(b = h)
    BY <1>1, OwedTail
  <2>3. QED BY <1>1, <2>1, <2>2, FinitelyMany DEF Working, In
<1>3. \A b \in Buffers : Users(b)' = Users(b) - If(b = h)
  <2> SUFFICES ASSUME NEW b \in Buffers PROVE Users(b)' = Users(b) - If(b = h)
    OBVIOUS
  <2>1. /\ If(b = posted)' = If(b = posted) /\ If(b = parked)' = If(b = parked)
        /\ If(b = posted) \in Nat /\ If(b = parked) \in Nat /\ If(b = h) \in Nat
    BY <1>1 DEF If
  <2>2. Cardinality(Working(b)') = Cardinality(Working(b))
    BY <1>2
  <2>3. QED BY <1>2, <2>1, <2>2 DEF Users
<1>4. ReaderHolds(h) # 0 /\ Users(h) # 0
  <2>1. Cardinality(Times(owed, h)) \in Nat /\ Cardinality(Times(Tail(owed), h)) \in Nat
        /\ Cardinality(Times(Tail(owed), h)) = Cardinality(Times(owed, h)) - 1
    BY <1>1, OwedTail DEF If
  <2>2. ReaderHolds(h) = Cardinality(Times(owed, h))
    BY <1>1 DEF ReaderHolds, Owed, Times
  <2>3. ReaderHolds(h) # 0
    BY <2>1, <2>2
  <2>4. QED BY <1>1, <1>2, <2>3 DEF Users, If
<1>5. RefsExact' /\ CounterExact'
  <2>1. If(reader = "count")' = If(reader = "count")
    BY <1>1 DEF If
  <2>2. QED BY <1>0, <1>1, <1>3, <1>4, <2>1, OneUserLess
<1>6. Turns'
  <2>1. h # parked /\ bufRefs[h] # 0
    BY <1>0, <1>1, <1>4, Alone DEF RefsExact
  <2>2. \A b \in Buffers : b # h => bufRefs'[b] = bufRefs[b]
    BY <1>0, <1>1 DEF TypeOK, FreeReadBuffer
  <2>3. parked # NoBuffer => bufRefs'[parked] = 1
    BY <1>0, <2>1, <2>2 DEF Turns, TypeOK
  <2>4. \A b \in Buffers : b > allocated' => bufRefs'[b] = 0
    BY <1>0, <1>1, <2>1, <2>2 DEF Turns
  <2>5. QED BY <1>0, <1>1, <2>3, <2>4 DEF Turns, Reading
<1>7. QED BY <1>5, <1>6

\* Taking up the parked read keeps the turns.
LEMMA ResumeTurns ==
  ASSUME BufferIInv, Resume, UNCHANGED <<lies, buffer, target, owed, allocated, link>>,
         \A q \in Requests : request'[q] \in Unanswered => request[q] \in Unanswered,
         reader' = reader \/ (reader = "resume" /\ reader' \in {"free", "stuck"})
  PROVE  Turns'
<1>0. TypeOK /\ RefsExact /\ Turns
  BY DEF BufferIInv
<1>1. parked' = NoBuffer
  BY DEF Resume
<1>2. posted' # NoBuffer => reader' \notin Reading
  BY <1>0 DEF Resume, Turns, Reading
<1>3. \A b \in Buffers : b # parked => bufRefs'[b] = bufRefs[b]
  BY <1>0 DEF Resume, TypeOK, FreeReadBuffer, counts
<1>4. reader' \in {"count", "park"} => bufRefs'[target'] = 1 /\ target' # buffer'
  <2>1. reader' \in {"count", "park"} => parked = NoBuffer
    BY <1>0 DEF Turns, Reading
  <2>2. target \in Buffers /\ NoBuffer \notin Buffers
    BY <1>0, BufferNumbers DEF TypeOK
  <2>3. QED BY <1>0, <1>3, <2>1, <2>2 DEF Turns
<1>5. \A b \in Buffers : b > allocated' => bufRefs'[b] = 0
  <2>1. parked \in Buffers => bufRefs[parked] = 1
    BY <1>0, BufferNumbers DEF Turns
  <2>2. QED BY <1>0, <1>3, <2>1 DEF Turns
<1>6. QED BY <1>0, <1>1, <1>2, <1>4, <1>5 DEF Turns, Reading

LEMMA ReaderResumeExact ==
  ASSUME BufferIInv, ReaderResume
  PROVE  RefsExact' /\ CounterExact' /\ Turns'
<1>1. /\ UNCHANGED <<request, lies, buffer, target, owed, allocated, link>>
      /\ reader = "resume" /\ reader' \in {"free", "stuck"} /\ Resume
  BY DEF ReaderResume, requests
<1>2. \A b \in Buffers : ReaderHolds(b)' = ReaderHolds(b) /\ Working(b)' = Working(b)
  BY <1>1 DEF ReaderHolds, Owed, Working, In
<1>3. If(reader = "count")' = If(reader = "count")
  BY <1>1 DEF If
<1>4. QED BY <1>1, <1>2, <1>3, ResumeExact, ResumeTurns

\* The read callback keeps the references exact, and one read.
LEMMA ReaderKeeps ==
  ASSUME BufferIInv, Settled, Reader
  PROVE  BufferIInv'
<1>1. TypeOK'
  BY ReaderType DEF BufferIInv
<1>2. RefsExact' /\ CounterExact' /\ Turns'
  BY ReadBegins, DecodeExact, ReadAnewExact, HandOn, ReadCountExact, ReaderFreeExact,
     ReaderResumeExact DEF Reader
<1>3. QED BY <1>1, <1>2 DEF BufferIInv

-----------------------------------------------------------------------------
(* The requests and the end of the connection *)

\* An action gives up the buffer of its request once it has handed the response over.
LEMMA RequestKeeps ==
  ASSUME BufferIInv, NEW q \in Requests, Action(q)
  PROVE  BufferIInv'
<1>0. TypeOK /\ RefsExact /\ CounterExact /\ Turns
  BY DEF BufferIInv
<1>1. TypeOK'
  BY <1>0, RequestType DEF Turns, Unanswered
<1>2. /\ UNCHANGED <<reader, buffer, target, owed, allocated, link>>
      /\ If(reader = "count")' = If(reader = "count")
      /\ \A b \in Buffers : ReaderHolds(b)' = ReaderHolds(b)
  <2>1. UNCHANGED <<callback, allocated, link>>
    BY DEF Action, ActionCount, ActionWrite, ActionRefused, ActionFree, ActionResume
  <2>2. QED BY <2>1 DEF callback, If, ReaderHolds, Owed
<1>3. CASE ActionFree(q)
  <2> DEFINE b == lies[q]
  <2>1. /\ b \in Buffers /\ FreeReadBuffer(b) /\ request[q] = "written"
        /\ \E pc \in {"resume", "done"} : request' = [request EXCEPT ![q] = pc]
        /\ lies' = [lies EXCEPT ![q] = NoBuffer]
        /\ UNCHANGED <<posted, parked>>
    BY <1>0, <1>3 DEF ActionFree, Turns, Unanswered
  <2>2. \A c \in Buffers : Cardinality(Working(c)') = Cardinality(Working(c)) - If(c = b)
    <3>1. PICK pc \in {"resume", "done"} : request' = [request EXCEPT ![q] = pc]
      BY <2>1
    <3>2. \A c \in Buffers : Cardinality(Working(c)') = Cardinality(Working(c))
             - If(request[q] \in Unanswered /\ lies[q] = c) + If(pc \in Unanswered /\ lies'[q] = c)
      BY <1>0, <2>1, <3>1, RequestMoves DEF Unanswered
    <3>3. QED BY <2>1, <3>2, FinitelyMany DEF Unanswered, If
  <2>3. \A c \in Buffers : Users(c)' = Users(c) - If(c = b)
    <3>1. \A c \in Buffers : ReaderHolds(c) \in Nat /\ Cardinality(Working(c)) \in Nat
      BY <1>0, UsersType
    <3>2. QED BY <1>2, <2>1, <2>2, <3>1 DEF Users, If
  <2>4. Cardinality(Working(b)) # 0 /\ Users(b) # 0
    <3>1. q \in Working(b)
      BY <2>1 DEF Working, In
    <3>2. Cardinality(Working(b)) # 0 /\ Cardinality(Working(b)) \in Nat /\ ReaderHolds(b) \in Nat
      BY <1>0, <2>1, <3>1, FinitelyMany, FS_EmptySet, UsersType
    <3>3. QED BY <3>2 DEF Users, If
  <2>5. RefsExact' /\ CounterExact'
    BY <1>0, <1>2, <2>1, <2>3, <2>4, OneUserLess
  <2>6. Turns'
    <3>1. b # parked /\ (reader \in {"count", "park"} => b # target) /\ bufRefs[b] # 0
      BY <1>0, <2>1, <2>4, Alone DEF RefsExact
    <3>2. \A c \in Buffers : c # b => bufRefs'[c] = bufRefs[c]
      BY <1>0, <2>1 DEF TypeOK, FreeReadBuffer
    <3>3. /\ parked # NoBuffer => bufRefs'[parked] = 1
          /\ reader \in {"count", "park"} => bufRefs'[target] = 1
      BY <1>0, <3>1, <3>2 DEF Turns, TypeOK
    <3>4. \A c \in Buffers : c > allocated' => bufRefs'[c] = 0
      BY <1>0, <1>2, <3>1, <3>2 DEF Turns
    <3>5. \A r \in Requests : request'[r] \in Unanswered => request[r] \in Unanswered /\ lies'[r] = lies[r]
      <4>1. \A r \in Requests : r # q => lies'[r] = lies[r]
        BY <1>0, <2>1 DEF TypeOK
      <4>2. request'[q] \notin Unanswered /\ \A r \in Requests : r # q => request'[r] = request[r]
        BY <1>0, <2>1 DEF TypeOK, Unanswered
      <4>3. QED BY <4>1, <4>2
    <3>6. QED BY <1>0, <1>2, <2>1, <3>3, <3>4, <3>5 DEF Turns
  <2>7. QED BY <1>1, <2>5, <2>6 DEF BufferIInv
<1>4. ASSUME request' = request \/ \E pc : /\ request' = [request EXCEPT ![q] = pc]
                                           /\ pc \in Unanswered <=> request[q] \in Unanswered,
             lies' = lies
      PROVE  /\ \A r \in Requests : request'[r] \in Unanswered <=> request[r] \in Unanswered
             /\ \A b \in Buffers : Working(b)' = Working(b)
  <2>1. \A r \in Requests : request'[r] \in Unanswered <=> request[r] \in Unanswered
    <3>1. request \in [Requests -> {"sent", "read", "rejected", "job", "counted",
                                    "written", "resume", "stuck", "done"}]
      BY <1>0 DEF TypeOK
    <3>2. CASE request' = request
      BY <3>2
    <3>3. ASSUME NEW pc, request' = [request EXCEPT ![q] = pc],
                 pc \in Unanswered <=> request[q] \in Unanswered
          PROVE  \A r \in Requests : request'[r] \in Unanswered <=> request[r] \in Unanswered
      <4>1. \A r \in Requests : request'[r] = IF r = q THEN pc ELSE request[r]
        BY <3>1, <3>3
      <4>2. QED BY <3>3, <4>1
    <3>4. QED BY <1>4, <3>2, <3>3
  <2>2. /\ \A b \in Buffers : Working(b)  = {r \in Requests : request[r]  \in Unanswered /\ lies[r]  = b}
        /\ \A b \in Buffers : Working(b)' = {r \in Requests : request'[r] \in Unanswered /\ lies'[r] = b}
    BY DEF Working, In, Unanswered
  <2>3. QED BY <1>4, <2>1, <2>2
<1>5. CASE ActionResume(q)
  <2>1. Resume /\ request[q] = "resume" /\ lies' = lies
    BY <1>5 DEF ActionResume
  <2>2. /\ \A r \in Requests : request'[r] \in Unanswered <=> request[r] \in Unanswered
        /\ \A b \in Buffers : Working(b)' = Working(b)
    <3>1. PICK pc \in {"stuck", "done"} : request' = [request EXCEPT ![q] = pc]
      BY <1>5 DEF ActionResume
    <3>2. pc \in Unanswered <=> request[q] \in Unanswered
      BY <2>1 DEF Unanswered
    <3>3. QED BY <1>4, <2>1, <3>1, <3>2
  <2>3. RefsExact' /\ CounterExact' /\ Turns'
    BY <1>2, <2>1, <2>2, ResumeExact, ResumeTurns
  <2>4. QED BY <1>1, <2>3 DEF BufferIInv
<1>6. CASE ActionCount(q) \/ ActionWrite(q) \/ ActionRefused(q)
  <2>1. /\ UNCHANGED <<posted, parked, counts, lies>>
        /\ request' = request \/ \E pc : /\ request' = [request EXCEPT ![q] = pc]
                                         /\ pc \in Unanswered <=> request[q] \in Unanswered
    BY <1>6 DEF ActionCount, ActionWrite, ActionRefused, Unanswered
  <2>2. /\ \A r \in Requests : request'[r] \in Unanswered <=> request[r] \in Unanswered
        /\ \A b \in Buffers : Working(b)' = Working(b)
    BY <1>4, <2>1
  <2>3. RefsExact' /\ CounterExact'
    BY <1>0, <1>2, <2>1, <2>2, SameUsers DEF Users, If
  <2>4. Turns'
    BY <1>0, <1>2, <2>1, <2>2 DEF Turns, counts
  <2>5. QED BY <1>1, <2>3, <2>4 DEF BufferIInv
<1>7. QED BY <1>3, <1>5, <1>6 DEF Action

\* The write callback has nothing to do with the buffers.
LEMMA ElsewhereKeeps ==
  ASSUME BufferIInv, TypeOK', UNCHANGED Elsewhere
  PROVE  BufferIInv'
<1>1. UNCHANGED <<context, link, closer, loaded, request, lies, piece, posted, reader, buffer,
                  target, owed, bad, bufRefs, allocated, counter, parked>>
  BY DEF Elsewhere, closing, requests, callback, counts
<1>2. \A b \in Buffers : Users(b)' = Users(b)
  BY <1>1 DEF Users, ReaderHolds, Owed, Working, In, If
<1>3. QED BY <1>1, <1>2 DEF BufferIInv, RefsExact, CounterExact, Turns, Live, If

LEMMA WriterKeeps == BufferIInv /\ (WriteDone \/ WriteSent) => BufferIInv'
<1>1. QED BY WriterType, ElsewhereKeeps DEF BufferIInv

\* serverOnClose frees the parked buffer, which nobody else uses.
LEMMA EndKeeps ==
  ASSUME BufferIInv, link = "open" <=> closer = "none", Settled, Close \/ Closer
  PROVE  BufferIInv'
<1>0. TypeOK /\ RefsExact /\ CounterExact /\ Turns
  BY DEF BufferIInv
<1>1. TypeOK'
  BY <1>0, EndType
<1>2. /\ UNCHANGED <<request, lies, posted, reader, buffer, target, owed, allocated>>
      /\ reader \in Reading => link' = link
  <2>1. UNCHANGED <<requests, callback, posted, allocated>>
    BY DEF Close, Closer, OnCloseLock, OnCloseReads, OnCloseLoad, OnCloseWrites, OnCloseReturn
  <2>2. link' = link \/ reader = "idle" \/ closer = "free"
    BY DEF Close, Closer, OnCloseLock, OnCloseReads, OnCloseLoad, OnCloseWrites, OnCloseReturn, closing
  <2>3. QED BY <1>0, <2>1, <2>2 DEF Turns, Reading, requests, callback
<1>3. /\ If(reader = "count")' = If(reader = "count")
      /\ \A b \in Buffers : ReaderHolds(b)' = ReaderHolds(b) /\ Working(b)' = Working(b)
  BY <1>2 DEF If, ReaderHolds, Owed, Working, In
<1>4. CASE OnCloseLock /\ parked # NoBuffer
  <2>1. /\ parked \in Buffers /\ parked' = NoBuffer /\ counter' = counter - 1
        /\ bufRefs[parked] = 1 /\ bufRefs' = [bufRefs EXCEPT ![parked] = 0]
    BY <1>0, <1>4 DEF OnCloseLock, TypeOK, Turns
  <2>2. FreeReadBuffer(parked)
    BY <1>0, <2>1 DEF FreeReadBuffer, TypeOK
  <2>3. \A c \in Buffers : Users(c)' = Users(c) - If(c = parked)
    <3>1. \A c \in Buffers : ReaderHolds(c) \in Nat /\ Cardinality(Working(c)) \in Nat
      BY <1>0, UsersType
    <3>2. QED BY <1>2, <1>3, <2>1, <3>1, BufferNumbers DEF Users, If
  <2>4. Users(parked) # 0
    BY <1>0, <2>1 DEF RefsExact
  <2>5. RefsExact' /\ CounterExact'
    BY <1>0, <1>3, <2>1, <2>2, <2>3, <2>4, OneUserLess
  <2>6. \A c \in Buffers : bufRefs'[c] = IF c = parked THEN 0 ELSE bufRefs[c]
    BY <1>0, <2>1 DEF TypeOK
  <2>7. reader \notin Reading
    BY <1>0, <2>1, BufferNumbers DEF Turns
  <2>8. Turns'
    BY <1>0, <1>2, <2>1, <2>6, <2>7 DEF Turns, Reading
  <2>9. QED BY <1>1, <2>5, <2>8 DEF BufferIInv
<1>5. CASE ~(OnCloseLock /\ parked # NoBuffer)
  <2>1. UNCHANGED <<counts, parked>>
    BY <1>5 DEF Close, Closer, OnCloseLock, OnCloseReads, OnCloseLoad, OnCloseWrites, OnCloseReturn,
                counts
  <2>2. RefsExact' /\ CounterExact'
    BY <1>0, <1>2, <1>3, <2>1, SameUsers DEF Users, If
  <2>3. Turns'
    BY <1>0, <1>2, <2>1 DEF Turns, counts
  <2>4. QED BY <1>1, <2>2, <2>3 DEF BufferIInv
<1>6. QED BY <1>4, <1>5

-----------------------------------------------------------------------------
(* What serverOnClose waits for *)

\* Nobody uses a buffer when none is alive.
LEMMA NoneAlive ==
  ASSUME BufferIInv, Live = {}
  PROVE  /\ posted = NoBuffer /\ parked = NoBuffer
         /\ reader \in {"idle", "free", "resume", "stuck"} /\ owed = <<>>
         /\ \A q \in Requests : request[q] \notin Unanswered
<1>0. TypeOK /\ RefsExact /\ Turns
  BY DEF BufferIInv
<1>1. \A b \in Buffers : /\ ReaderHolds(b) \in Nat /\ Cardinality(Working(b)) \in Nat
                         /\ If(b = posted) + If(b = parked) + ReaderHolds(b) + Cardinality(Working(b)) <= 0
  <2>1. \A b \in Buffers : ~(bufRefs[b] > 0) /\ bufRefs[b] \in Int
    BY <1>0 DEF Live, TypeOK
  <2>2. QED BY <1>0, <2>1, UsersType DEF RefsExact, Users
<1>2. \A b \in Buffers : b # posted /\ b # parked /\ ReaderHolds(b) = 0 /\ Cardinality(Working(b)) = 0
  BY <1>1 DEF If
<1>3. posted = NoBuffer /\ parked = NoBuffer
  BY <1>0, <1>2 DEF TypeOK
<1>4. reader \in {"idle", "free", "resume", "stuck"}
  <2>1. buffer \in Buffers /\ ReaderHolds(buffer) = 0
    BY <1>0, <1>2 DEF TypeOK
  <2>2. reader \notin Reading
    BY <2>1 DEF ReaderHolds, Reading, If
  <2>3. QED BY <1>0, <2>2 DEF TypeOK, Reading
<1>5. owed = <<>>
  <2>1. CASE reader \in {"free", "resume", "stuck"}
    <3> SUFFICES ASSUME owed # <<>> PROVE FALSE
      OBVIOUS
    <3>1. Head(owed) \in Buffers /\ owed \in Seq(Buffers)
      BY <1>0, HeadTailProperties DEF TypeOK
    <3>2. ReaderHolds(Head(owed)) = Cardinality(Times(owed, Head(owed)))
      BY <2>1 DEF ReaderHolds, Owed, Times
    <3>3. /\ Cardinality(Times(Tail(owed), Head(owed))) \in Nat
          /\ Cardinality(Times(Tail(owed), Head(owed))) = Cardinality(Times(owed, Head(owed))) - 1
      BY <3>1, OwedTail DEF If
    <3>4. QED BY <1>2, <3>1, <3>2, <3>3
  <2>2. QED BY <1>0, <1>4, <2>1 DEF Turns
<1>6. \A q \in Requests : request[q] \notin Unanswered
  <2> SUFFICES ASSUME NEW q \in Requests, request[q] \in Unanswered PROVE FALSE
    OBVIOUS
  <2>1. lies[q] \in Buffers /\ q \in Working(lies[q])
    BY <1>0 DEF Turns, Working, In, Unanswered
  <2>2. QED BY <1>2, <2>1, FinitelyMany, FS_EmptySet
<1>7. QED BY <1>3, <1>4, <1>5, <1>6

\* Once no buffer is alive on a closing connection, none is used again and no write begun.
LEMMA NoneRevives ==
  ASSUME BufferIInv, Live = {}, link # "open", [Next]_vars
  PROVE  Live' = {} /\ started' = started /\ bufRefs' = bufRefs
<1>1. /\ posted = NoBuffer /\ parked = NoBuffer
      /\ reader \in {"idle", "free", "resume", "stuck"} /\ owed = <<>>
      /\ \A q \in Requests : request[q] \notin Unanswered
  BY NoneAlive
<1>2. UNCHANGED <<bufRefs, started>>
  <2>1. CASE Reader
    BY <1>1, <2>1 DEF Reader, ReadOk, ReadFailed, Decode, Reject, ReadOn, ReadAnew, ReadCount, Park,
          ReadNext, ReaderFree, ReaderResume, ReaderReturn, Resume, counts, writes
  <2>2. CASE WriteDone \/ WriteSent \/ \E q \in Requests : Action(q)
    BY <1>1, <2>2 DEF Action, ActionCount, ActionWrite, ActionRefused, ActionFree,
          ActionResume, WriteDone, WriteSent, Resume, Unanswered, counts, writes
  <2>3. CASE Close \/ Closer
    BY <1>1, <2>3 DEF Close, Closer, OnCloseLock, OnCloseReads, OnCloseLoad, OnCloseWrites,
          OnCloseReturn, counts, writes
  <2>4. CASE UNCHANGED vars
    BY <2>4 DEF vars, counts, writes
  <2>5. QED BY <2>1, <2>2, <2>3, <2>4 DEF Next
<1>3. Live' = {}
  BY <1>2 DEF Live
<1>4. QED BY <1>2, <1>3

LEMMA WritersFinite == IsFiniteSet(In("counted")) /\ Cardinality(In("counted")) \in Nat
<1>1. IsFiniteSet(Requests) /\ In("counted") \subseteq Requests
  BY ServerAssumption DEF In
<1>2. QED BY <1>1, FS_Subset, FS_CardinalityType

\* Those who are not about to write or writing change neither number.
LEMMA KeepsWrites ==
  ASSUME WritesCounted, UNCHANGED writes,
         \A q \in Requests : request'[q] = "counted" <=> request[q] = "counted"
  PROVE  WritesCounted'
<1>1. In("counted")' = In("counted")
  BY DEF In
<1>2. QED BY <1>1 DEF WritesCounted, writes

LEMMA WritesStep ==
  ASSUME TypeOK, WritesCounted, [Next]_vars
  PROVE  WritesCounted'
<1>0. /\ request \in [Requests -> {"sent", "read", "rejected", "job", "counted",
                                   "written", "resume", "stuck", "done"}]
      /\ started \in Nat /\ finished \in Nat /\ queued \in Nat
  BY DEF TypeOK
<1>1. started = finished + Cardinality(In("counted")) + queued /\ Cardinality(In("counted")) \in Nat
  BY WritersFinite DEF WritesCounted
<1>2. CASE Reader
  <2>1. UNCHANGED writes
    BY <1>2 DEF Reader, ReadOk, ReadFailed, Decode, Reject, ReadOn, ReadAnew, ReadCount, Park,
          ReadNext, ReaderFree, ReaderResume, ReaderReturn
  <2>2. \A q \in Requests : request'[q] = "counted" <=> request[q] = "counted"
    <3>1. CASE ReadOk
      <4>1. PICK S \in SUBSET In("sent") :
               request' = [q \in Requests |-> IF q \in S THEN "read" ELSE request[q]]
        BY <3>1 DEF ReadOk
      <4>2. QED BY <4>1 DEF In
    <3>2. CASE \E q \in Requests : Decode(q) \/ Reject(q)
      BY <1>0, <3>2 DEF Decode, Reject
    <3>3. CASE UNCHANGED requests
      BY <3>3 DEF requests
    <3>4. QED BY <1>2, <3>1, <3>2, <3>3 DEF Reader, ReadFailed, ReadOn, ReadAnew, ReadCount, Park,
                ReadNext, ReaderFree, ReaderResume, ReaderReturn
  <2>3. QED BY <2>1, <2>2, KeepsWrites
<1>3. ASSUME NEW q \in Requests, ActionFree(q) \/ ActionResume(q)
      PROVE  WritesCounted'
  <2>1. UNCHANGED writes
    BY <1>3 DEF ActionFree, ActionResume
  <2>2. PICK pc : request' = [request EXCEPT ![q] = pc] /\ pc # "counted" /\ request[q] # "counted"
    BY <1>3 DEF ActionFree, ActionResume
  <2>3. \A r \in Requests : request'[r] = IF r = q THEN pc ELSE request[r]
    BY <1>0, <2>2
  <2>4. QED BY <2>1, <2>2, <2>3, KeepsWrites
<1>4. ASSUME NEW q \in Requests, ActionCount(q)
      PROVE  WritesCounted'
  <2>1. /\ request[q] = "job" /\ \A r \in Requests : request'[r] = IF r = q THEN "counted" ELSE request[r]
        /\ started' = started + 1 /\ UNCHANGED <<finished, queued>>
    BY <1>0, <1>4 DEF ActionCount
  <2>2. In("counted")' = In("counted") \cup {q} /\ q \notin In("counted")
    BY <2>1 DEF In
  <2>3. Cardinality(In("counted")') = Cardinality(In("counted")) + 1
    BY <2>2, WritersFinite, FS_AddElement
  <2>4. QED BY <1>0, <1>1, <2>1, <2>3 DEF WritesCounted
<1>5. ASSUME NEW q \in Requests, ActionWrite(q) \/ ActionRefused(q)
      PROVE  WritesCounted'
  <2>1. /\ request[q] = "counted"
        /\ \A r \in Requests : request'[r] = IF r = q THEN "written" ELSE request[r]
        /\ started' = started
        /\ \/ queued' = queued + 1 /\ finished' = finished
           \/ queued' = queued /\ finished' = finished + 1
    BY <1>0, <1>5 DEF ActionWrite, ActionRefused
  <2>2. In("counted")' = In("counted") \ {q} /\ q \in In("counted")
    BY <2>1 DEF In
  <2>3. Cardinality(In("counted")') = Cardinality(In("counted")) - 1
    BY <2>2, WritersFinite, FS_RemoveElement
  <2>4. QED BY <1>0, <1>1, <2>1, <2>3 DEF WritesCounted
<1>6. CASE WriteDone \/ WriteSent
  <2>1. /\ request' = request /\ started' = started
        /\ \/ queued' = queued - 1 /\ finished' = finished + 1
           \/ UNCHANGED <<queued, finished>>
    BY <1>6 DEF WriteDone, WriteSent, requests
  <2>2. In("counted")' = In("counted")
    BY <2>1 DEF In
  <2>3. QED BY <1>0, <1>1, <2>1, <2>2 DEF WritesCounted
<1>7. CASE Close \/ Closer \/ UNCHANGED vars
  <2>1. UNCHANGED <<writes, request>>
    BY <1>7 DEF Close, Closer, OnCloseLock, OnCloseReads, OnCloseLoad, OnCloseWrites,
          OnCloseReturn, requests, vars
  <2>2. QED BY <2>1, KeepsWrites
<1>8. QED BY <1>2, <1>3, <1>4, <1>5, <1>6, <1>7 DEF Next, Action

\* serverOnClose passes its two waits when what it waits for is over.
LEMMA PhasesStep ==
  ASSUME ServerIInv, [Next]_vars
  PROVE  Phases'
<1>0. TypeOK /\ CounterExact /\ Turns /\ BufferIInv /\ Phases /\ WritesCounted
  BY DEF ServerIInv, BufferIInv, Phases
<1>1. WritesCounted'
  BY <1>0, WritesStep
<1>2. \/ UNCHANGED <<link, closing>>
      \/ link = "open" /\ link' = "closing" /\ closer' = "lock" /\ UNCHANGED <<context, loaded>>
      \/ Closer
  <2>1. CASE ReaderReturn \/ Close
    BY <2>1 DEF ReaderReturn, Close, closing
  <2>2. CASE ~(ReaderReturn \/ Close \/ Closer)
    BY <2>2 DEF Next, Reader, ReadOk, ReadFailed, Decode, Reject, ReadOn, ReadAnew, ReadCount, Park,
          ReadNext, ReaderFree, ReaderResume, Action, ActionCount, ActionWrite,
          ActionRefused, ActionFree, ActionResume, WriteDone, WriteSent, vars
  <2>3. QED BY <2>1, <2>2
<1>3. (link = "open" <=> closer = "none")' /\ (context <=> closer \notin {"free", "end"})'
  <2>0. (link = "open" <=> closer = "none") /\ (context <=> closer \notin {"free", "end"})
    BY <1>0 DEF Phases
  <2>1. CASE OnCloseWrites
    <3>1. link' = link /\ closer = "writes?" /\ (context' <=> loaded # finished)
      BY <2>1 DEF OnCloseWrites
    <3>2. closer' = IF loaded = finished THEN "free" ELSE "writes"
      BY <2>1 DEF OnCloseWrites
    <3>3. QED BY <2>0, <3>1, <3>2
  <2>2. CASE OnCloseLock \/ OnCloseReads \/ OnCloseLoad \/ OnCloseReturn
    BY <2>0, <2>2 DEF OnCloseLock, OnCloseReads, OnCloseLoad, OnCloseReturn
  <2>3. CASE ~Closer
    BY <1>2, <2>0, <2>3 DEF closing
  <2>4. QED BY <2>1, <2>2, <2>3 DEF Closer
<1>4. link # "open" => link' # "open"
  BY <1>2 DEF Closer, OnCloseLock, OnCloseReads, OnCloseLoad, OnCloseWrites, OnCloseReturn, closing
<1>5. Live = {} /\ link # "open" => Live' = {} /\ started' = started
  BY <1>0, NoneRevives
<1>6. closer' \in {"writes", "writes?", "free", "end"} => Live' = {}
  <2>1. CASE OnCloseReads
    <3>1. counter = 0 /\ link # "open" /\ UNCHANGED bufRefs
      BY <1>0, <2>1 DEF OnCloseReads, Phases, counts
    <3>2. reader # "count"
      BY <1>0, <3>1 DEF Turns, Reading
    <3>3. Cardinality(Live) = 0
      BY <1>0, <3>1, <3>2, FinitelyMany DEF CounterExact, If
    <3>4. Live = {} /\ Live' = Live
      BY <3>1, <3>3, FinitelyMany, FS_EmptySet DEF Live
    <3>5. QED BY <3>4
  <2>2. CASE ~OnCloseReads
    <3>1. closer' \in {"writes", "writes?", "free", "end"} => closer \in {"writes", "writes?", "free", "end"}
      BY <1>2, <2>2 DEF Closer, OnCloseLock, OnCloseLoad, OnCloseWrites, OnCloseReturn, closing
    <3>2. QED BY <1>0, <1>5, <3>1 DEF Phases
  <2>3. QED BY <2>1, <2>2
<1>7. (closer = "writes?" => loaded = started)'
  <2>1. CASE OnCloseLoad
    BY <2>1 DEF OnCloseLoad, writes
  <2>2. CASE ~OnCloseLoad
    <3>1. closer' = "writes?" => closer = "writes?" /\ loaded' = loaded
      BY <1>2, <2>2 DEF Closer, OnCloseLock, OnCloseReads, OnCloseWrites, OnCloseReturn, closing
    <3>2. QED BY <1>0, <1>5, <3>1 DEF Phases
  <2>3. QED BY <2>1, <2>2
<1>8. ~context' => queued' = 0
  <2>1. CASE OnCloseWrites
    <3>1. /\ ~context' => started = finished
          /\ started \in Nat /\ finished \in Nat /\ queued \in Nat /\ queued' = queued
      BY <1>0, <2>1 DEF OnCloseWrites, Phases, TypeOK, writes
    <3>2. QED BY <1>0, <3>1, WritersFinite DEF WritesCounted
  <2>2. CASE ~OnCloseWrites
    <3>1. context' = context
      BY <1>2, <2>2 DEF Closer, OnCloseLock, OnCloseReads, OnCloseLoad, OnCloseReturn, closing
    <3>2. CASE \E q \in Requests : ActionWrite(q)
      BY <1>0, <3>1, <3>2 DEF ActionWrite, Phases
    <3>3. CASE WriteDone
      <4>1. queued > 0
        BY <3>3 DEF WriteDone
      <4>2. queued # 0
        BY <4>1
      <4>3. QED BY <1>0, <3>1, <4>2 DEF Phases
    <3>4. CASE ~(WriteDone \/ \E q \in Requests : ActionWrite(q))
      <4>1. queued' = queued
        BY <3>4 DEF Next, Reader, ReadOk, ReadFailed, Decode, Reject, ReadOn, ReadAnew, ReadCount, Park,
              ReadNext, ReaderFree, ReaderResume, ReaderReturn, Action, ActionCount,
              ActionRefused, ActionFree, ActionResume, WriteSent, Close, Closer, OnCloseLock,
              OnCloseReads, OnCloseLoad, OnCloseWrites, OnCloseReturn, writes, vars
      <4>2. QED BY <1>0, <3>1, <4>1 DEF Phases
    <3>5. QED BY <3>2, <3>3, <3>4
  <2>3. QED BY <2>1, <2>2
<1>9. parked' # NoBuffer => closer' \in {"none", "lock"}
  <2>1. CASE Park
    <3>1. link = "open" /\ UNCHANGED closer
      BY <1>0, <2>1 DEF Park, Turns, Reading, closing
    <3>2. QED BY <1>0, <3>1 DEF Phases
  <2>2. CASE OnCloseLock
    BY <2>2 DEF OnCloseLock
  <2>3. CASE ~(Park \/ OnCloseLock)
    <3>1. parked' \in {parked, NoBuffer}
      BY <2>3 DEF Next, Reader, ReadOk, ReadFailed, Decode, Reject, ReadOn, ReadAnew, ReadCount,
            ReadNext, ReaderFree, ReaderResume, ReaderReturn, Resume, Action, ActionCount,
            ActionWrite, ActionRefused, ActionFree, ActionResume, WriteDone, WriteSent, Close,
            Closer, OnCloseReads, OnCloseLoad, OnCloseWrites, OnCloseReturn, vars
    <3>2. closer \in {"none", "lock"} => closer' \in {"none", "lock"}
      BY <1>2, <2>3 DEF Closer, OnCloseReads, OnCloseLoad, OnCloseWrites, OnCloseReturn, closing
    <3>3. QED BY <1>0, <3>1, <3>2 DEF Phases
  <2>4. QED BY <2>1, <2>2, <2>3
<1>10. Unlocked' \/ closer' = "lock"
  <2>1. ASSUME Relocks, UNCHANGED closer
        PROVE  closer' = "lock"
    BY <1>0, <2>1 DEF Relocks, Phases
  <2>2. CASE Unlocked' \/ Unlocked
    <3>1. CASE ReaderResume
      <4>1. CASE Relocks
        BY <2>1, <3>1, <4>1 DEF ReaderResume, closing
      <4>2. CASE ~Relocks
        BY <2>2, <3>1, <4>2 DEF ReaderResume, Unlocked, In, requests
      <4>3. QED BY <4>1, <4>2
    <3>2. ASSUME NEW q \in Requests, ActionResume(q)
          PROVE  Unlocked' \/ closer' = "lock"
      <4>1. CASE Relocks
        BY <2>1, <3>2, <4>1 DEF ActionResume, closing
      <4>2. CASE ~Relocks
        <5>1. /\ request' = [request EXCEPT ![q] = "done"] /\ reader' = reader
              /\ request \in [Requests -> {"sent", "read", "rejected", "job", "counted",
                                          "written", "resume", "stuck", "done"}]
          BY <1>0, <3>2, <4>2 DEF ActionResume, callback, TypeOK
        <5>2. QED BY <2>2, <5>1 DEF Unlocked, In
      <4>3. QED BY <4>1, <4>2
    <3>3. CASE ~(ReaderResume \/ \E q \in Requests : ActionResume(q))
      <4>1. reader' = "stuck" => reader = "stuck"
        BY <3>3 DEF Next, Reader, ReadOk, ReadFailed, Decode, Reject, ReadOn, ReadAnew, ReadCount, Park,
              ReadNext, ReaderFree, ReaderReturn, Action, ActionCount, ActionWrite, ActionRefused,
              ActionFree, WriteDone, WriteSent, Close, Closer, OnCloseLock, OnCloseReads,
              OnCloseLoad, OnCloseWrites, OnCloseReturn, callback, vars
      <4>2. \A q \in Requests : request'[q] = "stuck" => request[q] = "stuck"
        <5>1. /\ request \in [Requests -> {"sent", "read", "rejected", "job", "counted",
                                           "written", "resume", "stuck", "done"}]
          BY <1>0 DEF TypeOK
        <5>2. CASE ReadOk
          BY <5>2 DEF ReadOk
        <5>3. CASE request' = request \/ \E q \in Requests, pc \in
                     {"job", "rejected", "counted", "written", "resume", "done"} :
                        request' = [request EXCEPT ![q] = pc]
          BY <5>1, <5>3
        <5>4. QED BY <3>3, <5>2, <5>3 DEF Next, Reader, ReadFailed, Decode, Reject, ReadOn, ReadAnew,
                ReadCount, Park, ReadNext, ReaderFree, ReaderReturn, Action, ActionCount,
                ActionWrite, ActionRefused, ActionFree, WriteDone, WriteSent, Close, Closer,
                OnCloseLock, OnCloseReads, OnCloseLoad, OnCloseWrites, OnCloseReturn, requests, vars
      <4>3. QED BY <2>2, <4>1, <4>2 DEF Unlocked, In
    <3>4. QED BY <3>1, <3>2, <3>3
  <2>3. CASE ~Unlocked
    <3>1. closer = "lock" /\ ~OnCloseLock
      BY <1>0, <2>3 DEF Phases, OnCloseLock
    <3>2. link # "open"
      BY <1>0, <3>1 DEF Phases
    <3>3. QED BY <1>2, <3>1, <3>2 DEF Closer, OnCloseReads, OnCloseLoad, OnCloseWrites, OnCloseReturn,
                 closing
  <2>4. QED BY <2>2, <2>3
<1>11. QED BY <1>1, <1>3, <1>6, <1>7, <1>8, <1>9, <1>10 DEF Phases

-----------------------------------------------------------------------------
(* The theorems *)

\* serverOnConnect has one buffer, which the first read uses.
LEMMA InitServer == Init => ServerIInv
<1> SUFFICES ASSUME Init PROVE ServerIInv
  OBVIOUS
<1>1. TypeOK
  <2>1. 1 \in Buffers /\ <<>> \in Seq(Buffers)
    BY BufferNumbers
  <2>2. bufRefs \in [Buffers -> Int]
    BY DEF Init
  <2>3. ReadTypes
    BY <2>1, <2>2 DEF Init, ReadTypes
  <2>4. RequestTypes
    BY DEF Init, RequestTypes
  <2>5. EndTypes
    BY DEF Init, EndTypes
  <2>6. QED BY <2>3, <2>4, <2>5, TypeParts
<1>2. Live = {1} /\ Cardinality(Live) = 1
  <2>1. Live = {1}
    BY BufferNumbers DEF Init, Live
  <2>2. QED BY <2>1, FS_Singleton
<1>3. CounterExact
  BY <1>2 DEF Init, CounterExact, If
<1>4. RefsExact
  <2>1. \A b \in Buffers : Working(b) = {} /\ ReaderHolds(b) = 0 /\ b # NoBuffer
    BY BufferNumbers DEF Init, Working, In, ReaderHolds
  <2>2. Cardinality({}) = 0
    BY FS_EmptySet
  <2>3. \A b \in Buffers : Users(b) = If(b = 1)
    <3> SUFFICES ASSUME NEW b \in Buffers PROVE Users(b) = If(b = 1)
      OBVIOUS
    <3>1. ReaderHolds(b) = 0 /\ Cardinality(Working(b)) = 0 /\ If(b = parked) = 0
      BY <2>1, <2>2 DEF If, Init
    <3>2. If(b = posted) = If(b = 1) /\ If(b = 1) \in Int
      BY DEF If, Init
    <3>3. QED BY <3>1, <3>2 DEF Users
  <2>4. QED BY <2>3 DEF RefsExact, If, Init
<1>5. Turns
  BY BufferNumbers DEF Init, Turns, NoBuffer, Reading, Unanswered
<1>6. Phases
  <2>1. In("counted") = {}
    BY DEF Init, In
  <2>2. WritesCounted
    <3>1. Cardinality(In("counted")) = 0
      BY <2>1, FS_EmptySet
    <3>2. started = 0 /\ finished = 0 /\ queued = 0
      BY DEF Init
    <3>3. QED BY <3>1, <3>2 DEF WritesCounted
  <2>3. QED BY <2>1, <2>2 DEF Init, Phases, Unlocked, In
<1>7. QED BY <1>1, <1>3, <1>4, <1>5, <1>6 DEF ServerIInv, BufferIInv

LEMMA ServerStep == Settled /\ ServerIInv /\ [Next]_vars => ServerIInv'
<1> SUFFICES ASSUME Settled, ServerIInv, [Next]_vars PROVE ServerIInv'
  OBVIOUS
<1>0. BufferIInv /\ (link = "open" <=> closer = "none")
  BY DEF ServerIInv, Phases
<1>1. Phases'
  BY PhasesStep
<1>2. BufferIInv'
  <2>1. CASE Reader
    BY <1>0, <2>1, ReaderKeeps
  <2>2. CASE \E q \in Requests : Action(q)
    BY <1>0, <2>2, RequestKeeps
  <2>3. CASE Close \/ Closer
    BY <1>0, <2>3, EndKeeps
  <2>4. CASE WriteDone \/ WriteSent
    BY <1>0, <2>4, WriterKeeps
  <2>5. CASE UNCHANGED vars
    <3>1. TypeOK'
      BY <1>0, <2>5 DEF BufferIInv, TypeOK, vars, closing, requests, callback, counts, writes
    <3>2. UNCHANGED Elsewhere
      BY <2>5 DEF vars, Elsewhere
    <3>3. QED BY <1>0, <3>1, <3>2, ElsewhereKeeps
  <2>6. QED BY <2>1, <2>2, <2>3, <2>4, <2>5 DEF Next
<1>3. QED BY <1>1, <1>2 DEF ServerIInv

\* The inductive invariant: the references, the turns of the one read, and what
\* serverOnClose has waited for.
THEOREM ServerInvariance ==
  ASSUME Settled
  PROVE  Spec => []ServerIInv
<1>1. QED BY InitServer, ServerStep, PTL DEF Spec

\* serverFreeReadBuffer frees no buffer under a user and leaks none, and read_counter
\* is the number of buffers that are alive.
THEOREM BuffersAreExact ==
  ASSUME Settled
  PROVE  Spec => []BufferRefsExact
<1>1. ServerIInv => BufferRefsExact
  BY DEF ServerIInv, BufferIInv, RefsExact, CounterExact, Users, Working, BufferRefsExact
<1>2. QED BY <1>1, ServerInvariance, PTL

\* The assertion of serverRead that nothing is parked when it parks (154), and that a
\* connection never has two reads.
THEOREM OneReadAtATime ==
  ASSUME Settled
  PROVE  Spec => []OneRead
<1>1. ServerIInv => OneRead
  <2> SUFFICES ASSUME TypeOK, Turns PROVE OneRead
    BY DEF ServerIInv, BufferIInv
  <2>1. posted = NoBuffer \/ parked = NoBuffer
    BY DEF Turns
  <2>2. reader \in Reading => posted = NoBuffer /\ parked = NoBuffer
    BY DEF Turns
  <2>3. {b \in {posted, parked} : b # NoBuffer} =
           IF posted # NoBuffer THEN {posted} ELSE IF parked # NoBuffer THEN {parked} ELSE {}
    BY <2>1
  <2>4. /\ Cardinality({b \in {posted, parked} : b # NoBuffer}) \in {0, 1}
        /\ reader \in Reading => Cardinality({b \in {posted, parked} : b # NoBuffer}) = 0
    BY <2>2, <2>3, FS_EmptySet, FS_Singleton
  <2>5. QED BY <2>2, <2>4 DEF OneRead, Reading, If
<1>2. QED BY <1>1, ServerInvariance, PTL

\* serverOnClose frees the context after the read, the buffers, the responses and the
\* counted writes are over.
THEOREM ClosesAfterUsers ==
  ASSUME Settled
  PROVE  Spec => []OnCloseWaits
<1>1. ServerIInv => OnCloseWaits
  <2> SUFFICES ASSUME ServerIInv, ~context PROVE OnCloseWaits
    BY DEF OnCloseWaits
  <2>1. BufferIInv /\ Live = {} /\ queued = 0 /\ reader # "stuck"
    BY DEF ServerIInv, Phases, Unlocked
  <2>2. QED BY <2>1, NoneAlive DEF OnCloseWaits, In, Unanswered
<1>2. QED BY <1>1, ServerInvariance, PTL

-----------------------------------------------------------------------------
(* The limit of the read buffers *)

\* The half of a limit is below it.
LEMMA HalfIsLess == Half \in Nat /\ MaxCounter \in Nat \ {0} /\ Half < MaxCounter
<1>1. MaxCounter \in Nat \ {0}
  BY ServerAssumption
<1>2. QED BY <1>1 DEF Half

\* read_counter and the buffer that is not counted yet are the live ones.
LEMMA LiveCounted ==
  ASSUME TypeOK, CounterExact
  PROVE  /\ counter \in Int /\ Cardinality(Live) \in Nat
         /\ reader = "count" => Cardinality(Live) = counter + 1
         /\ reader # "count" => Cardinality(Live) = counter
  BY FinitelyMany DEF TypeOK, CounterExact, If

\* ... also after a step.
LEMMA LiveCountedNext ==
  ASSUME TypeOK', CounterExact'
  PROVE  /\ counter' \in Int /\ Cardinality(Live)' \in Nat
         /\ reader' = "count" => Cardinality(Live)' = counter' + 1
         /\ reader' # "count" => Cardinality(Live)' = counter'
<1>1. IsFiniteSet(Buffers) /\ Live' \subseteq Buffers
  BY ServerAssumption, FS_Interval DEF Buffers, Live
<1>2. Cardinality(Live)' \in Nat
  BY <1>1, FS_Subset, FS_CardinalityType
<1>3. counter' \in Int /\ counter' = Cardinality(Live)' - If(reader = "count")'
  BY DEF TypeOK, CounterExact
<1>4. QED BY <1>2, <1>3 DEF If

\* Counting in one more on both sides.
LEMMA NoMoreAfter ==
  ASSUME NEW a \in Int, NEW b \in Int, b <= a
  PROVE  b + 1 <= a + 1
  OBVIOUS

\* Posting the parked read leaves room, in time; on a closing connection its buffer goes.
LEMMA ResumeLeavesRoom ==
  ASSUME BufferIInv, BufferIInv', RoomForOne, ResumesInTime, Resume, link' = link,
         Resuming,
         reader' = reader \/ (reader = "resume" /\ reader' \in {"free", "stuck"})
  PROVE  RoomForOne'
<1>0. TypeOK /\ CounterExact /\ Turns
  BY DEF BufferIInv
<1> DEFINE n == Cardinality(Live)
<1>1. /\ counter \in Int /\ n \in Nat
      /\ reader = "count" => n = counter + 1
      /\ reader # "count" => n = counter
  BY <1>0, LiveCounted
<1>2. /\ counter' \in Int /\ n' \in Nat
      /\ reader' = "count" => n' = counter' + 1
      /\ reader' # "count" => n' = counter'
  BY LiveCountedNext DEF BufferIInv
<1>3. /\ RoomForOne <=> /\ n <= MaxCounter
                        /\ link = "open" /\ parked = NoBuffer /\ reader \notin {"count", "park"}
                              => n < MaxCounter
      /\ RoomForOne' <=> /\ n' <= MaxCounter
                         /\ link' = "open" /\ parked' = NoBuffer /\ reader' \notin {"count", "park"}
                               => n' < MaxCounter
  BY DEF RoomForOne
<1> HIDE DEF n
<1>4. /\ reader' = "count" <=> reader = "count"
      /\ reader' \in {"count", "park"} <=> reader \in {"count", "park"}
  OBVIOUS
<1>5. counter' = counter \/ (link # "open" /\ counter' = counter - 1)
  BY <1>1 DEF Resume, FreeReadBuffer, counts
<1>6. link = "open" /\ parked # NoBuffer => n <= Half
  BY <1>0, <1>1 DEF ResumesInTime, Turns, Reading
<1>7. n' <= n /\ (link = "open" => n' = n)
  <2>1. CASE reader = "count"
    <3>1. n \in Nat /\ n' \in Nat /\ n = counter + 1 /\ n' = counter' + 1
      BY <1>1, <1>2, <1>4, <2>1
    <3>2. counter \in Int /\ counter' \in Int /\ counter' <= counter
      BY <1>1, <1>2, <1>5
    <3>3. n' <= n
      <4>1. counter' + 1 <= counter + 1
        BY ONLY <3>2, NoMoreAfter
      <4>2. QED BY <3>1, <4>1, Zenon
    <3>4. link = "open" => n' = n
      BY <1>5, <3>1
    <3>5. QED BY <3>3, <3>4
  <2>2. CASE reader # "count"
    BY <1>1, <1>2, <1>4, <1>5, <2>2
  <2>3. QED BY <2>1, <2>2
<1>8. QED BY <1>1, <1>2, <1>4, <1>6, <1>7, HalfIsLess, <1>3

\* Every step that is in time leaves room.
LEMMA LeavesRoom ==
  ASSUME BufferIInv, BufferIInv', link = "open" <=> closer = "none",
         RoomForOne, ResumesInTime, [Next]_vars
  PROVE  RoomForOne'
<1>0. TypeOK /\ CounterExact /\ Turns
  BY DEF BufferIInv
<1> DEFINE n == Cardinality(Live)
<1>1. /\ counter \in Int /\ n \in Nat
      /\ reader = "count" => n = counter + 1
      /\ reader # "count" => n = counter
  BY <1>0, LiveCounted
<1>2. /\ counter' \in Int /\ n' \in Nat
      /\ reader' = "count" => n' = counter' + 1
      /\ reader' # "count" => n' = counter'
  BY LiveCountedNext DEF BufferIInv
<1>3. /\ RoomForOne <=> /\ n <= MaxCounter
                        /\ link = "open" /\ parked = NoBuffer /\ reader \notin {"count", "park"}
                              => n < MaxCounter
      /\ RoomForOne' <=> /\ n' <= MaxCounter
                         /\ link' = "open" /\ parked' = NoBuffer /\ reader' \notin {"count", "park"}
                               => n' < MaxCounter
  BY DEF RoomForOne
<1> HIDE DEF n
<1>4. MaxCounter \in Nat
  BY HalfIsLess
<1>5. CASE ReadAnew
  <2>1. reader = "parse" /\ reader' = "count" /\ counter' = counter
    BY <1>5 DEF ReadAnew
  <2>2. link = "open" /\ parked = NoBuffer
    BY <1>0, <2>1 DEF Turns, Reading
  <2>3. QED BY <1>1, <1>2, <1>4, <2>1, <2>2, <1>3
<1>6. CASE ReadCount
  <2>1. /\ reader = "count" /\ counter' = counter + 1
        /\ reader' = IF counter + 1 = MaxCounter THEN "park" ELSE "read"
    BY <1>6 DEF ReadCount
  <2>2. QED BY <1>1, <1>2, <1>4, <2>1, <1>3
<1>7. CASE Park
  <2>1. reader = "park" /\ reader' = "free" /\ counter' = counter /\ parked' # NoBuffer
    BY <1>0, <1>7, BufferNumbers DEF Park, TypeOK, counts
  <2>2. QED BY <1>1, <1>2, <1>4, <2>1, <1>3
<1>8. CASE ReaderResume \/ \E q \in Requests : ActionResume(q)
  <2>1. /\ Resume /\ link' = link
        /\ Resuming
        /\ reader' = reader \/ (reader = "resume" /\ reader' \in {"free", "stuck"})
    BY <1>8 DEF ReaderResume, ActionResume, callback, In, Resuming
  <2>2. QED BY <2>1, ResumeLeavesRoom
<1>9. ASSUME /\ reader' = "count" <=> reader = "count"
             /\ reader' \in {"count", "park"} <=> reader \in {"count", "park"}
             /\ counter' = counter \/ counter' = counter - 1
             /\ link' = "open" => link = "open" /\ parked' = parked
      PROVE  RoomForOne'
  <2>1. n' <= n
    <3>1. CASE reader = "count"
      <4>1. n \in Nat /\ n' \in Nat /\ n = counter + 1 /\ n' = counter' + 1
        BY <1>1, <1>2, <1>9, <3>1
      <4>2. counter \in Int /\ counter' \in Int /\ counter' <= counter
        BY <1>1, <1>2, <1>9
      <4>3. counter' + 1 <= counter + 1
        BY ONLY <4>2, NoMoreAfter
      <4>4. QED BY <4>1, <4>3, Zenon
    <3>2. CASE reader # "count"
      BY <1>1, <1>2, <1>9, <3>2
    <3>3. QED BY <3>1, <3>2
  <2>2. QED BY <1>1, <1>2, <1>4, <1>9, <2>1, <1>3
<1>10. CASE \/ ReadOk \/ ReadFailed \/ ReadOn \/ ReadNext \/ ReaderFree \/ ReaderReturn
           \/ \E q \in Requests : Decode(q) \/ Reject(q)
  <2>1. /\ reader' = "count" <=> reader = "count"
        /\ reader' \in {"count", "park"} <=> reader \in {"count", "park"}
    BY <1>10 DEF ReadOk, ReadFailed, ReadOn, ReadNext, ReaderFree, ReaderReturn, Decode, Reject, callback
  <2>2. counter' = counter \/ counter' = counter - 1
    BY <1>10 DEF ReadOk, ReadFailed, ReadOn, ReadNext, ReaderFree, ReaderReturn, Decode, Reject,
                FreeReadBuffer, counts
  <2>3. link' = "open" => link = "open" /\ parked' = parked
    BY <1>10 DEF ReadOk, ReadFailed, ReadOn, ReadNext, ReaderFree, ReaderReturn, Decode, Reject
  <2>4. QED BY <1>9, <2>1, <2>2, <2>3
<1>11. CASE \/ WriteDone \/ WriteSent
            \/ \E q \in Requests : ActionCount(q) \/ ActionWrite(q) \/ ActionRefused(q) \/ ActionFree(q)
  <2>1. reader' = reader /\ link' = link /\ parked' = parked
    BY <1>11 DEF WriteDone, WriteSent, ActionCount, ActionWrite, ActionRefused,
                 ActionFree, callback
  <2>2. counter' = counter \/ counter' = counter - 1
    BY <1>11 DEF WriteDone, WriteSent, ActionCount, ActionWrite, ActionRefused,
                 ActionFree, FreeReadBuffer, counts
  <2>3. QED BY <1>9, <2>1, <2>2
<1>12. CASE Close \/ Closer
  <2>1. reader' = reader
    BY <1>12 DEF Close, Closer, OnCloseLock, OnCloseReads, OnCloseLoad, OnCloseWrites, OnCloseReturn,
                 callback
  <2>2. counter' = counter \/ counter' = counter - 1
    BY <1>12 DEF Close, Closer, OnCloseLock, OnCloseReads, OnCloseLoad, OnCloseWrites, OnCloseReturn,
                 counts
  <2>3. link' = "open" => link = "open" /\ parked' = parked
    BY <1>12 DEF Close, Closer, OnCloseLock, OnCloseReads, OnCloseLoad, OnCloseWrites, OnCloseReturn
  <2>4. QED BY <1>9, <2>1, <2>2, <2>3
<1>13. CASE UNCHANGED vars
  <2>1. UNCHANGED <<reader, counter, link, parked>>
    BY <1>13 DEF vars, callback, counts
  <2>2. QED BY <1>9, <2>1
<1>14. QED BY <1>5, <1>6, <1>7, <1>8, <1>10, <1>11, <1>12, <1>13 DEF Next, Reader, Action

\* A connection holds no more read buffers than max_read_buffer_counter, and has one read, as
\* long as the lock of the parked read is taken in time: for every limit from two on, whatever
\* the requests.  That a thread comes late (68-73) is all that can break the limit.
THEOREM LimitIfInTime ==
  ASSUME Settled, MaxCounter >= 2
  PROVE  Spec => BackPressure
<1>1. Init => RoomForOne
  <2> SUFFICES ASSUME Init PROVE RoomForOne
    OBVIOUS
  <2>1. Cardinality(Live) = counter /\ counter = 1
    <3>1. ServerIInv
      BY InitServer
    <3>2. QED BY <3>1, LiveCounted DEF ServerIInv, BufferIInv, Init
  <2>2. QED BY <2>1, HalfIsLess DEF RoomForOne
<1>2. ServerIInv /\ ServerIInv' /\ RoomForOne /\ ResumesInTime /\ [Next]_vars => RoomForOne'
  BY LeavesRoom DEF ServerIInv, Phases
<1>3. Spec => []ServerIInv /\ []OneRead
  BY ServerInvariance, OneReadAtATime, PTL
<1>4. QED BY <1>1, <1>2, <1>3, PTL DEF Spec, BackPressure

\* A parked read has somebody who will post it, for every limit: what can break this is that
\* the buffers are released down to the half before the read is parked (151-156).
THEOREM ParkedIsNotForgotten ==
  ASSUME Settled
  PROVE  Spec => ([]ParksInTime => []ParkedResumes)
<1>1. Init => ParkedResumes
  BY DEF Init, ParkedResumes
<1>2. ASSUME ServerIInv, ServerIInv', ParksInTime, ParkedResumes, [Next]_vars
      PROVE  ParkedResumes'
  <2>0. /\ counter \in Int /\ counter' \in Int /\ Half \in Nat
        /\ request \in [Requests -> {"sent", "read", "rejected", "job", "counted",
                                     "written", "resume", "stuck", "done"}]
    BY <1>2, HalfIsLess DEF ServerIInv, BufferIInv, TypeOK
  <2>1. CASE Park
    BY <1>2, <2>0, <2>1 DEF Park, ParksInTime, ParkedResumes, counts
  <2>2. CASE ReaderResume \/ \E q \in Requests : ActionResume(q)
    BY <2>2 DEF ReaderResume, ActionResume, Resume, ParkedResumes
  <2>3. ASSUME NEW b, FreeReadBuffer(b), ReachesHalf(b) => Resuming', Resuming => Resuming',
               UNCHANGED <<parked, link>>
        PROVE  ParkedResumes'
    <3>1. counter' = counter \/ (bufRefs[b] = 1 /\ counter' = counter - 1)
      BY <2>3 DEF FreeReadBuffer
    <3>2. counter > Half => counter' > Half \/ Resuming'
      BY <2>0, <2>3, <3>1 DEF ReachesHalf
    <3>3. QED BY <1>2, <2>3, <3>2 DEF ParkedResumes
  <2>4. CASE ReaderFree
    <3>1. /\ FreeReadBuffer(Head(owed)) /\ UNCHANGED <<parked, link, request>>
          /\ reader = "free" /\ reader' = IF ReachesHalf(Head(owed)) THEN "resume" ELSE "free"
      BY <2>4 DEF ReaderFree, requests
    <3>2. (ReachesHalf(Head(owed)) => Resuming') /\ (Resuming => Resuming')
      BY <3>1 DEF Resuming, In
    <3>3. QED BY <2>3, <3>1, <3>2
  <2>5. ASSUME NEW q \in Requests, ActionFree(q)
        PROVE  ParkedResumes'
    <3>1. /\ FreeReadBuffer(lies[q]) /\ UNCHANGED <<parked, link, reader>> /\ request[q] = "written"
          /\ \A r \in Requests : request'[r] =
                IF r = q THEN IF ReachesHalf(lies[q]) THEN "resume" ELSE "done" ELSE request[r]
      BY <2>0, <2>5 DEF ActionFree, callback
    <3>2. (ReachesHalf(lies[q]) => Resuming') /\ (Resuming => Resuming')
      BY <3>1 DEF Resuming, In
    <3>3. QED BY <2>3, <3>1, <3>2
  <2>6. ASSUME link' = "open" => link = "open", parked' \in {parked, NoBuffer},
               Resuming => Resuming', link' = "open" => counter' >= counter
        PROVE  ParkedResumes'
    <3>1. counter > Half /\ link' = "open" => counter' > Half
      BY <2>0, <2>6
    <3>2. QED BY <1>2, <2>6, <3>1 DEF ParkedResumes
  <2>7. CASE Close \/ Closer \/ WriteDone \/ WriteSent \/ UNCHANGED vars
    <3>1. Resuming' <=> Resuming
      BY <2>7 DEF Close, Closer, OnCloseLock, OnCloseReads, OnCloseLoad, OnCloseWrites, OnCloseReturn,
            WriteDone, WriteSent, vars, requests, callback, Resuming, In
    <3>2. (link' = "open" => link = "open") /\ parked' \in {parked, NoBuffer}
      BY <2>7 DEF Close, Closer, OnCloseLock, OnCloseReads, OnCloseLoad, OnCloseWrites, OnCloseReturn,
            WriteDone, WriteSent, vars
    <3>3. link' = "open" => counter' = counter
      BY <1>2, <2>7 DEF ServerIInv, Phases, Close, Closer, OnCloseLock, OnCloseReads, OnCloseLoad,
            OnCloseWrites, OnCloseReturn, WriteDone, WriteSent, vars, counts
    <3>4. QED BY <2>0, <2>6, <3>1, <3>2, <3>3
  <2>8. CASE \E q \in Requests : ActionCount(q) \/ ActionWrite(q) \/ ActionRefused(q)
    <3>1. PICK q \in Requests : ActionCount(q) \/ ActionWrite(q) \/ ActionRefused(q)
      BY <2>8
    <3>2. /\ UNCHANGED <<parked, link, counter, reader>> /\ request[q] # "resume"
          /\ \A r \in Requests : r # q => request'[r] = request[r]
      BY <2>0, <3>1 DEF ActionCount, ActionWrite, ActionRefused, callback, counts
    <3>3. Resuming => Resuming'
      BY <3>2 DEF Resuming, In
    <3>4. QED BY <2>0, <2>6, <3>2, <3>3
  <2>9. CASE \/ ReadOk \/ ReadFailed \/ ReadOn \/ ReadAnew \/ ReadCount \/ ReadNext \/ ReaderReturn
             \/ \E q \in Requests : Decode(q) \/ Reject(q)
    <3>1. /\ reader # "resume" /\ parked' = parked /\ (link' = "open" => link = "open")
          /\ counter' = counter \/ counter' = counter + 1
      BY <2>9 DEF ReadOk, ReadFailed, ReadOn, ReadAnew, ReadCount, ReadNext, ReaderReturn, Decode,
            Reject, counts
    <3>2. \A r \in Requests : request[r] = "resume" => request'[r] = "resume"
      <4>1. CASE ReadOk
        BY <4>1 DEF ReadOk, In
      <4>2. CASE \E q \in Requests : Decode(q) \/ Reject(q)
        BY <2>0, <4>2 DEF Decode, Reject
      <4>3. CASE UNCHANGED requests
        BY <4>3 DEF requests
      <4>4. QED BY <2>9, <4>1, <4>2, <4>3 DEF ReadFailed, ReadOn, ReadAnew, ReadCount, ReadNext,
                  ReaderReturn
    <3>3. Resuming => Resuming'
      BY <3>1, <3>2 DEF Resuming, In
    <3>4. QED BY <2>0, <2>6, <3>1, <3>3
  <2>10. QED BY <1>2, <2>1, <2>2, <2>4, <2>5, <2>7, <2>8, <2>9 DEF Next, Reader, Action
<1>3. QED BY <1>1, <1>2, ServerInvariance, PTL DEF Spec
=============================================================================
