-------------------------------- MODULE Wire --------------------------------
(***************************************************************************)
(* Requests and responses on the byte stream of one connection: the        *)
(* encoders and decoders of the three services, the read loops of          *)
(* corecode/client/Client.c and corecode/server/Server.c that cut the      *)
(* stream into messages, and the read buffers between them.                *)
(*                                                                         *)
(* A cell of the stream is one field of a structure.  Cells that a decoder *)
(* looks at (request id, error id, sequence, lengths) hold their number,   *)
(* all others hold Opaque.  The stream delivers cells in order and in      *)
(* chunks of any size, as Connection.tla shows; how the connection closes, *)
(* who frees which buffer, and what a response nobody waits for does, is   *)
(* the subject of Client.tla and Server.tla.                               *)
(***************************************************************************)
EXTENDS Naturals, Sequences, FiniteSets, SequencesExt

CONSTANTS Requests,      \* requests: [service, op, path]
          Plans,         \* what a client's users may want to send: sequences of Requests
          MaxCalls,      \* bound: length of a plan
          Paths,         \* lengths of a path
          Maps,          \* cluster maps: [bsets, replicas, shares]
          MaxEntries,    \* bound: entries of a list response
          ClientBuffer,  \* ClientParam.read_buffer_size, in cells
          ServerBuffer   \* ServerParam.read_buffer_size, in cells

ASSUME BufferAssumption == ClientBuffer \in Nat /\ ServerBuffer \in Nat
\* What a client's users send goes to one server, which has the requests of one service.
Consistent(p) == /\ p \in Seq(Requests) /\ Len(p) \in 1..MaxCalls
                 /\ \A i \in DOMAIN p : p[i].service = p[1].service

ASSUME PlanAssumption == \A p \in Plans : Consistent(p)

Opaque == 99
Blank(n) == [i \in 1..n |-> Opaque]

-----------------------------------------------------------------------------
(* The structures that go over the wire.  Request: the ids and the         *)
(* sequence; Response: the error id and the sequence.                      *)

HeaderLen == 2

ClusterIds == [LatestVersion |-> 0, GetLatest |-> 1, Add |-> 2, Remove |-> 3, KeepAlive |-> 4,
               KeepAliveClient |-> 5, ChangeLog |-> 6, Status |-> 7, Stop |-> 8]
ObjectIds == [Get |-> 0, Put |-> 1, List |-> 2, Delete |-> 3, Stop |-> 4]
FooIds    == [Get |-> 0, Put |-> 1, List |-> 2]

\* Fields behind the header of the structures that are copied as they are.
ClusterFields == [request  |-> [LatestVersion |-> 0, GetLatest |-> 0, KeepAlive |-> 3,
                                KeepAliveClient |-> 0, Status |-> 0, Stop |-> 0],
                  response |-> [LatestVersion |-> 1, KeepAlive |-> 2, KeepAliveClient |-> 1,
                                Stop |-> 0]]
ObjectFields == [request  |-> [Get |-> 2, List |-> 4, Delete |-> 2, Stop |-> 0],
                 response |-> [Put |-> 0, Delete |-> 0, Stop |-> 0]]
FooFields    == [request  |-> [Get |-> 1, List |-> 2], response |-> [Put |-> 0]]

\* struct Object: element, path_length, path, size; struct Foo: element, id, bucket,
\* path_length, path, size.  The path follows as data.
ObjectLen  == 4
ObjectPath == 2
Object(path) == Blank(ObjectPath - 1) \o <<path>> \o Blank(ObjectLen - ObjectPath + path)
FooLen  == 6
FooPath == 4
Foo(path) == Blank(FooPath - 1) \o <<path>> \o Blank(FooLen - FooPath + path)

\* clusterMapDumpObjectServiceMap: version, the three numbers, each bset with its
\* replicas, each service (id, host, port, status, bset_length) with its bsets.
MapLen     == 4
ServiceLen == 5
DumpedService(share) == Blank(ServiceLen - 1) \o <<share>> \o Blank(share)
DumpedMap(m) == <<Opaque, m.bsets, m.replicas, Len(m.shares)>>
                \o Blank(m.bsets * (1 + m.replicas))
                \o FlattenSeq([i \in DOMAIN m.shares |-> DumpedService(m.shares[i])])

\* What may be sent: requests that exist, with paths, and maps.
Sendable(q) == /\ q.path \in Nat
               /\ \/ q.service = "Cluster" /\ q.op \in DOMAIN ClusterFields.request
                  \/ q.service = "Object" /\ q.op \in DOMAIN ObjectFields.request \cup {"Put"}
                  \/ q.service = "Foo" /\ q.op \in DOMAIN FooFields.request \cup {"Put"}
Dumpable(m) == m.bsets \in Nat /\ m.replicas \in Nat /\ m.shares \in Seq(Nat)

ASSUME RequestAssumption == /\ \A q \in Requests : Sendable(q)
                            /\ \A m \in Maps : Dumpable(m)
                            /\ Paths \subseteq Nat /\ MaxEntries \in Nat /\ MaxCalls \in Nat

-----------------------------------------------------------------------------
(* Decoding: how many cells the message at the head of buf consumes; 0 when *)
(* it is not complete.                                                      *)

Whole(n, buf) == IF Len(buf) < n THEN 0 ELSE n

\* A structure of n cells whose at-th is the length of the data behind it.
WithPath(n, at, buf) == IF Len(buf) < n THEN 0 ELSE Whole(n + buf[at], buf)

\* count such structures of n cells each, behind the first from cells of buf.
Entries(from, count, n, at, buf) ==
    LET end[i \in 0..count] ==
            IF i = 0 THEN Whole(from, buf)
            ELSE IF end[i - 1] = 0 THEN 0
            ELSE IF Len(buf) < end[i - 1] + n THEN 0
            ELSE Whole(end[i - 1] + n + buf[end[i - 1] + at], buf)
    IN end[count]

\* clusterMapParseObjectServiceMap on what follows the first from cells.
ParsedMap(from, buf) ==
    IF Len(buf) < from + MapLen THEN 0
    ELSE Entries(from + MapLen + buf[from + 2] * (1 + buf[from + 3]), buf[from + 4],
                 ServiceLen, ServiceLen, buf)

-----------------------------------------------------------------------------
(* Request encoders and decoders, one table per service.  A request is     *)
(* [service, op, path], path being 0 where it has none; its cells are the  *)
(* header (id, sequence) and the body.                                     *)

ClusterRequestEncoder(q) == Blank(ClusterFields.request[q.op])

\* Get, List and Delete send the structure only, not the path it points to.
ObjectRequestEncoder(q) == IF q.op = "Put" THEN Object(q.path)
                           ELSE Blank(ObjectFields.request[q.op])

\* Mutant: the path of a Foo is left out of the length to write.
FooRequestEncoderShort(q) == IF q.op = "Put" THEN SubSeq(Foo(q.path), 1, FooLen)
                             ELSE Blank(FooFields.request[q.op])

FooRequestEncoder(q) == IF q.op = "Put" THEN Foo(q.path) ELSE Blank(FooFields.request[q.op])

ClusterRequestDecoder(op, buf) == Whole(HeaderLen + ClusterFields.request[op], buf)

ObjectRequestDecoder(op, buf) ==
    IF op = "Put" THEN WithPath(HeaderLen + ObjectLen, HeaderLen + ObjectPath, buf)
    ELSE Whole(HeaderLen + ObjectFields.request[op], buf)

FooRequestDecoder(op, buf) ==
    IF op = "Put" THEN WithPath(HeaderLen + FooLen, HeaderLen + FooPath, buf)
    ELSE Whole(HeaderLen + FooFields.request[op], buf)

-----------------------------------------------------------------------------
(* What the actions answer: [error, paths, map], and the encoders and      *)
(* decoders of the responses.  An answer with an error is a bare Response. *)

NoMap == [bsets |-> 0, replicas |-> 0, shares |-> <<>>]
Error == [error |-> 1, paths |-> <<>>, map |-> NoMap]
Found(paths) == [error |-> 0, paths |-> paths, map |-> NoMap]
Nothing == Found(<<>>)

ClusterAction(q) == IF q.op \in {"GetLatest", "Status"} THEN {[Nothing EXCEPT !.map = m] : m \in Maps}
                    ELSE {Nothing}

ObjectAction(q) == IF q.op \in {"List", "Stop"} THEN {Nothing} ELSE {Error}

FooAction(q) == CASE q.op = "Get"  -> {Error} \cup {Found(<<p>>) : p \in Paths}
                  [] q.op = "Put"  -> {Nothing}
                  [] q.op = "List" -> {Found(ps) : ps \in UNION {[1..n -> Paths] : n \in 0..MaxEntries}}

StatusLen == 3   \* total_objects, used, free

ClusterResponseEncoder(q, r) ==
    CASE q.op = "GetLatest" -> DumpedMap(r.map)
      [] q.op = "Status"    -> Blank(StatusLen) \o DumpedMap(r.map)
      [] OTHER              -> Blank(ClusterFields.response[q.op])

\* ObjectActionGet never finds an object, ObjectActionList never lists one.
ObjectResponseEncoder(q, r) ==
    CASE q.op = "Get"  -> Object(r.paths[1])
      [] q.op = "List" -> <<Len(r.paths)>> \o FlattenSeq([i \in DOMAIN r.paths |-> Object(r.paths[i])])
      [] OTHER         -> Blank(ObjectFields.response[q.op])

FooResponseEncoder(q, r) ==
    CASE q.op = "Get"  -> Foo(r.paths[1])
      [] q.op = "List" -> <<Len(r.paths)>> \o FlattenSeq([i \in DOMAIN r.paths |-> Foo(r.paths[i])])
      [] OTHER         -> Blank(FooFields.response[q.op])

ClusterResponseDecoder(op, buf) ==
    CASE op = "GetLatest" -> ParsedMap(HeaderLen, buf)
      [] op = "Status"    -> ParsedMap(HeaderLen + StatusLen, buf)
      [] OTHER            -> Whole(HeaderLen + ClusterFields.response[op], buf)

ListDecoder(n, at, buf) == IF Len(buf) < HeaderLen + 1 THEN 0
                           ELSE Entries(HeaderLen + 1, buf[HeaderLen + 1], n, at, buf)

ObjectResponseDecoder(op, buf) ==
    CASE op = "Get"  -> WithPath(HeaderLen + ObjectLen, HeaderLen + ObjectPath, buf)
      [] op = "List" -> ListDecoder(ObjectLen, ObjectPath, buf)
      [] OTHER       -> Whole(HeaderLen + ObjectFields.response[op], buf)

FooResponseDecoder(op, buf) ==
    CASE op = "Get"  -> WithPath(HeaderLen + FooLen, HeaderLen + FooPath, buf)
      [] op = "List" -> ListDecoder(FooLen, FooPath, buf)
      [] OTHER       -> Whole(HeaderLen + FooFields.response[op], buf)

ErrorResponseEncoder == <<>>
ErrorResponseDecoder(buf) == Whole(HeaderLen, buf)

-----------------------------------------------------------------------------
(* The tables indexed by service and request id.                           *)

Ids == [Cluster |-> ClusterIds, Object |-> ObjectIds, Foo |-> FooIds]

RequestEncoder(q) == CASE q.service = "Cluster" -> ClusterRequestEncoder(q)
                       [] q.service = "Object"  -> ObjectRequestEncoder(q)
                       [] q.service = "Foo"     -> FooRequestEncoder(q)

RequestDecoder(service, op, buf) ==
    CASE service = "Cluster" -> ClusterRequestDecoder(op, buf)
      [] service = "Object"  -> ObjectRequestDecoder(op, buf)
      [] service = "Foo"     -> FooRequestDecoder(op, buf)

Action(q) == CASE q.service = "Cluster" -> ClusterAction(q)
               [] q.service = "Object"  -> ObjectAction(q)
               [] q.service = "Foo"     -> FooAction(q)

\* serverDoActionCallback: an error is encoded the same for all.
ResponseEncoder(q, r) == IF r.error # 0 THEN ErrorResponseEncoder
                         ELSE CASE q.service = "Cluster" -> ClusterResponseEncoder(q, r)
                                [] q.service = "Object"  -> ObjectResponseEncoder(q, r)
                                [] q.service = "Foo"     -> FooResponseEncoder(q, r)

\* clientReadCallback: the error id decides, then the decoder kept with the request.
ResponseDecoder(q, buf) == IF buf[1] # 0 THEN ErrorResponseDecoder(buf)
                           ELSE CASE q.service = "Cluster" -> ClusterResponseDecoder(q.op, buf)
                                  [] q.service = "Object"  -> ObjectResponseDecoder(q.op, buf)
                                  [] q.service = "Foo"     -> FooResponseDecoder(q.op, buf)

\* Whole messages.
EncodedRequest(q, sequence) == <<Ids[q.service][q.op], sequence>> \o RequestEncoder(q)
EncodedResponse(q, r, sequence) == <<r.error, sequence>> \o ResponseEncoder(q, r)

-----------------------------------------------------------------------------
VARIABLES
    plan,      \* the requests the client's user makes, in any order
    waiting,   \* waiting_hash_slots: calls whose send_arg is linked
    c2s, s2c,  \* cells written and not yet read by the other side
    sbuf,      \* the server's read buffer: start (processed_buffer_start), what follows it,
    cbuf,      \* the client's ...              and whether a read is pending
    acting,    \* requests handed to actions that have not answered
    requests, served, replies, received  \* history: messages, see Exchange

history == <<requests, served, replies, received>>
wire_vars == <<plan, waiting, c2s, s2c, sbuf, cbuf, acting, history>>

EmptyBuffer == [start |-> 0, data |-> <<>>, pending |-> TRUE]

WireInit == /\ plan \in Plans
            /\ waiting = {} /\ acting = {}
            /\ c2s = <<>> /\ s2c = <<>> /\ sbuf = EmptyBuffer /\ cbuf = EmptyBuffer
            /\ requests = <<>> /\ served = <<>> /\ replies = <<>> /\ received = <<>>

\* A call is its request and its sequence number, the place of the request in the plan.
Call(i) == [sequence |-> i, request |-> plan[i]]
Message(i, content) == [call |-> Call(i), content |-> content]
Told(messages) == {messages[k].call.sequence : k \in DOMAIN messages}

\* clientSendRequest in the thread of a user.
SendRequest(i) ==
    /\ i \in DOMAIN plan \ Told(requests)
    /\ LET cells == EncodedRequest(plan[i], i)
       IN /\ c2s' = c2s \o cells
          /\ requests' = Append(requests, Message(i, cells))
    /\ waiting' = waiting \cup {i}
    /\ UNCHANGED <<plan, s2c, sbuf, cbuf, acting, served, replies, received>>

\* A read buffer of size cells: what fits behind its data; a read takes what has arrived,
\* or as much of it as there is room for.
Room(b, size) == size - (b.start + Len(b.data))
Filled(b, cells) == [b EXCEPT !.data = @ \o cells, !.pending = FALSE]
Consumed(b, n) == [b EXCEPT !.start = @ + n, !.data = SubSeq(@, n + 1, Len(@))]

\* Mutant: the test looks at the data only, and a read may find no room.
ReadOnSame(b, size) == [b EXCEPT !.start = IF Len(b.data) < size THEN @ ELSE 0, !.pending = TRUE]

\* The next read goes behind the data, or, at the end of the buffer, into a new buffer
\* to whose beginning the data is copied.
ReadOn(b, size) == [b EXCEPT !.start = IF @ + Len(b.data) < size THEN @ ELSE 0, !.pending = TRUE]

\* A read without room reads nothing and stays pending (SocketLinux.c:179, 225).
ServerRead == /\ sbuf.pending
              /\ \E n \in 1..Len(c2s) :
                    /\ n <= Room(sbuf, ServerBuffer)
                    /\ sbuf' = Filled(sbuf, SubSeq(c2s, 1, n))
                    /\ c2s' = SubSeq(c2s, n + 1, Len(c2s))
              /\ UNCHANGED <<plan, waiting, s2c, cbuf, acting, history>>

ClientRead == /\ cbuf.pending
              /\ \E n \in 1..Len(s2c) :
                    /\ n <= Room(cbuf, ClientBuffer)
                    /\ cbuf' = Filled(cbuf, SubSeq(s2c, 1, n))
                    /\ s2c' = SubSeq(s2c, n + 1, Len(s2c))
              /\ UNCHANGED <<plan, waiting, c2s, sbuf, acting, history>>

\* One turn of the loop of serverReadCallback: it looks for the ids first, then for the
\* whole request.
OpOf(id) == CHOOSE op \in DOMAIN Ids[plan[1].service] : Ids[plan[1].service][op] = id
RequestAt(buf) == IF buf = <<>> THEN 0 ELSE RequestDecoder(plan[1].service, OpOf(buf[1]), buf)

ServerDecode == /\ ~sbuf.pending /\ RequestAt(sbuf.data) > 0
                /\ LET n == RequestAt(sbuf.data)
                       i == sbuf.data[2]
                   IN /\ sbuf' = Consumed(sbuf, n)
                      /\ served' = Append(served, Message(i, SubSeq(sbuf.data, 1, n)))
                      /\ acting' = acting \cup {i}
                /\ UNCHANGED <<plan, waiting, c2s, s2c, cbuf, requests, replies, received>>

ServerIncomplete == /\ ~sbuf.pending /\ RequestAt(sbuf.data) = 0
                    /\ sbuf' = ReadOn(sbuf, ServerBuffer)
                    /\ UNCHANGED <<plan, waiting, c2s, s2c, cbuf, acting, history>>

\* An action, and serverDoActionCallback; the actions run in several threads.
Answer(i) == /\ i \in acting
             /\ \E r \in Action(plan[i]) :
                   LET cells == EncodedResponse(plan[i], r, i)
                   IN /\ s2c' = s2c \o cells
                      /\ replies' = Append(replies, Message(i, cells))
             /\ acting' = acting \ {i}
             /\ UNCHANGED <<plan, waiting, c2s, sbuf, cbuf, requests, served, received>>

\* One turn of the loop of clientReadCallback: the sequence leads to the request.  While
\* its response is not complete the request is linked again.
Called(buf) == buf[2]
ResponseAt(buf) == IF Len(buf) < HeaderLen \/ Called(buf) \notin waiting THEN 0
                   ELSE ResponseDecoder(plan[Called(buf)], buf)

ClientDecode == /\ ~cbuf.pending /\ ResponseAt(cbuf.data) > 0
                /\ LET n == ResponseAt(cbuf.data)
                       i == Called(cbuf.data)
                   IN /\ cbuf' = Consumed(cbuf, n)
                      /\ received' = Append(received, Message(i, SubSeq(cbuf.data, 1, n)))
                      /\ waiting' = waiting \ {i}
                /\ UNCHANGED <<plan, c2s, s2c, sbuf, acting, requests, served, replies>>

ClientIncomplete == /\ ~cbuf.pending
                    /\ ResponseAt(cbuf.data) = 0
                    /\ Len(cbuf.data) >= HeaderLen => Called(cbuf.data) \in waiting
                    /\ cbuf' = ReadOn(cbuf, ClientBuffer)
                    /\ UNCHANGED <<plan, waiting, c2s, s2c, sbuf, acting, history>>

WireNext == \/ \E i \in DOMAIN plan : SendRequest(i) \/ Answer(i)
            \/ ServerRead \/ ServerDecode \/ ServerIncomplete
            \/ ClientRead \/ ClientDecode \/ ClientIncomplete

WireSpec == WireInit /\ [][WireNext]_wire_vars

\* The threads of the two pools of each side keep running; nobody has to send.
WireFairness == /\ WF_wire_vars(ServerRead) /\ WF_wire_vars(ServerDecode)
                /\ WF_wire_vars(ServerIncomplete)
                /\ WF_wire_vars(ClientRead) /\ WF_wire_vars(ClientDecode)
                /\ WF_wire_vars(ClientIncomplete)
                /\ \A i \in 1..MaxCalls : WF_wire_vars(i \in DOMAIN plan /\ Answer(i))

FairWireSpec == WireSpec /\ WireFairness

-----------------------------------------------------------------------------
(* Properties.                                                              *)

\* A caller sees requests and responses that arrive whole and in order: the stream is
\* cut where the encoders have put the ends of the messages, whatever the chunks in
\* which it is read, and a response is decoded by the decoder of its own request.
Calls == {[sequence |-> i, request |-> q] : i \in 1..MaxCalls, q \in Requests}
CallRequest(call) == EncodedRequest(call.request, call.sequence)
CallResponse(call) == {EncodedResponse(call.request, r, call.sequence) : r \in Action(call.request)}
Abstract == INSTANCE Exchange WITH Request <- CallRequest, Response <- CallResponse
ImplementsExchange == Abstract!Spec

\* A message longer than the buffer that has to take it: its reads find no room and
\* are posted for ever, and nothing behind it is read either.
Jammed == \/ \E k \in DOMAIN requests : Len(requests[k].content) > ServerBuffer
          \/ \E k \in DOMAIN replies : Len(replies[k].content) > ClientBuffer

\* Every request is answered, wherever the ends of the reads and of the buffers fall,
\* unless some message does not fit a buffer.
EveryoneAnswered == \A i \in 1..MaxCalls : i \in waiting ~> (i \notin waiting \/ Jammed)
=============================================================================
