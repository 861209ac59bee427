------------------------------ MODULE Service ------------------------------
(***************************************************************************)
(* A service process and the processes of the commands sent to it, from    *)
(* their start to their end: cmd/Service.c, with what it starts and        *)
(* destroys: the server and its pools, the context, the work pool, and the *)
(* clients with theirs, an object service's own client to Mon included.    *)
(* What happens inside a connection, its client's and its server's side is *)
(* the subject of Connection, Client and Server; here a request travels    *)
(* through the queues of the pools, and onClose is one step that waits for *)
(* the jobs of its connection, as those show.  What the keep-alive is      *)
(* about, the map and its status, is the subject of Cluster.               *)
(***************************************************************************)
EXTENDS ThreadPools, FiniteSets

CONSTANTS Commands,     \* processes, one command and one connection each: numbers from 1 on
          Kind,         \* of each command: "stop" or "status"
          IoThreads,    \* ServerParam.socket_io_thread_number
          WorkThreads   \* of the work pool

ASSUME ServiceAssumption == /\ Commands \subseteq Nat \ {0} /\ IsFiniteSet(Commands)
                            /\ Kind \in [Commands -> {"stop", "status"}]
                            /\ IoThreads \in Nat \ {0} /\ WorkThreads \in Nat \ {0}

VARIABLES
    service,   \* "Mon" or "OS"
    ending,    \* what main still has to destroy; "wait" while it waits for stop_sem
    stop_sem, stoppers,   \* its value, and the threads that are about to post it
    context,   \* parts of the service's context that are alive
    read, write, work,    \* pools of the service
    keep,      \* an object service's keep-alive: "waiting" for its next time, or where it is
    mon, mread, mwrite,   \* its connection to Mon, and the pools of that client
    srv, cli,  \* of each connection, the two ends: "none", "open", "closing" or "gone"
    request,   \* of each command: where its request, and later its response, is
    cmd,       \* of each command: where its main thread is
    sem,       \* of each command: what it waits for
    cread, cwrite         \* pools of each command

pools == <<read, write, work>>
own == <<keep, mon, mread, mwrite>>
server == <<service, ending, stop_sem, stoppers, context, pools, own>>
main == <<ending, context>>
client == <<cmd, sem, cread, cwrite>>
vars == <<server, srv, cli, request, client>>

Job(kind, c) == [kind |-> kind, conn |-> c]
ForConn(p, c) == {j \in Jobs(p) : j.conn = c /\ j.kind # "tail"}

\* The object service's own connection, to Mon, where those of the commands have numbers.
Own == 0

-----------------------------------------------------------------------------
(* The service.                                                             *)

\* What main destroys, in this order, once stop_sem is posted.
MonEnding == <<"wait", "listener", "server", "read", "write", "map", "sem", "work">>
OsEnding  == <<"wait", "listener", "server", "read", "write", "worker", "map", "hk", "ossync",
               "work", "mread", "mwrite", "sem">>

\* The context: an object service has the house keeping thread, with the keep-alive as its
\* worker, and the object that synchronises; its client has connected to Mon.
Parts == {"worker", "map", "hk", "ossync", "sem"}

\* ServiceMonStart, ServiceOSStart up to sem_wait.  initServer makes the write pool from
\* the same parameters, in which initThreadPool2 has left a thread_number of 1.
Init == /\ service \in {"Mon", "OS"}
        /\ ending = IF service = "Mon" THEN MonEnding ELSE OsEnding
        /\ stop_sem = 0 /\ stoppers = 0
        /\ context = IF service = "Mon" THEN {"map", "sem"} ELSE Parts
        /\ keep = "waiting" /\ mon = IF service = "Mon" THEN "none" ELSE "open"
        /\ mread = NewPool(1) /\ mwrite = NewPool(1)
        /\ read = NewPool(IoThreads) /\ write = NewPool(1) /\ work = NewPool(WorkThreads)
        /\ srv = [c \in Commands |-> "none"] /\ cli = [c \in Commands |-> "none"]
        /\ request = [c \in Commands |-> "none"]
        /\ cmd = [c \in Commands |-> "start"] /\ sem = [c \in Commands |-> 0]
        /\ cread = [c \in Commands |-> NewPool(1)] /\ cwrite = [c \in Commands |-> NewPool(1)]

Next1(stage) == ending # <<>> /\ Head(ending) = stage /\ ending' = Tail(ending)

Stopped == /\ Next1("wait") /\ stop_sem > 0 /\ stop_sem' = stop_sem - 1
           /\ UNCHANGED <<service, stoppers, context, pools, own, srv, cli, request, client>>

\* Socket.destroy: no more connections, and those there are begin to close.
CloseAll == /\ Next1("listener")
            /\ srv' = [c \in Commands |-> IF srv[c] = "open" THEN "closing" ELSE srv[c]]
            /\ UNCHANGED <<service, stop_sem, stoppers, context, pools, own, cli, request, client>>

\* Mutant: destroy does not wait for the connections.
ServerEmptiedAtOnce == /\ Next1("server")
                       /\ UNCHANGED <<service, stop_sem, stoppers, context, pools, own, srv, cli,
                                      request, client>>

ServerEmptied == /\ Next1("server") /\ \A c \in Commands : srv[c] \in {"none", "gone"}
                 /\ UNCHANGED <<service, stop_sem, stoppers, context, pools, own, srv, cli, request,
                                client>>

\* Server.destroy and the pools of the context, one thread after the other.
DestroyPool(name, p) ==
    /\ ending # <<>> /\ Head(ending) = name /\ CanDestroy(p)
    /\ ending' = IF Freed(Destroy(p)) THEN Tail(ending) ELSE ending
DestroyRead == /\ DestroyPool("read", read) /\ read' = Destroy(read)
               /\ UNCHANGED <<write, work, mread, mwrite>>
DestroyWrite == /\ DestroyPool("write", write) /\ write' = Destroy(write)
                /\ UNCHANGED <<read, work, mread, mwrite>>
DestroyWork == /\ DestroyPool("work", work) /\ work' = Destroy(work)
               /\ UNCHANGED <<read, write, mread, mwrite>>
DestroyOwn == \/ /\ DestroyPool("mread", mread) /\ mread' = Destroy(mread)
                 /\ UNCHANGED <<pools, mwrite>>
              \/ /\ DestroyPool("mwrite", mwrite) /\ mwrite' = Destroy(mwrite)
                 /\ UNCHANGED <<pools, mread>>
DestroyPools == /\ DestroyRead \/ DestroyWrite \/ DestroyWork \/ DestroyOwn
                /\ UNCHANGED <<service, stop_sem, stoppers, context, keep, mon, srv, cli, request,
                               client>>

\* ServerContextMon, ServerContextOs: removeWorker takes the worker from the house keeping
\* thread's list and waits until it is not busy, then the map goes, and with it the memory
\* of the client to Mon, which stays connected; the join of that thread; and the rest.
DestroyContext == /\ \E part \in Parts : /\ Next1(part) /\ context' = context \ {part}
                                         /\ part = "map" => keep = "waiting"
                  /\ UNCHANGED <<service, stop_sem, stoppers, pools, own, srv, cli, request, client>>

\* The thread of ClusterActionStop, ObjectActionStop, after its two seconds.
StopPost == /\ stoppers > 0 /\ ending # <<>>
            /\ stoppers' = stoppers - 1 /\ stop_sem' = stop_sem + 1
            /\ UNCHANGED <<service, ending, context, pools, own, srv, cli, request, client>>

Main == Stopped \/ CloseAll \/ ServerEmptied \/ DestroyPools \/ DestroyContext
-----------------------------------------------------------------------------
(* A connection.                                                            *)

\* While the process listens, and no later than its main closes the connections.
Listening == ending # <<>> /\ Head(ending) \in {"wait", "listener"}
Accept(c) == /\ Listening /\ cli[c] = "open" /\ srv[c] = "none"
             /\ srv' = [srv EXCEPT ![c] = "open"]
             /\ UNCHANGED <<server, cli, request, client>>

\* It breaks, or an end learns that the other is closing, or that nobody accepts it.
ServerHangUp(c) == /\ srv[c] = "open" /\ srv' = [srv EXCEPT ![c] = "closing"]
                   /\ UNCHANGED <<server, cli, request, client>>
ClientHangUp(c) == /\ cli[c] = "open" /\ cli' = [cli EXCEPT ![c] = "closing"]
                   /\ UNCHANGED <<server, srv, request, client>>
PeerGone(c) == \/ cli[c] # "open" /\ ServerHangUp(c)
               \/ (srv[c] \in {"closing", "gone"} \/ (srv[c] = "none" /\ ~Listening)) /\ ClientHangUp(c)

\* serverOnClose, the last reference: no job of the connection is left.
ServerGone(c) == /\ srv[c] = "closing"
                 /\ \A p \in {read, write, work} : ForConn(p, c) = {}
                 /\ srv' = [srv EXCEPT ![c] = "gone"]
                 /\ UNCHANGED <<server, cli, request, client>>

\* clientOnClose: what is still waiting is called back with an error.
Waiting == {"written", "sent", "acting", "answered", "returned", "lost"}
\* Mutant: those that wait are not called back.
ClientGoneSilently(c) == /\ cli[c] = "closing"
                         /\ ForConn(cread[c], c) \cup ForConn(cwrite[c], c) = {}
                         /\ cli' = [cli EXCEPT ![c] = "gone"]
                         /\ UNCHANGED <<server, srv, request, client>>

ClientGone(c) == /\ cli[c] = "closing"
                 /\ ForConn(cread[c], c) \cup ForConn(cwrite[c], c) = {}
                 /\ cli' = [cli EXCEPT ![c] = "gone"]
                 /\ IF request[c] \in Waiting
                    THEN /\ sem' = [sem EXCEPT ![c] = @ + 1]
                         /\ request' = [request EXCEPT ![c] = "done"]
                    ELSE UNCHANGED <<sem, request>>
                 /\ UNCHANGED <<server, srv, cmd, cread, cwrite>>

\* epoll: the read job is posted, by the hash of the descriptor, unless it is already.
ServerEvent(c) == /\ srv[c] = "open" /\ request[c] = "sent" /\ ForConn(read, c) = {}
                  /\ read' = InsertTailHash(read, Job("read", c), c)
                  /\ UNCHANGED <<service, main, stop_sem, stoppers, write, work, own, srv, cli,
                                 request, client>>
ClientEvent(c) == /\ cli[c] = "open" /\ request[c] = "returned" /\ ForConn(cread[c], c) = {}
                  /\ cread' = [cread EXCEPT ![c] = InsertTailHash(@, Job("read", c), c)]
                  /\ UNCHANGED <<server, srv, cli, request, cmd, sem, cwrite>>

-----------------------------------------------------------------------------
(* The threads of the pools.                                                *)

\* serverReadCallback: the request is handed to the work pool.
ServerRead(i, c) ==
    /\ CanTake(read, i, Job("read", c))
    /\ IF srv[c] = "open" /\ request[c] = "sent"
       THEN /\ work' = InsertTail(work, Job("action", c))
            /\ request' = [request EXCEPT ![c] = "acting"]
       ELSE UNCHANGED <<work, request>>
    /\ read' = Take(read, i, NoJob)
    /\ UNCHANGED <<service, main, stop_sem, stoppers, write, own, srv, cli, client>>

\* Mutant: an answer that is refused is not counted as done.
ServerActionUncounted(i, c) ==
    /\ CanTake(work, i, Job("action", c))
    /\ stoppers' = IF Kind[c] = "stop" THEN stoppers + 1 ELSE stoppers
    /\ IF srv[c] = "open"
       THEN write' = InsertTailHash(write, Job("write", c), c) /\ UNCHANGED request
       ELSE /\ request' = [request EXCEPT ![c] = IF @ = "acting" THEN "lost" ELSE @]
            /\ UNCHANGED write
    /\ work' = Take(work, i, Job(IF srv[c] = "open" THEN "tail" ELSE "action", c))
    /\ UNCHANGED <<service, main, stop_sem, read, own, srv, cli, client>>

\* An action and serverDoActionCallback, up to the release of the read buffer; then the
\* job only frees its own memory.
ServerAction(i, c) ==
    /\ CanTake(work, i, Job("action", c))
    /\ stoppers' = IF Kind[c] = "stop" THEN stoppers + 1 ELSE stoppers
    /\ IF srv[c] = "open"
       THEN write' = InsertTailHash(write, Job("write", c), c) /\ UNCHANGED request
       ELSE /\ request' = [request EXCEPT ![c] = IF @ = "acting" THEN "lost" ELSE @]
            /\ UNCHANGED write
    /\ work' = Take(work, i, Job("tail", c))
    /\ UNCHANGED <<service, main, stop_sem, read, own, srv, cli, client>>
ServerTail(i, c) ==
    /\ work.sub[i].running = Job("tail", c)
    /\ work' = Return(work, i)
    /\ UNCHANGED <<service, main, stop_sem, stoppers, read, write, own, srv, cli, request, client>>

ServerWrite(i, c) ==
    /\ CanTake(write, i, Job("write", c))
    /\ request' = [request EXCEPT ![c] = IF @ # "acting" THEN @
                                         ELSE IF srv[c] = "open" THEN "returned" ELSE "lost"]
    /\ write' = Take(write, i, NoJob)
    /\ UNCHANGED <<service, main, stop_sem, stoppers, read, work, own, srv, cli, client>>

ClientWrite(c) == /\ CanTake(cwrite[c], 1, Job("write", c))
                  /\ request' = [request EXCEPT ![c] = IF @ # "written" THEN @
                                                       ELSE IF cli[c] = "open" THEN "sent" ELSE "lost"]
                  /\ cwrite' = [cwrite EXCEPT ![c] = Take(@, 1, NoJob)]
                  /\ UNCHANGED <<server, srv, cli, cmd, sem, cread>>

\* clientReadCallback; the work pool has no threads, so that the callback is called here.
ClientRead(c) == /\ CanTake(cread[c], 1, Job("read", c))
                 /\ IF cli[c] = "open" /\ request[c] = "returned"
                    THEN /\ sem' = [sem EXCEPT ![c] = @ + 1]
                         /\ request' = [request EXCEPT ![c] = "done"]
                    ELSE UNCHANGED <<sem, request>>
                 /\ cread' = [cread EXCEPT ![c] = Take(@, 1, NoJob)]
                 /\ UNCHANGED <<server, srv, cli, cmd, cwrite>>

-----------------------------------------------------------------------------
(* A command: ServiceMonStop, ServiceMonStatus, ServiceOSStop.              *)

Goes(c, from, to) == cmd[c] = from /\ cmd' = [cmd EXCEPT ![c] = to]

\* initClient; only Mon knows Status.
Connect(c) == /\ Kind[c] = "status" => service = "Mon"
              /\ \/ Listening /\ Goes(c, "start", "connected") /\ cli' = [cli EXCEPT ![c] = "open"]
                 \/ Goes(c, "start", "read") /\ UNCHANGED cli
              /\ UNCHANGED <<server, srv, request, sem, cread, cwrite>>

\* clientSendRequest, refused once the connection began to close.
Send(c) == /\ cli[c] = "open" /\ Goes(c, "connected", "waiting")
           /\ request' = [request EXCEPT ![c] = "written"]
           /\ cwrite' = [cwrite EXCEPT ![c] = InsertTailHash(@, Job("write", c), c)]
           /\ UNCHANGED <<server, srv, cli, sem, cread>>

\* sendRequestSync does not wait then; ServiceMonStatus does.
Refused(c) == /\ cli[c] # "open"
              /\ Goes(c, "connected", IF Kind[c] = "status" THEN "stuck" ELSE "destroy")
              /\ UNCHANGED <<server, srv, cli, request, sem, cread, cwrite>>

Awake(c) == /\ sem[c] > 0 /\ Goes(c, "waiting", "destroy") /\ sem' = [sem EXCEPT ![c] = @ - 1]
            /\ UNCHANGED <<server, srv, cli, request, cread, cwrite>>

\* Client.destroy: the connection is closed, and waited for.
CloseClient(c) == /\ Goes(c, "destroy", "emptying")
                  /\ cli' = [cli EXCEPT ![c] = IF @ = "open" THEN "closing" ELSE @]
                  /\ UNCHANGED <<server, srv, request, sem, cread, cwrite>>

ClientEmptied(c) == /\ cli[c] = "gone" /\ Goes(c, "emptying", "read")
                    /\ UNCHANGED <<server, srv, cli, request, sem, cread, cwrite>>

DestroyClientPools(c) ==
    /\ \/ /\ CanDestroy(cread[c]) /\ cread' = [cread EXCEPT ![c] = Destroy(@)]
          /\ Goes(c, "read", IF Freed(Destroy(cread[c])) THEN "write" ELSE "read")
          /\ UNCHANGED cwrite
       \/ /\ CanDestroy(cwrite[c]) /\ cwrite' = [cwrite EXCEPT ![c] = Destroy(@)]
          /\ Goes(c, "write", IF Freed(Destroy(cwrite[c])) THEN "ended" ELSE "write")
          /\ UNCHANGED cread
    /\ UNCHANGED <<server, srv, cli, request, sem>>

-----------------------------------------------------------------------------
(* The keep-alive of an object service, on its own client to Mon.           *)

others == <<service, main, stop_sem, stoppers, read, write, srv, cli, request, client>>

\* The house keeping thread hands the worker to the work pool, where it is its interval
\* later; no thread takes that long between two statements of sendRequest.
Tick == /\ "worker" \in context /\ keep = "waiting" /\ Job("sending", Own) \notin Jobs(work)
        /\ keep' = "due" /\ work' = InsertTail(work, Job("keep", Own))
        /\ UNCHANGED <<others, mon, mread, mwrite>>

\* clusterMapKeepAliveHouseKeepingWorker: sendRequest finds no connection, or links the
\* request; it is written ...
KeepAlive(i) == /\ CanTake(work, i, Job("keep", Own))
                /\ keep' = IF mon = "gone" THEN "refused" ELSE "linked"
                /\ work' = Take(work, i, Job("sending", Own))
                /\ UNCHANGED <<others, mon, mread, mwrite>>

Sending(i) == i \in DOMAIN work.sub /\ work.sub[i].running = Job("sending", Own)
KeepAliveSent(i) == /\ Sending(i) /\ keep = "linked" /\ mon = "open"
                    /\ keep' = "written" /\ mwrite' = InsertTailHash(mwrite, Job("write", Own), Own)
                    /\ work' = GoOn(work, i, Job("late", Own))
                    /\ UNCHANGED <<others, mon, mread>>

\* ... or it is refused, and the worker calls back.
KeepAliveRefused(i) == /\ Sending(i) /\ keep \in {"linked", "refused"} /\ mon # "open"
                       /\ keep' = "waiting" /\ work' = GoOn(work, i, Job("tail", Own))
                       /\ UNCHANGED <<others, mon, mread, mwrite>>

\* It is refused after clientOnClose has called back: the worker does so again, which the
\* assert in houseKeepingWorkerDoCallback, or the second free of the argument, ends.
Ended(p) == [p EXCEPT !.sub = [i \in DOMAIN p.sub |-> [NewSub EXCEPT !.freed = TRUE]]]
Dies(i) ==
    /\ Sending(i) /\ keep = "waiting"
    /\ ending' = <<>> /\ context' = {} /\ stop_sem' = 0 /\ stoppers' = 0 /\ mon' = "gone"
    /\ read' = Ended(read) /\ write' = Ended(write) /\ work' = Ended(work)
    /\ mread' = Ended(mread) /\ mwrite' = Ended(mwrite)
    /\ srv' = [c \in Commands |-> IF srv[c] = "none" THEN "none" ELSE "gone"]
    /\ UNCHANGED <<service, keep, cli, request, client>>

\* The rest of a job: the worker puts the map ("late"), a synchronisation ends and puts it
\* ("after"), or nothing is left but to free memory.
KeepAliveTail(i) == /\ i \in DOMAIN work.sub
                    /\ work.sub[i].running \in {Job(kind, Own) : kind \in {"late", "after", "tail"}}
                    /\ work' = Return(work, i)
                    /\ UNCHANGED <<others, own>>

KeepWrite == /\ CanTake(mwrite, 1, Job("write", Own))
             /\ keep' = IF keep = "written" /\ mon = "open" THEN "sent" ELSE keep
             /\ mwrite' = Take(mwrite, 1, NoJob)
             /\ UNCHANGED <<others, work, mon, mread>>

\* Mon's answer arrives, and is handed to the work pool.
MonAnswers == /\ mon = "open" /\ keep = "sent" /\ ForConn(mread, Own) = {}
              /\ keep' = "returned" /\ mread' = InsertTailHash(mread, Job("read", Own), Own)
              /\ UNCHANGED <<others, work, mon, mwrite>>
KeepRead == /\ CanTake(mread, 1, Job("read", Own))
            /\ IF mon = "open" /\ keep = "returned"
               THEN keep' = "answered" /\ work' = InsertTail(work, Job("callback", Own))
               ELSE UNCHANGED <<keep, work>>
            /\ mread' = Take(mread, 1, NoJob)
            /\ UNCHANGED <<others, mon, mwrite>>

\* clusterMapOSKeepAliveCallback calls back, and may go on with a synchronisation.
Callback(i) == /\ CanTake(work, i, Job("callback", Own))
               /\ keep' = "waiting" /\ work' = Take(work, i, Job("after", Own))
               /\ UNCHANGED <<others, mon, mread, mwrite>>

\* The connection to Mon breaks: epoll may report that it can be read and written.
Posted(p, kind) == IF ForConn(p, Own) = {} THEN {p, InsertTailHash(p, Job(kind, Own), Own)} ELSE {p}
MonHangUp == /\ mon = "open" /\ ending # <<>> /\ mon' = "closing"
             /\ mread' \in Posted(mread, "read") /\ mwrite' \in Posted(mwrite, "write")
             /\ UNCHANGED <<others, work, keep>>

\* clientOnClose waits for the buffers of answers, and calls back a request that is linked.
MonGone == /\ mon = "closing" /\ ending # <<>> /\ mon' = "gone"
           /\ ForConn(mread, Own) \cup ForConn(mwrite, Own) = {}
           /\ \A j \in ForConn(work, Own) : j.kind \notin {"callback", "after"}
           /\ keep' = IF keep \in {"linked", "written", "sent", "returned"} THEN "waiting" ELSE keep
           /\ UNCHANGED <<others, work, mread, mwrite>>

OwnProgress == \/ KeepWrite \/ MonAnswers \/ KeepRead \/ MonGone
               \/ \E i \in 1..WorkThreads : \/ KeepAlive(i) \/ KeepAliveSent(i) \/ KeepAliveRefused(i)
                                            \/ Dies(i) \/ KeepAliveTail(i) \/ Callback(i)

-----------------------------------------------------------------------------
Command(c) == Awake(c) \/ Refused(c) \/ Send(c) \/ CloseClient(c) \/ ClientEmptied(c)
              \/ DestroyClientPools(c)

Threads(c) == \/ ClientWrite(c) \/ ClientRead(c)
              \/ ServerWrite(1, c) \/ \E i \in 1..IoThreads : ServerRead(i, c)
              \/ \E i \in 1..WorkThreads : ServerAction(i, c) \/ ServerTail(i, c)
Links(c) == Accept(c) \/ PeerGone(c) \/ ServerGone(c) \/ ClientGone(c) \/ ServerEvent(c) \/ ClientEvent(c)

Progress == Main \/ StopPost \/ \E c \in Commands : Command(c) \/ Threads(c) \/ Links(c)

Next == \/ Progress \/ OwnProgress \/ Tick \/ MonHangUp
        \/ \E c \in Commands : Connect(c) \/ ServerHangUp(c) \/ ClientHangUp(c)

\* The processes run, Mon included: while a thread has something to do, or epoll to report,
\* one of them does, and a keep-alive under way is not put off for ever by the rest.  Nobody
\* has to start a command, and no connection has to break.
Spec == Init /\ [][Next]_vars /\ WF_vars(Progress) /\ WF_vars(OwnProgress)

-----------------------------------------------------------------------------
(* Properties.                                                              *)

TypeOK ==
    /\ \E whole \in {MonEnding, OsEnding} :
          \E k \in 1..(Len(whole) + 1) : ending = SubSeq(whole, k, Len(whole))
    /\ stop_sem \in Nat /\ stoppers \in Nat /\ context \subseteq Parts
    /\ keep \in {"waiting", "due", "linked", "refused", "written", "sent", "returned", "answered"}
    /\ mon \in {"none", "open", "closing", "gone"}
    /\ srv \in [Commands -> {"none", "open", "closing", "gone"}]
    /\ cli \in [Commands -> {"none", "open", "closing", "gone"}]
    /\ request \in [Commands -> {"none", "done"} \cup Waiting]
    /\ cmd \in [Commands -> {"start", "connected", "waiting", "stuck", "destroy", "emptying",
                             "read", "write", "ended"}]

\* Not before its users are done does main destroy a thing, nor do they come back: no
\* connection is served and no job inserted when the server's pools and the work pool end
\* (the asserts on insertTailHash in SocketLinux.c), no action runs without the map; an
\* object service's keep-alive that has not been called back finds its map and all pools it
\* goes through, and the pools of its client, which main does not destroy, see a job after
\* their end only if Mon hangs up; the same holds in the process of a command, whose pools
\* end only after its connection's onClose.
Untouched(p) == \A i \in DOMAIN p.sub : ~p.sub[i].freed
DestroyedUnused ==
    /\ TypeOK
    /\ ~read.misused /\ ~write.misused /\ ~work.misused
    /\ \A j \in Jobs(work) : j.kind = "action" => "map" \in context
    /\ keep # "waiting" => "map" \in context /\ Untouched(work) /\ Untouched(mread) /\ Untouched(mwrite)
    /\ mon = "open" => ~mread.misused /\ ~mwrite.misused
    /\ \A c \in Commands :
          /\ srv[c] \in {"open", "closing"} => Untouched(read) /\ Untouched(write) /\ Untouched(work)
          /\ cli[c] \in {"open", "closing"} => Untouched(cread[c]) /\ Untouched(cwrite[c])
          /\ ~cread[c].misused /\ ~cwrite[c].misused

\* A command that has sent its request ends: it is answered, or called back with an error
\* when the service goes or the connection breaks, and called back once; then it destroys
\* its client and pools, which nothing holds up (ServiceMonStop, ServiceMonStatus).
UnderWay == {"waiting", "destroy", "emptying", "read", "write"}   \* left to end only
CommandsEnd == \A c \in Commands : []<>(cmd[c] \notin UnderWay)

\* A service that has been told to stop ends, whatever other commands are under way and
\* wherever its keep-alive is.
Told == stoppers > 0 \/ stop_sem > 0 \/ (ending # <<>> /\ Head(ending) # "wait")
ServiceEnds == []<>(Told => ending = <<>>)

\* Not so: a command whose request is refused ends (Service.c:231 waits for a callback
\* that never comes); the thread of a second stop finds the semaphore alive; and when an
\* object service's map is destroyed, and the memory of its client to Mon with it, that
\* client's connection is closed and its jobs are over (ClusterMapObjectService.c:39-43).
AllCommandsEnd == \A c \in Commands : cmd[c] = "connected" ~> cmd[c] = "ended"
StopSemLive == stoppers > 0 => "sem" \in context
OwnClientOver == "map" \notin context => mon \in {"none", "gone"} /\ ForConn(work, Own) = {}
OwnPoolsUnused == ~mread.misused /\ ~mwrite.misused
=============================================================================
