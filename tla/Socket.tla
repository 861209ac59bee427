------------------------------- MODULE Socket -------------------------------
(***************************************************************************)
(* The sockets of corecode/network/SocketLinux.c: a listening socket with  *)
(* an epoll thread of its own, and client sockets, one connection each,    *)
(* which share one epoll thread per process.  The shared thread is started *)
(* with the first client socket and joined with the last (ClientNumber,    *)
(* ClientEpollFd, ClientLock).  destroy of a socket shuts its connections  *)
(* down and waits until the last reference to each has taken it off        *)
(* conn_head.                                                              *)
(*                                                                         *)
(* Sockets of the two kinds share nothing: the model is of a process that  *)
(* has client sockets or of one that has a listening socket (an object     *)
(* service has both, side by side).  What happens on a connection before   *)
(* it hangs up is the matter of Connection; here it hangs up at any step,  *)
(* is closed by the thread that epoll tells, and goes when its last        *)
(* reference is dropped.  The first of the client sockets is taken to      *)
(* start alone, as all callers do (two first starts race on the            *)
(* initialisation of ClientLock, 785-788).                                 *)
(***************************************************************************)
EXTENDS Naturals, FiniteSets

CONSTANTS Clients,    \* client sockets, each started and destroyed once, with their connections
          Peers,      \* connections that arrive at the listening socket
          None,
          Settled,    \* the listening socket is not destroyed between accept
                      \* and createConnection
          MaxErrors   \* bound: calls of accept that fail

ASSUME SocketAssumption == /\ IsFiniteSet(Clients) /\ IsFiniteSet(Peers)
                           /\ Clients \cap Peers = {} /\ None \notin Clients \cup Peers
                           /\ Settled \in BOOLEAN /\ MaxErrors \in Nat

Connections == Clients \cup Peers
Listen == None   \* the listening descriptor sfd

VARIABLES
    role,      \* the kind of the process's sockets
    sock,      \* control point of initSocketLinux and destroy of each client socket
    number,    \* ClientNumber
    locker,    \* the client socket for which ClientLock is held
    epfd,      \* ClientEpollFd is a descriptor
    poller,    \* control point of socketEpollWaitingClientThread
    polled,    \* events it has not handled
    closing,   \* the connection it is closing
    server,    \* control point of initSocketLinux and destroy of the listening socket
    stop,      \* priv_p->stop of the listening socket
    acceptor,  \* control point of socketEpollWaitingThread
    reported,  \* events it has not handled
    incoming,  \* the connection accept has returned
    backlog,   \* connections the kernel holds for accept
    errors,    \* failures of accept
    conn,      \* each connection: open, closing (both are on conn_head), gone
    watched,   \* descriptors in the two epoll sets
    edge       \* hang-ups, and arrivals at sfd, that epoll_wait has not reported

clients == <<sock, number, locker>>
pollers == <<epfd, poller, polled, closing>>
servers == <<server, stop>>
acceptors == <<acceptor, reported, incoming, errors>>
vars == <<role, clients, pollers, servers, acceptors, backlog, conn, watched, edge>>

Init == /\ role \in {"clients", "listener"}
        /\ sock = [c \in Clients |-> "none"] /\ number = 0 /\ locker = None
        /\ epfd = FALSE /\ poller = "none" /\ polled = {} /\ closing = Listen
        /\ server = "none" /\ stop = FALSE
        /\ acceptor = "none" /\ reported = {} /\ incoming = None /\ errors = 0
        /\ backlog = {}
        /\ conn = [e \in Connections |-> "none"] /\ watched = {} /\ edge = {}

Listed(e) == conn[e] \notin {"none", "gone"}

\* connClose shuts the descriptor down: epoll reports a hang-up.
Shutdown(E) == edge' = edge \cup {e \in E : Listed(e)}

-----------------------------------------------------------------------------
(* socketClientStart.  The socket connects without blocking: whether anybody *)
(* listens shows later, as a hang-up.                                        *)

Connect(c) == /\ role = "clients" /\ sock[c] = "none"
              /\ sock' = [sock EXCEPT ![c] = "locking"]
              /\ UNCHANGED <<role, number, locker, pollers, servers, acceptors, backlog, conn,
                             watched, edge>>

\* No such host, no descriptor, refused at once: initSocketLinux returns false.
ConnectFails(c) == /\ role = "clients" /\ sock[c] = "none"
                   /\ sock' = [sock EXCEPT ![c] = "failed"]
                   /\ UNCHANGED <<role, number, locker, pollers, servers, acceptors, backlog,
                                  conn,
                                  watched, edge>>

\* The first client socket creates the thread.
StartLock(c) == /\ sock[c] = "locking" /\ locker = None
                /\ locker' = c
                /\ number' = number + 1
                /\ poller' = IF number = 0 THEN "created" ELSE poller
                /\ sock' = [sock EXCEPT ![c] = "waiting"]
                /\ UNCHANGED <<role, epfd, polled, closing, servers, acceptors, backlog, conn,
                               watched, edge>>

\* ClientEpollFd is there: ClientLock is released, and createConnection puts the
\* connection on the socket's conn_head.
StartCreate(c) == /\ sock[c] = "waiting" /\ epfd
                  /\ locker' = None
                  /\ conn' = [conn EXCEPT ![c] = "open"]
                  /\ sock' = [sock EXCEPT ![c] = "created"]
                  /\ UNCHANGED <<role, number, pollers, servers, acceptors, backlog, watched,
                                 edge>>

\* epoll_ctl adds to ClientEpollFd, and fails if that is -1.
StartAdd(c) == /\ sock[c] = "created" /\ epfd
               /\ watched' = watched \cup {c}
               /\ sock' = [sock EXCEPT ![c] = "added"]
               /\ UNCHANGED <<role, number, locker, pollers, servers, acceptors, backlog, conn,
                              edge>>

\* onConnect is called.
StartReturn(c) == /\ sock[c] = "added"
                  /\ sock' = [sock EXCEPT ![c] = "up"]
                  /\ UNCHANGED <<role, number, locker, pollers, servers, acceptors, backlog, conn,
                                 watched, edge>>

-----------------------------------------------------------------------------
(* destroy of a client socket *)

DestroyClose(c) == /\ sock[c] = "up"
                   /\ Shutdown({c})
                   /\ sock' = [sock EXCEPT ![c] = "emptying"]
                   /\ UNCHANGED <<role, number, locker, pollers, servers, acceptors, backlog,
                                  conn, watched>>

\* conn_head is empty: the client socket may count itself out.
DestroyReady(c) == sock[c] = "emptying" /\ ~Listed(c) /\ locker = None

\* Mutant: ClientLock is not held across the join.
DestroyLockOnly(c) == /\ DestroyReady(c)
                      /\ number' = number - 1
                      /\ sock' = [sock EXCEPT ![c] = IF number = 1 THEN "joining" ELSE "freed"]
                      /\ UNCHANGED <<role, locker, pollers, servers, acceptors, backlog, conn,
                                     watched, edge>>

\* The last client socket keeps ClientLock while it waits for the thread.
DestroyLock(c) == /\ DestroyReady(c)
                  /\ number' = number - 1
                  /\ IF number = 1 THEN /\ locker' = c
                                        /\ sock' = [sock EXCEPT ![c] = "joining"]
                                   ELSE /\ sock' = [sock EXCEPT ![c] = "freed"]
                                        /\ UNCHANGED locker
                  /\ UNCHANGED <<role, pollers, servers, acceptors, backlog, conn, watched, edge>>

DestroyJoin(c) == /\ sock[c] = "joining" /\ poller = "ended"
                  /\ poller' = "none"
                  /\ locker' = None
                  /\ sock' = [sock EXCEPT ![c] = "freed"]
                  /\ UNCHANGED <<role, number, epfd, polled, closing, servers, acceptors,
                                 backlog, conn,
                                 watched, edge>>

Starting(c) == StartLock(c) \/ StartCreate(c) \/ StartAdd(c) \/ StartReturn(c)
Destroying(c) == DestroyLock(c) \/ DestroyJoin(c)

-----------------------------------------------------------------------------
(* socketEpollWaitingClientThread.  It closes a connection itself, and        *)
(* reports nothing else meanwhile.                                           *)

PollerCreate == /\ poller = "created"
                /\ epfd' = TRUE
                /\ poller' = "loop"
                /\ UNCHANGED <<role, clients, polled, closing, servers, acceptors, backlog, conn,
                               watched, edge>>

PollerEnd == /\ poller = "loop" /\ polled = {} /\ number = 0
             /\ epfd' = FALSE
             /\ poller' = "ended"
             /\ UNCHANGED <<role, clients, polled, closing, servers, acceptors, backlog, conn,
                            watched, edge>>

\* epoll_wait reports each edge once.
Report(side) == edge \cap watched \cap side

PollerWait == /\ poller = "loop" /\ polled = {} /\ number > 0
              /\ polled' = Report(Clients)
              /\ edge' = edge \ Report(Clients)
              /\ UNCHANGED <<role, clients, epfd, poller, closing, servers, acceptors, backlog,
                             conn, watched>>

PollerHangUp(e) == /\ poller = "loop" /\ e \in polled
                   /\ polled' = polled \ {e}
                   /\ watched' = watched \ {e}
                   /\ conn' = [conn EXCEPT ![e] = "closing"]
                   /\ closing' = e
                   /\ poller' = "closing"
                   /\ UNCHANGED <<role, clients, epfd, servers, acceptors, backlog, edge>>

\* onClose has returned and the connection's own reference is dropped.
PollerDrop == /\ poller = "closing"
              /\ closing' = Listen
              /\ poller' = "loop"
              /\ UNCHANGED <<role, clients, epfd, polled, servers, acceptors, backlog, conn,
                             watched, edge>>

Poller == \/ PollerCreate \/ PollerEnd \/ PollerWait
          \/ \E e \in Clients : PollerHangUp(e)
          \/ PollerDrop

-----------------------------------------------------------------------------
(* socketServerStart and destroy of the listening socket *)

ServerStart == /\ role = "listener" /\ server = "none"
               /\ server' = "up"
               /\ acceptor' = "loop"
               /\ watched' = watched \cup {Listen}
               /\ UNCHANGED <<role, clients, pollers, stop, reported, incoming, errors,
                              backlog, conn, edge>>

\* sfd is shut down and closed: what has not been accepted is reset.
ServerShut == /\ server = "up"
              /\ Settled => acceptor # "accepted"
              /\ server' = "closing"
              /\ watched' = watched \ {Listen}
              /\ edge' = edge \ {Listen}
              /\ backlog' = {}
              /\ UNCHANGED <<role, clients, pollers, stop, acceptors, conn>>

ServerCloseAll == /\ server = "closing"
                  /\ Shutdown(Peers)
                  /\ server' = "emptying"
                  /\ UNCHANGED <<role, clients, pollers, stop, acceptors, backlog, conn, watched>>


\* conn_head is empty.
ServerEmptied == /\ server = "emptying" /\ \A e \in Peers : ~Listed(e)
                 /\ stop' = TRUE
                 /\ server' = "joining"
                 /\ UNCHANGED <<role, clients, pollers, acceptors, backlog, conn, watched, edge>>

ServerFree == /\ server = "joining" /\ acceptor = "ended"
              /\ server' = "freed"
              /\ UNCHANGED <<role, clients, pollers, stop, acceptors, backlog, conn, watched,
                             edge>>

-----------------------------------------------------------------------------
(* socketEpollWaitingThread.  It has a detached thread close a connection.   *)

AcceptorWait == /\ acceptor = "loop" /\ reported = {} /\ ~stop
                /\ reported' = Report(Peers \cup {Listen})
                /\ edge' = edge \ Report(Peers \cup {Listen})
                /\ UNCHANGED <<role, clients, pollers, servers, acceptor, incoming, errors,
                               backlog, conn, watched>>

AcceptorEnd == /\ acceptor = "loop" /\ reported = {} /\ stop
               /\ acceptor' = "ended"
               /\ UNCHANGED <<role, clients, pollers, servers, reported, incoming, errors,
                              backlog, conn,
                              watched, edge>>

\* Mutant: the descriptor stays in the epoll set.
AcceptorHangUpWatching(e) == /\ acceptor = "loop" /\ e \in reported
                             /\ reported' = reported \ {e}
                             /\ conn' = [conn EXCEPT ![e] = IF @ = "open" THEN "closing" ELSE @]
                             /\ UNCHANGED <<role, clients, pollers, servers, acceptor,
                                            incoming, errors,
                                            backlog, watched, edge>>

AcceptorHangUp(e) == /\ acceptor = "loop" /\ e \in reported
                     /\ reported' = reported \ {e}
                     /\ watched' = watched \ {e}
                     /\ conn' = [conn EXCEPT ![e] = "closing"]
                     /\ UNCHANGED <<role, clients, pollers, servers, acceptor, incoming,
                                    errors, backlog, edge>>

AcceptBegin == /\ acceptor = "loop" /\ Listen \in reported
               /\ reported' = reported \ {Listen}
               /\ acceptor' = "accept"
               /\ UNCHANGED <<role, clients, pollers, servers, incoming, errors, backlog, conn,
                              watched, edge>>

Accept(c) == /\ acceptor = "accept" /\ c \in backlog
             /\ backlog' = backlog \ {c}
             /\ incoming' = c
             /\ acceptor' = "accepted"
             /\ UNCHANGED <<role, clients, pollers, servers, reported, errors, conn, watched,
                            edge>>

\* EAGAIN; or sfd has been closed.
AcceptAll == /\ acceptor = "accept" /\ backlog = {}
             /\ acceptor' = "loop"
             /\ UNCHANGED <<role, clients, pollers, servers, reported, incoming, errors,
                            backlog, conn,
                            watched, edge>>

\* Any other error ends the loop as well: the rest of the backlog is left to the
\* next arrival.
AcceptError == /\ acceptor = "accept" /\ backlog # {} /\ errors < MaxErrors
               /\ errors' = errors + 1
               /\ acceptor' = "loop"
               /\ UNCHANGED <<role, clients, pollers, servers, reported, incoming, backlog, conn,
                              watched, edge>>

AcceptCreate == /\ acceptor = "accepted"
                /\ conn' = [conn EXCEPT ![incoming] = "open"]
                /\ acceptor' = "created"
                /\ UNCHANGED <<role, clients, pollers, servers, reported, incoming, errors,
                               backlog,
                               watched, edge>>

\* Mutant: one connection per event.
AcceptAddOne == /\ acceptor = "created"
                /\ watched' = watched \cup {incoming}
                /\ incoming' = None
                /\ acceptor' = "loop"
                /\ UNCHANGED <<role, clients, pollers, servers, reported, errors, backlog,
                               conn, edge>>

\* onConnect is called, and accept again.
AcceptAdd == /\ acceptor = "created"
             /\ watched' = watched \cup {incoming}
             /\ incoming' = None
             /\ acceptor' = "accept"
             /\ UNCHANGED <<role, clients, pollers, servers, reported, errors, backlog, conn,
                            edge>>

Acceptor == \/ AcceptorWait \/ AcceptorEnd
            \/ \E e \in Peers : AcceptorHangUp(e)
            \/ AcceptBegin \/ AcceptAll \/ AcceptError \/ \E c \in Peers : Accept(c)
            \/ AcceptCreate \/ AcceptAdd

-----------------------------------------------------------------------------
(* The connections *)

Arrive(c) == /\ server = "up" /\ conn[c] = "none" /\ c \notin backlog /\ incoming # c
             /\ backlog' = backlog \cup {c}
             /\ edge' = edge \cup {Listen}
             /\ UNCHANGED <<role, clients, pollers, servers, acceptors, conn, watched>>

\* The connection breaks, or is shut down by a user: a reader that meets its end,
\* a writer that fails.
HangUp(e) == /\ conn[e] = "open" /\ e \notin edge
             /\ edge' = edge \cup {e}
             /\ UNCHANGED <<role, clients, pollers, servers, acceptors, backlog, conn, watched>>

\* socketIODone: its closer and all others have dropped their references; the last
\* of them takes the connection off conn_head, closes the descriptor and frees it.
Release(e) == /\ conn[e] = "closing" /\ closing # e
              /\ conn' = [conn EXCEPT ![e] = "gone"]
              /\ watched' = watched \ {e}
              /\ edge' = edge \ {e}
              /\ UNCHANGED <<role, clients, pollers, servers, acceptors, backlog>>

Next == \/ \E c \in Clients : \/ Connect(c) \/ ConnectFails(c) \/ Starting(c)
                              \/ DestroyClose(c) \/ Destroying(c)
        \/ Poller
        \/ ServerStart \/ ServerShut \/ ServerCloseAll \/ ServerEmptied \/ ServerFree
        \/ Acceptor
        \/ \E c \in Peers : Arrive(c)
        \/ \E e \in Connections : HangUp(e) \/ Release(e)

Spec == Init /\ [][Next]_vars

\* Threads run, and epoll_wait and the two polling loops return.  Nobody is obliged to
\* start or to destroy a socket, to hang up, or to drop a last reference: Connection and
\* Client say when that happens.
Fairness == /\ \A c \in Clients : WF_vars(Starting(c)) /\ WF_vars(Destroying(c))
            /\ WF_vars(Poller) /\ WF_vars(Acceptor)
            /\ WF_vars(ServerCloseAll) /\ WF_vars(ServerEmptied) /\ WF_vars(ServerFree)

FairSpec == Spec /\ Fairness

-----------------------------------------------------------------------------
(* Properties *)

TypeOK ==
    /\ role \in {"clients", "listener"}
    /\ sock \in [Clients -> {"none", "failed", "locking", "waiting", "created", "added", "up",
                             "emptying", "joining", "freed"}]
    /\ number \in 0..Cardinality(Clients) /\ locker \in Clients \cup {None}
    /\ epfd \in BOOLEAN /\ polled \subseteq Clients /\ closing \in Clients \cup {Listen}
    /\ poller \in {"none", "created", "loop", "closing", "ended"}
    /\ server \in {"none", "up", "closing", "emptying", "joining", "freed"} /\ stop \in BOOLEAN
    /\ acceptor \in {"none", "loop", "accept", "accepted", "created", "ended"}
    /\ reported \subseteq Peers \cup {Listen} /\ incoming \in Peers \cup {None}
    /\ backlog \subseteq Peers /\ errors \in 0..MaxErrors
    /\ conn \in [Connections -> {"none", "open", "closing", "gone"}]
    /\ watched \subseteq Connections \cup {Listen} /\ edge \subseteq Connections \cup {Listen}

\* Client sockets that have counted themselves in ClientNumber.
Counted == {c \in Clients : sock[c] \in {"waiting", "created", "added", "up", "emptying"}}
Joining == {c \in Clients : sock[c] = "joining"}

\* However client sockets come and go, there is one shared epoll thread while
\* one is counted and none afterwards; epoll_ctl finds ClientEpollFd, although
\* it is called after ClientLock was released; and every open connection is in
\* the set of a thread that goes on waiting, or about to be.
Watched ==
    /\ TypeOK
    /\ number = Cardinality(Counted)
    /\ number > 0 => poller \in {"created", "loop", "closing"}
    /\ number = 0 /\ Joining = {} => poller = "none"
    /\ \A c \in Clients : sock[c] = "created" => epfd
    /\ \A e \in Connections : conn[e] = "open" =>
          \/ e \in watched
          \/ e \in Clients /\ sock[e] = "created"
          \/ e = incoming /\ acceptor = "created"
    /\ watched \cap Clients # {} => epfd /\ poller \in {"loop", "closing"}
    /\ watched \cap Peers # {} => acceptor # "ended" /\ ~stop

\* A connection is freed when no epoll thread has an event of it left and none is
\* closing it, and a socket when none of its connections is left and its
\* thread has ended.
FreedLast ==
    /\ \A e \in polled \cup (reported \ {Listen}) : Listed(e)
    /\ \A c \in Clients : sock[c] = "freed" => conn[c] = "gone"
    /\ server = "freed" => /\ acceptor = "ended"
                           /\ \A e \in Peers : ~Listed(e)

\* onConnect is given a connection that is there.  This does not hold for client
\* sockets: the connection is in the epoll set before, and one that is refused
\* may be closed and freed by then.
ConnectedAlive == \A c \in Clients : sock[c] = "added" => conn[c] # "gone"

\* The listening descriptor is edge-triggered: what arrives is accepted in the
\* end, however many arrive at once and whenever, unless accept fails or the
\* socket is destroyed.
EventuallyAccepted ==
    \A c \in Peers : c \in backlog ~> (c \notin backlog \/ errors > 0)

\* Starting a client socket comes to an end whatever the others do.  Destroying it does if
\* its own connection is released in the end, even when those of other sockets never are,
\* and destroying the listening socket if all that it has accepted are; the shared thread,
\* ClientLock and the joins hold nobody up.
Released(E) == \A e \in E : []<>(conn[e] # "closing")
=============================================================================
