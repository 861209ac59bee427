---------------------------- MODULE SocketProofs ----------------------------
(***************************************************************************)
(* Proofs about the sockets, for any number of client sockets and of       *)
(* connections: the shared epoll thread lives as long as it is needed,     *)
(* every open connection is watched, and what is freed is freed last.      *)
(***************************************************************************)
EXTENDS Socket, FiniteSetTheorems, TLAPS

\* ClientLock is held over a start and over the join.
Locks == \A c \in Clients : sock[c] \in {"waiting", "joining"} => locker = c

\* The thread of the client sockets and their number.
Polls == /\ epfd <=> poller \in {"loop", "closing"}
         /\ number > 0 => poller \in {"created", "loop", "closing"}
         /\ number = 0 /\ Joining = {} => poller = "none"
         /\ Joining # {} => number = 0
         /\ \A c \in Clients : sock[c] \in {"created", "added", "up", "emptying"} => epfd
CountExact == number = Cardinality(Counted)

\* A client's connection is in the epoll set from StartAdd until it hangs up.
ClientConns ==
    \A c \in Clients :
       /\ conn[c] = "none" <=> sock[c] \in {"none", "failed", "locking", "waiting"}
       /\ sock[c] \in {"joining", "freed"} => conn[c] = "gone"
       /\ conn[c] = "open" <=> c \in watched \/ sock[c] = "created"
       /\ sock[c] = "created" => c \notin watched
       /\ c \in polled => c \in watched

\* The listening socket and its thread; nothing is accepted once it is shut.
Stages ==
    /\ stop <=> server \in {"joining", "freed"}
    /\ server = "none" <=> acceptor = "none"
    /\ acceptor = "ended" => stop
    /\ server = "freed" => acceptor = "ended"
    /\ server \in {"closing", "emptying", "joining", "freed"} => acceptor # "accepted" /\ backlog = {}
    /\ acceptor \in {"accepted", "created"} <=> incoming # None
    /\ stop => \A e \in Peers : ~Listed(e)

PeerConns ==
    \A e \in Peers :
       /\ conn[e] = "open" <=> e \in watched \/ (e = incoming /\ acceptor = "created")
       /\ e = incoming => e \notin watched
       /\ e \in backlog => conn[e] = "none" /\ e # incoming
       /\ e = incoming /\ acceptor = "accepted" => conn[e] = "none"
       /\ e \in reported => e \in watched

\* TypeOK but for the bound of number, which CountExact gives.
Types ==
    /\ role \in {"clients", "listener"}
    /\ sock \in [Clients -> {"none", "failed", "locking", "waiting", "created", "added", "up",
                             "emptying", "joining", "freed"}]
    /\ number \in Nat /\ locker \in Clients \cup {None}
    /\ epfd \in BOOLEAN /\ polled \subseteq Clients /\ closing \in Clients \cup {Listen}
    /\ poller \in {"none", "created", "loop", "closing", "ended"}
    /\ server \in {"none", "up", "closing", "emptying", "joining", "freed"} /\ stop \in BOOLEAN
    /\ acceptor \in {"none", "loop", "accept", "accepted", "created", "ended"}
    /\ reported \subseteq Peers \cup {Listen} /\ incoming \in Peers \cup {None}
    /\ backlog \subseteq Peers /\ errors \in 0..MaxErrors
    /\ conn \in [Connections -> {"none", "open", "closing", "gone"}]
    /\ watched \subseteq Connections \cup {Listen} /\ edge \subseteq Connections \cup {Listen}

ClientSide == Locks /\ Polls /\ CountExact /\ ClientConns
ListenerSide == Stages /\ PeerConns
SocketIInv == Types /\ ClientSide /\ ListenerSide

-----------------------------------------------------------------------------
(* Sets of sockets *)

LEMMA Kinds ==
  /\ None \notin Clients /\ None \notin Peers /\ None \notin Connections /\ Clients \cap Peers = {}
  /\ Clients \subseteq Connections /\ Peers \subseteq Connections
  BY SocketAssumption DEF Connections

LEMMA CountedFinite ==
  /\ IsFiniteSet(Counted) /\ Cardinality(Counted) \in Nat
  /\ Cardinality(Clients) \in Nat /\ Cardinality(Counted) <= Cardinality(Clients)
<1>1. IsFiniteSet(Clients) /\ Counted \subseteq Clients
  BY SocketAssumption DEF Counted
<1>2. QED BY <1>1, FS_Subset, FS_CardinalityType

LEMMA TypesSuffice == Types /\ CountExact => TypeOK
<1> SUFFICES ASSUME Types, CountExact PROVE TypeOK
  OBVIOUS
<1>1. number \in 0..Cardinality(Clients)
  BY CountedFinite DEF Types, CountExact
<1>2. QED BY <1>1 DEF Types, TypeOK

LEMMA TypesStep == Types /\ CountExact /\ [Next]_vars => Types'
<1> SUFFICES ASSUME Types, CountExact, [Next]_vars PROVE Types'
  OBVIOUS
<1> USE Kinds DEF Types, Listen
<1>1. ASSUME NEW c \in Clients, Connect(c) \/ ConnectFails(c) PROVE Types'
  BY <1>1 DEF Connect, ConnectFails, pollers, servers, acceptors
<1>2. ASSUME NEW c \in Clients, StartLock(c) PROVE Types'
  BY <1>2 DEF StartLock, servers, acceptors
<1>3. ASSUME NEW c \in Clients, StartCreate(c) PROVE Types'
  BY <1>3 DEF StartCreate, pollers, servers, acceptors
<1>4. ASSUME NEW c \in Clients, StartAdd(c) \/ StartReturn(c) PROVE Types'
  BY <1>4 DEF StartAdd, StartReturn, pollers, servers, acceptors
<1>5. ASSUME NEW c \in Clients, DestroyClose(c) PROVE Types'
  BY <1>5 DEF DestroyClose, Shutdown, pollers, servers, acceptors
<1>6. ASSUME NEW c \in Clients, DestroyLock(c) PROVE Types'
  <2>1. c \in Counted
    BY <1>6 DEF DestroyLock, DestroyReady, Counted
  <2>2. number # 0
    BY <2>1, CountedFinite, FS_EmptySet DEF CountExact
  <2>3. number - 1 \in Nat
    BY <2>2
  <2>4. QED BY <1>6, <2>3 DEF DestroyLock, DestroyReady, pollers, servers, acceptors
<1>7. ASSUME NEW c \in Clients, DestroyJoin(c) PROVE Types'
  BY <1>7 DEF DestroyJoin, servers, acceptors
<1>8. CASE PollerCreate \/ PollerEnd \/ PollerWait \/ PollerDrop
  <2>1. CASE PollerCreate
    BY <2>1 DEF PollerCreate, clients, servers, acceptors
  <2>2. CASE PollerEnd
    BY <2>2 DEF PollerEnd, clients, servers, acceptors
  <2>3. CASE PollerWait
    BY <2>3 DEF PollerWait, Report, clients, servers, acceptors
  <2>4. CASE PollerDrop
    BY <2>4 DEF PollerDrop, clients, servers, acceptors
  <2>5. QED BY <1>8, <2>1, <2>2, <2>3, <2>4
<1>9. ASSUME NEW e \in Clients, PollerHangUp(e) PROVE Types'
  BY <1>9 DEF PollerHangUp, clients, servers, acceptors
<1>10. CASE ServerStart \/ ServerShut \/ ServerCloseAll \/ ServerEmptied \/ ServerFree
  <2>1. CASE ServerStart
    BY <2>1 DEF ServerStart, clients, pollers, acceptors
  <2>2. CASE ServerShut
    BY <2>2 DEF ServerShut, clients, pollers, acceptors
  <2>3. CASE ServerCloseAll
    BY <2>3 DEF ServerCloseAll, Shutdown, clients, pollers, acceptors
  <2>4. CASE ServerEmptied
    BY <2>4 DEF ServerEmptied, clients, pollers, acceptors
  <2>5. CASE ServerFree
    BY <2>5 DEF ServerFree, clients, pollers, acceptors
  <2>6. QED BY <1>10, <2>1, <2>2, <2>3, <2>4, <2>5
<1>11. CASE AcceptorWait \/ AcceptorEnd \/ AcceptBegin \/ AcceptAll \/ AcceptError
  <2>1. CASE AcceptorWait
    BY <2>1 DEF AcceptorWait, Report, clients, pollers, servers
  <2>2. CASE AcceptorEnd
    BY <2>2 DEF AcceptorEnd, clients, pollers, servers
  <2>3. CASE AcceptBegin
    BY <2>3 DEF AcceptBegin, clients, pollers, servers
  <2>4. CASE AcceptAll
    BY <2>4 DEF AcceptAll, clients, pollers, servers
  <2>5. CASE AcceptError
    <3>1. errors' \in 0..MaxErrors
      BY <2>5, SocketAssumption DEF AcceptError
    <3>2. QED BY <2>5, <3>1 DEF AcceptError, clients, pollers, servers
  <2>6. QED BY <1>11, <2>1, <2>2, <2>3, <2>4, <2>5
<1>12. ASSUME NEW e \in Peers, AcceptorHangUp(e) \/ Accept(e) \/ Arrive(e) PROVE Types'
  BY <1>12 DEF AcceptorHangUp, Accept, Arrive, clients, pollers, servers, acceptors
<1>13. CASE AcceptCreate \/ AcceptAdd
  BY <1>13 DEF AcceptCreate, AcceptAdd, clients, pollers, servers
<1>14. ASSUME NEW e \in Connections, HangUp(e) \/ Release(e) PROVE Types'
  BY <1>14 DEF HangUp, Release, clients, pollers, servers, acceptors
<1>15. CASE UNCHANGED vars
  BY <1>15 DEF vars, clients, pollers, servers, acceptors
<1>16. QED BY <1>1, <1>2, <1>3, <1>4, <1>5, <1>6, <1>7, <1>8, <1>9, <1>10, <1>11, <1>12, <1>13, <1>14, <1>15
           DEF Next, Starting, Destroying, Poller, Acceptor

-----------------------------------------------------------------------------
(* The client sockets *)

\* What the listening socket does is no matter of the client sockets.
LEMMA ClientsApart ==
  ASSUME ClientSide, UNCHANGED <<clients, epfd, poller, polled>>,
         \A c \in Clients : conn'[c] = conn[c] /\ (c \in watched' <=> c \in watched)
  PROVE  ClientSide'
<1>1. Counted' = Counted /\ Joining' = Joining
  BY DEF Counted, Joining, clients
<1>2. Locks' /\ Polls' /\ CountExact'
  BY <1>1 DEF ClientSide, Locks, Polls, CountExact, clients
<1>3. ClientConns'
  BY DEF ClientSide, ClientConns, clients
<1>4. QED BY <1>2, <1>3 DEF ClientSide

\* Adding or removing an element changes a cardinality unless it was, or was not, there.
LEMMA AddAndRemove ==
  \A S, x : IsFiniteSet(S) =>
     /\ Cardinality(S \cup {x}) = IF x \in S THEN Cardinality(S) ELSE Cardinality(S) + 1
     /\ Cardinality(S \ {x}) = IF x \in S THEN Cardinality(S) - 1 ELSE Cardinality(S)
<1> TAKE S, x
<1> HAVE IsFiniteSet(S)
<1>1. QED BY FS_AddElement, FS_RemoveElement

\* A step of one client socket changes the number of those that are counted by one or not.
LEMMA CountedMoves ==
  ASSUME Types, NEW c \in Clients, NEW pc, sock' = [sock EXCEPT ![c] = pc]
  PROVE  LET after == pc \in {"waiting", "created", "added", "up", "emptying"}
         IN  Cardinality(Counted') = IF after /\ c \notin Counted THEN Cardinality(Counted) + 1
                                     ELSE IF ~after /\ c \in Counted THEN Cardinality(Counted) - 1
                                     ELSE Cardinality(Counted)
<1> DEFINE after == pc \in {"waiting", "created", "added", "up", "emptying"}
<1>1. \A d \in Clients : sock'[d] = IF d = c THEN pc ELSE sock[d]
  BY DEF Types
<1>2. Counted' = IF after THEN Counted \cup {c} ELSE Counted \ {c}
  BY <1>1 DEF Counted
<1>3. /\ Cardinality(Counted \cup {c}) = IF c \in Counted THEN Cardinality(Counted)
                                         ELSE Cardinality(Counted) + 1
      /\ Cardinality(Counted \ {c}) = IF c \in Counted THEN Cardinality(Counted) - 1
                                      ELSE Cardinality(Counted)
  BY CountedFinite, AddAndRemove
<1>4. QED BY <1>2, <1>3

\* A client socket that is counted, and the number.
LEMMA SomeCounted ==
  ASSUME CountExact
  PROVE  /\ number \in Nat /\ (number = 0 <=> Counted = {})
         /\ \A c \in Counted : number > 0
         /\ \A c, d \in Counted : number = 1 => c = d
<1>1. number \in Nat /\ (number = 0 <=> Counted = {})
  BY CountedFinite, FS_EmptySet DEF CountExact
<1>2. ASSUME NEW c \in Counted, NEW d \in Counted, number = 1 PROVE c = d
  <2>1. Cardinality(Counted \ {c}) = 0 /\ IsFiniteSet(Counted \ {c})
    <3>1. Cardinality(Counted \ {c}) = Cardinality(Counted) - 1
      BY CountedFinite, AddAndRemove
    <3>2. QED BY <1>2, <3>1, CountedFinite, FS_Subset DEF CountExact
  <2>2. Counted \ {c} = {}
    BY <2>1, FS_EmptySet
  <2>3. QED BY <2>2
<1>3. QED BY <1>1, <1>2

\* initSocketLinux and destroy
LEMMA ClientStarts ==
  ASSUME Types, ClientSide, NEW c \in Clients,
         Connect(c) \/ ConnectFails(c) \/ Starting(c) \/ DestroyClose(c)
  PROVE  ClientSide'
<1>0. /\ Locks /\ Polls /\ CountExact /\ ClientConns
      /\ DOMAIN sock = Clients /\ DOMAIN conn = Connections /\ c \in Connections /\ c # None
      /\ number \in Nat /\ Cardinality(Counted) \in Nat
  BY Kinds, CountedFinite DEF ClientSide, Types
<1>1. CASE StartLock(c)
  <2>1. /\ sock[c] = "locking" /\ locker = None /\ locker' = c /\ number' = number + 1
        /\ poller' = IF number = 0 THEN "created" ELSE poller
        /\ sock' = [sock EXCEPT ![c] = "waiting"] /\ UNCHANGED <<epfd, polled, conn, watched>>
    BY <1>1 DEF StartLock
  <2>2. \A d \in Clients : sock'[d] = IF d = c THEN "waiting" ELSE sock[d]
    BY <1>0, <2>1
  <2>3. \A d \in Clients : sock[d] \notin {"waiting", "joining"}
    BY <1>0, <2>1, Kinds DEF Locks
  <2>4. Locks'
    BY <2>1, <2>2, <2>3 DEF Locks
  <2>5. Joining = {} /\ Joining' = {}
    BY <2>2, <2>3 DEF Joining
  <2>6. CountExact'
    <3>1. c \notin Counted
      BY <2>1 DEF Counted
    <3>2. Cardinality(Counted') = Cardinality(Counted) + 1
      BY <2>1, <3>1, CountedMoves
    <3>3. QED BY <1>0, <2>1, <3>2 DEF CountExact
  <2>7. Polls'
    <3>1. poller' \in {"created", "loop", "closing"} /\ number' > 0
      BY <1>0, <2>1 DEF Polls
    <3>2. epfd' <=> poller' \in {"loop", "closing"}
      BY <1>0, <2>1, <2>5 DEF Polls
    <3>3. \A d \in Clients : sock'[d] \in {"created", "added", "up", "emptying"} => epfd'
      BY <1>0, <2>1, <2>2 DEF Polls
    <3>4. QED BY <2>5, <3>1, <3>2, <3>3 DEF Polls
  <2>8. ClientConns'
    BY <1>0, <2>1, <2>2 DEF ClientConns
  <2>9. QED BY <2>4, <2>6, <2>7, <2>8 DEF ClientSide
<1>2. ASSUME NEW pc, sock' = [sock EXCEPT ![c] = pc], UNCHANGED <<number, pollers>>,
             c \in Counted <=> pc \in {"waiting", "created", "added", "up", "emptying"},
             sock[c] # "joining", pc \notin {"joining", "waiting"},
             \/ locker' = locker
             \/ sock[c] = "waiting" /\ locker' = None,
             epfd \/ pc \notin {"created", "added", "up", "emptying"}
      PROVE  Locks' /\ Polls' /\ CountExact'
  <2>1. \A d \in Clients : sock'[d] = IF d = c THEN pc ELSE sock[d]
    BY <1>0, <1>2
  <2>2. CountExact'
    <3>1. Cardinality(Counted') = Cardinality(Counted)
      BY <1>2, CountedMoves
    <3>2. QED BY <1>0, <1>2, <3>1 DEF CountExact
  <2>3. Joining' = Joining
    BY <1>2, <2>1 DEF Joining
  <2>4. Polls'
    <3>1. UNCHANGED <<number, epfd, poller>>
      BY <1>2 DEF pollers
    <3>2. \A d \in Clients : sock'[d] \in {"created", "added", "up", "emptying"} => epfd'
      BY <1>0, <1>2, <2>1, <3>1 DEF Polls
    <3>3. QED BY <1>0, <2>3, <3>1, <3>2 DEF Polls
  <2>5. Locks'
    <3>1. \A d \in Clients : sock'[d] \in {"waiting", "joining"} => d # c /\ locker = d
      BY <1>0, <1>2, <2>1 DEF Locks
    <3>2. sock[c] = "waiting" => locker = c
      BY <1>0 DEF Locks
    <3>3. QED BY <1>2, <3>1, <3>2 DEF Locks
  <2>6. QED BY <2>2, <2>4, <2>5
<1>3. CASE Connect(c) \/ ConnectFails(c)
  <2>1. PICK pc \in {"locking", "failed"} : sock' = [sock EXCEPT ![c] = pc]
    BY <1>3 DEF Connect, ConnectFails
  <2>2. sock[c] = "none" /\ UNCHANGED <<number, locker, pollers, conn, watched>>
    BY <1>3 DEF Connect, ConnectFails
  <2>3. c \notin Counted
    BY <2>2 DEF Counted
  <2>4. Locks' /\ Polls' /\ CountExact'
    BY <1>2, <2>1, <2>2, <2>3
  <2>5. \A d \in Clients : sock'[d] = IF d = c THEN pc ELSE sock[d]
    BY <1>0, <2>1
  <2>6. ClientConns'
    BY <1>0, <2>2, <2>5 DEF ClientConns, pollers
  <2>7. QED BY <2>4, <2>6 DEF ClientSide
<1>4. CASE StartCreate(c)
  <2>1. /\ sock[c] = "waiting" /\ epfd /\ locker' = None /\ conn' = [conn EXCEPT ![c] = "open"]
        /\ sock' = [sock EXCEPT ![c] = "created"] /\ UNCHANGED <<number, pollers, watched>>
    BY <1>4 DEF StartCreate
  <2>2. c \in Counted
    BY <2>1 DEF Counted
  <2>3. Locks' /\ Polls' /\ CountExact'
    <3>1. PICK pc : pc = "created" /\ sock' = [sock EXCEPT ![c] = pc]
      BY <2>1
    <3>2. QED BY <1>2, <2>1, <2>2, <3>1
  <2>4. \A d \in Clients : /\ sock'[d] = IF d = c THEN "created" ELSE sock[d]
                           /\ conn'[d] = IF d = c THEN "open" ELSE conn[d]
    BY <1>0, <2>1, Kinds
  <2>5. c \notin watched
    BY <1>0, <2>1 DEF ClientConns
  <2>6. ClientConns'
    BY <1>0, <2>1, <2>4, <2>5 DEF ClientConns, pollers
  <2>7. QED BY <2>3, <2>6 DEF ClientSide
<1>5. CASE StartAdd(c)
  <2>1. /\ sock[c] = "created" /\ epfd /\ watched' = watched \cup {c}
        /\ sock' = [sock EXCEPT ![c] = "added"] /\ UNCHANGED <<number, locker, pollers, conn>>
    BY <1>5 DEF StartAdd
  <2>2. c \in Counted
    BY <2>1 DEF Counted
  <2>3. Locks' /\ Polls' /\ CountExact'
    <3>1. PICK pc : pc = "added" /\ sock' = [sock EXCEPT ![c] = pc]
      BY <2>1
    <3>2. QED BY <1>2, <2>1, <2>2, <3>1
  <2>4. \A d \in Clients : sock'[d] = IF d = c THEN "added" ELSE sock[d]
    BY <1>0, <2>1
  <2>5. ClientConns'
    BY <1>0, <2>1, <2>4 DEF ClientConns, pollers
  <2>6. QED BY <2>3, <2>5 DEF ClientSide
<1>6. CASE StartReturn(c) \/ DestroyClose(c)
  <2>1. PICK pc \in {"up", "emptying"} : sock' = [sock EXCEPT ![c] = pc]
    BY <1>6 DEF StartReturn, DestroyClose
  <2>2. sock[c] \in {"added", "up"} /\ UNCHANGED <<number, locker, pollers, conn, watched>>
    BY <1>6 DEF StartReturn, DestroyClose
  <2>3. c \in Counted /\ epfd
    BY <1>0, <2>2 DEF Counted, Polls
  <2>4. Locks' /\ Polls' /\ CountExact'
    BY <1>2, <2>1, <2>2, <2>3
  <2>5. \A d \in Clients : sock'[d] = IF d = c THEN pc ELSE sock[d]
    BY <1>0, <2>1
  <2>6. ClientConns'
    BY <1>0, <2>2, <2>5 DEF ClientConns, pollers
  <2>7. QED BY <2>4, <2>6 DEF ClientSide
<1>7. QED BY <1>1, <1>3, <1>4, <1>5, <1>6 DEF Starting

\* The last client socket keeps the lock until it has joined the thread.
LEMMA ClientEnds ==
  ASSUME Types, ClientSide, NEW c \in Clients, Destroying(c)
  PROVE  ClientSide'
<1>0. /\ Locks /\ Polls /\ CountExact /\ ClientConns
      /\ DOMAIN sock = Clients /\ DOMAIN conn = Connections /\ c \in Connections /\ c # None
      /\ number \in Nat /\ Cardinality(Counted) \in Nat
  BY Kinds, CountedFinite DEF ClientSide, Types
<1>1. CASE DestroyLock(c)
  <2>1. /\ sock[c] = "emptying" /\ ~Listed(c) /\ locker = None /\ number' = number - 1
        /\ UNCHANGED <<pollers, conn, watched>>
        /\ \/ number = 1 /\ locker' = c /\ sock' = [sock EXCEPT ![c] = "joining"]
           \/ number # 1 /\ locker' = locker /\ sock' = [sock EXCEPT ![c] = "freed"]
    BY <1>1 DEF DestroyLock, DestroyReady
  <2>2. PICK pc \in {"joining", "freed"} : /\ sock' = [sock EXCEPT ![c] = pc]
                                           /\ pc = "joining" => number = 1 /\ locker' = c
                                           /\ pc = "freed" => number # 1 /\ locker' = locker
    BY <2>1
  <2>3. \A d \in Clients : sock'[d] = IF d = c THEN pc ELSE sock[d]
    BY <1>0, <2>2
  <2>4. \A d \in Clients : sock[d] \notin {"waiting", "joining"}
    BY <1>0, <2>1, Kinds DEF Locks
  <2>5. c \in Counted /\ number > 0 /\ epfd
    BY <1>0, <2>1, SomeCounted DEF Counted, Polls
  <2>6. CountExact'
    <3>1. Cardinality(Counted') = Cardinality(Counted) - 1
      BY <2>2, <2>5, CountedMoves
    <3>2. QED BY <1>0, <2>1, <3>1 DEF CountExact
  <2>7. Locks'
    BY <2>2, <2>3, <2>4 DEF Locks
  <2>8. Joining = {} /\ Joining' = IF pc = "joining" THEN {c} ELSE {}
    BY <2>2, <2>3, <2>4 DEF Joining
  <2>9. Polls'
    <3>1. UNCHANGED <<epfd, poller>>
      BY <2>1 DEF pollers
    <3>2. number' = 0 <=> pc = "joining"
      BY <1>0, <2>1, <2>2
    <3>3. \A d \in Clients : sock'[d] \in {"created", "added", "up", "emptying"} => epfd'
      BY <2>5, <3>1
    <3>4. poller \in {"created", "loop", "closing"}
      BY <1>0, <2>5 DEF Polls
    <3>5. QED BY <1>0, <2>8, <3>1, <3>2, <3>3, <3>4 DEF Polls
  <2>10. conn[c] = "gone"
    BY <1>0, <2>1 DEF Listed, ClientConns
  <2>11. ClientConns'
    <3>1. UNCHANGED <<polled, conn, watched>>
      BY <2>1 DEF pollers
    <3>2. QED BY <1>0, <2>1, <2>2, <2>3, <2>10, <3>1 DEF ClientConns
  <2>12. QED BY <2>6, <2>7, <2>9, <2>11 DEF ClientSide
<1>2. CASE DestroyJoin(c)
  <2>1. /\ sock[c] = "joining" /\ poller = "ended" /\ poller' = "none" /\ locker' = None
        /\ sock' = [sock EXCEPT ![c] = "freed"] /\ UNCHANGED <<number, epfd, polled, conn, watched>>
    BY <1>2 DEF DestroyJoin
  <2>2. \A d \in Clients : sock'[d] = IF d = c THEN "freed" ELSE sock[d]
    BY <1>0, <2>1
  <2>3. locker = c /\ \A d \in Clients : d # c => sock[d] \notin {"waiting", "joining"}
    BY <1>0, <2>1 DEF Locks
  <2>4. Locks'
    BY <2>2, <2>3 DEF Locks
  <2>5. CountExact'
    <3>1. c \notin Counted
      BY <2>1 DEF Counted
    <3>2. Cardinality(Counted') = Cardinality(Counted)
      <4>1. PICK pc : pc = "freed" /\ sock' = [sock EXCEPT ![c] = pc]
        BY <2>1
      <4>2. pc \notin {"waiting", "created", "added", "up", "emptying"}
        BY <4>1
      <4>3. QED BY <3>1, <4>1, <4>2, CountedMoves
    <3>3. QED BY <1>0, <2>1, <3>2 DEF CountExact
  <2>6. c \in Joining /\ Joining' = {} /\ number = 0
    <3>1. c \in Joining
      BY <2>1 DEF Joining
    <3>2. number = 0
      BY <1>0, <3>1 DEF Polls
    <3>3. QED BY <2>2, <2>3, <3>1, <3>2 DEF Joining
  <2>7. Polls'
    <3>1. ~epfd
      BY <1>0, <2>1 DEF Polls
    <3>2. \A d \in Clients : sock'[d] \notin {"created", "added", "up", "emptying"}
      BY <1>0, <2>2, <3>1 DEF Polls
    <3>3. QED BY <2>1, <2>6, <3>1, <3>2 DEF Polls
  <2>8. ClientConns'
    BY <1>0, <2>1, <2>2 DEF ClientConns
  <2>9. QED BY <2>4, <2>5, <2>7, <2>8 DEF ClientSide
<1>3. QED BY <1>1, <1>2 DEF Destroying

\* socketEpollWaitingClientThread
LEMMA PollerKeeps ==
  ASSUME Types, ClientSide, Poller
  PROVE  ClientSide'
<1>0. /\ Locks /\ Polls /\ CountExact /\ ClientConns /\ number \in Nat
      /\ DOMAIN conn = Connections /\ Clients \subseteq Connections
  BY Kinds DEF ClientSide, Types
<1>1. Locks' /\ CountExact' /\ Joining' = Joining /\ UNCHANGED <<sock, number>>
  BY <1>0 DEF Poller, PollerCreate, PollerEnd, PollerWait, PollerHangUp, PollerDrop, clients, Locks, CountExact,
        Counted, Joining
<1>2. CASE PollerCreate
  <2>1. /\ poller = "created" /\ epfd' = TRUE /\ poller' = "loop" /\ UNCHANGED <<polled, conn, watched>>
    BY <1>2 DEF PollerCreate
  <2>2. Polls'
    BY <1>0, <1>1, <2>1 DEF Polls
  <2>3. ClientConns'
    BY <1>0, <1>1, <2>1 DEF ClientConns
  <2>4. QED BY <1>1, <2>2, <2>3 DEF ClientSide
<1>3. CASE PollerEnd
  <2>1. /\ poller = "loop" /\ number = 0 /\ epfd' = FALSE /\ poller' = "ended"
        /\ UNCHANGED <<polled, conn, watched>>
    BY <1>3 DEF PollerEnd
  <2>2. \A c \in Clients : sock[c] \notin {"created", "added", "up", "emptying"}
    BY <1>0, <2>1, SomeCounted DEF Counted
  <2>3. Polls'
    BY <1>0, <1>1, <2>1, <2>2 DEF Polls
  <2>4. ClientConns'
    BY <1>0, <1>1, <2>1 DEF ClientConns
  <2>5. QED BY <1>1, <2>3, <2>4 DEF ClientSide
<1>4. CASE PollerWait
  <2>1. polled' \subseteq watched /\ UNCHANGED <<epfd, poller, conn, watched>>
    BY <1>4 DEF PollerWait, Report
  <2>2. Polls'
    BY <1>0, <1>1, <2>1 DEF Polls
  <2>3. ClientConns'
    BY <1>0, <1>1, <2>1 DEF ClientConns
  <2>4. QED BY <1>1, <2>2, <2>3 DEF ClientSide
<1>5. ASSUME NEW e \in Clients, PollerHangUp(e) PROVE ClientSide'
  <2>1. /\ poller = "loop" /\ poller' = "closing" /\ e \in polled /\ polled' = polled \ {e}
        /\ watched' = watched \ {e} /\ conn' = [conn EXCEPT ![e] = "closing"] /\ epfd' = epfd
    BY <1>5 DEF PollerHangUp
  <2>2. \A d \in Clients : conn'[d] = IF d = e THEN "closing" ELSE conn[d]
    BY <1>0, <2>1
  <2>3. e \in watched /\ conn[e] = "open" /\ sock[e] # "created"
    BY <1>0, <2>1 DEF ClientConns
  <2>4. Polls'
    BY <1>0, <1>1, <2>1 DEF Polls
  <2>5. ClientConns'
    BY <1>0, <1>1, <2>1, <2>2, <2>3 DEF ClientConns
  <2>6. QED BY <1>1, <2>4, <2>5 DEF ClientSide
<1>6. CASE PollerDrop
  <2>1. poller = "closing" /\ poller' = "loop" /\ UNCHANGED <<epfd, polled, conn, watched>>
    BY <1>6 DEF PollerDrop
  <2>2. Polls'
    BY <1>0, <1>1, <2>1 DEF Polls
  <2>3. ClientConns'
    BY <1>0, <1>1, <2>1 DEF ClientConns
  <2>4. QED BY <1>1, <2>2, <2>3 DEF ClientSide
<1>7. QED BY <1>2, <1>3, <1>4, <1>5, <1>6 DEF Poller

-----------------------------------------------------------------------------
(* The listening socket *)

LEMMA PeersApart ==
  ASSUME ListenerSide, UNCHANGED <<servers, acceptor, reported, incoming, backlog>>,
         \A e \in Peers : conn'[e] = conn[e] /\ (e \in watched' <=> e \in watched)
  PROVE  ListenerSide'
<1>1. Stages'
  BY DEF ListenerSide, Stages, Listed, servers
<1>2. PeerConns'
  BY DEF ListenerSide, PeerConns
<1>3. QED BY <1>1, <1>2 DEF ListenerSide

\* socketServerStart and destroy
LEMMA ServerKeeps ==
  ASSUME Settled, Types, ListenerSide,
         ServerStart \/ ServerShut \/ ServerCloseAll \/ ServerEmptied \/ ServerFree
  PROVE  ListenerSide'
<1>0. Stages /\ PeerConns /\ None \notin Peers
  BY Kinds DEF ListenerSide
<1>1. CASE ServerStart
  <2>1. /\ server = "none" /\ server' = "up" /\ acceptor' = "loop" /\ watched' = watched \cup {None}
        /\ UNCHANGED <<stop, reported, incoming, backlog, conn>>
    BY <1>1 DEF ServerStart, Listen
  <2>2. Stages'
    BY <1>0, <2>1 DEF Stages, Listed
  <2>3. PeerConns'
    <3>1. acceptor = "none"
      BY <1>0, <2>1 DEF Stages
    <3>2. QED BY <1>0, <2>1, <3>1 DEF PeerConns
  <2>4. QED BY <2>2, <2>3 DEF ListenerSide
<1>2. CASE ServerShut
  <2>1. /\ server = "up" /\ server' = "closing" /\ acceptor # "accepted" /\ watched' = watched \ {None}
        /\ backlog' = {} /\ UNCHANGED <<stop, acceptors, conn>>
    BY <1>2 DEF ServerShut, Listen
  <2>2. Stages'
    BY <1>0, <2>1 DEF Stages, Listed, acceptors
  <2>3. PeerConns'
    BY <1>0, <2>1 DEF PeerConns, acceptors
  <2>4. QED BY <2>2, <2>3 DEF ListenerSide
<1>3. CASE ServerCloseAll
  <2>1. /\ server = "closing" /\ server' = "emptying"
        /\ UNCHANGED <<stop, acceptors, backlog, conn, watched>>
    BY <1>3 DEF ServerCloseAll
  <2>2. Stages'
    BY <1>0, <2>1 DEF Stages, Listed, acceptors
  <2>3. PeerConns'
    BY <1>0, <2>1 DEF PeerConns, acceptors
  <2>4. QED BY <2>2, <2>3 DEF ListenerSide
<1>4. CASE ServerEmptied
  <2>1. /\ server = "emptying" /\ server' = "joining" /\ stop' = TRUE /\ \A e \in Peers : ~Listed(e)
        /\ UNCHANGED <<acceptors, backlog, conn, watched>>
    BY <1>4 DEF ServerEmptied
  <2>2. Stages'
    BY <1>0, <2>1 DEF Stages, Listed, acceptors
  <2>3. PeerConns'
    BY <1>0, <2>1 DEF PeerConns, acceptors
  <2>4. QED BY <2>2, <2>3 DEF ListenerSide
<1>5. CASE ServerFree
  <2>1. /\ server = "joining" /\ server' = "freed" /\ acceptor = "ended"
        /\ UNCHANGED <<stop, acceptors, backlog, conn, watched>>
    BY <1>5 DEF ServerFree
  <2>2. Stages'
    BY <1>0, <2>1 DEF Stages, Listed, acceptors
  <2>3. PeerConns'
    BY <1>0, <2>1 DEF PeerConns, acceptors
  <2>4. QED BY <2>2, <2>3 DEF ListenerSide
<1>6. QED BY <1>1, <1>2, <1>3, <1>4, <1>5

\* socketEpollWaitingThread
LEMMA AcceptorKeeps ==
  ASSUME Types, ListenerSide, Acceptor
  PROVE  ListenerSide'
<1>0. /\ Stages /\ PeerConns /\ None \notin Peers
      /\ DOMAIN conn = Connections /\ Peers \subseteq Connections /\ incoming \in Peers \cup {None}
  BY Kinds DEF ListenerSide, Types
<1>1. CASE AcceptorWait
  <2>1. reported' \subseteq watched /\ UNCHANGED <<servers, acceptor, incoming, backlog, conn, watched>>
    BY <1>1 DEF AcceptorWait, Report
  <2>2. Stages'
    BY <1>0, <2>1 DEF Stages, Listed, servers
  <2>3. PeerConns'
    BY <1>0, <2>1 DEF PeerConns
  <2>4. QED BY <2>2, <2>3 DEF ListenerSide
<1>2. CASE AcceptorEnd \/ AcceptBegin \/ AcceptAll \/ AcceptError
  <2>1. /\ acceptor \in {"loop", "accept"} /\ acceptor' \in {"ended", "accept", "loop"}
        /\ acceptor' = "ended" => stop
        /\ reported' \subseteq reported /\ UNCHANGED <<servers, incoming, backlog, conn, watched>>
    BY <1>2 DEF AcceptorEnd, AcceptBegin, AcceptAll, AcceptError
  <2>2. acceptor # "ended" /\ acceptor' # "none" /\ acceptor' \notin {"accepted", "created"} /\ server # "freed"
    BY <1>0, <2>1 DEF Stages
  <2>3. Stages'
    BY <1>0, <2>1, <2>2 DEF Stages, Listed, servers
  <2>4. PeerConns'
    BY <1>0, <2>1, <2>2 DEF PeerConns
  <2>5. QED BY <2>3, <2>4 DEF ListenerSide
<1>3. ASSUME NEW e \in Peers, AcceptorHangUp(e) PROVE ListenerSide'
  <2>1. /\ e \in reported /\ reported' = reported \ {e} /\ watched' = watched \ {e} /\ acceptor = "loop"
        /\ conn' = [conn EXCEPT ![e] = "closing"] /\ UNCHANGED <<servers, acceptor, incoming, backlog>>
    BY <1>3 DEF AcceptorHangUp
  <2>2. \A p \in Peers : conn'[p] = IF p = e THEN "closing" ELSE conn[p]
    BY <1>0, <2>1
  <2>3. e \in watched /\ conn[e] = "open" /\ ~stop
    BY <1>0, <2>1 DEF PeerConns, Stages, Listed
  <2>4. Stages'
    BY <1>0, <2>1, <2>3 DEF Stages, servers
  <2>5. PeerConns'
    BY <1>0, <2>1, <2>2, <2>3 DEF PeerConns
  <2>6. QED BY <2>4, <2>5 DEF ListenerSide
<1>4. ASSUME NEW e \in Peers, Accept(e) PROVE ListenerSide'
  <2>1. /\ acceptor = "accept" /\ acceptor' = "accepted" /\ e \in backlog /\ backlog' = backlog \ {e}
        /\ incoming' = e /\ UNCHANGED <<servers, reported, conn, watched>>
    BY <1>4 DEF Accept
  <2>2. conn[e] = "none" /\ e \notin watched /\ server = "up"
    <3>1. conn[e] = "none" /\ e \notin watched
      BY <1>0, <2>1 DEF PeerConns
    <3>2. server \notin {"closing", "emptying", "joining", "freed"} /\ server # "none"
      BY <1>0, <2>1 DEF Stages
    <3>3. QED BY <3>1, <3>2 DEF Types
  <2>3. Stages'
    BY <1>0, <2>1, <2>2 DEF Stages, Listed, servers
  <2>4. PeerConns'
    BY <1>0, <2>1, <2>2 DEF PeerConns
  <2>5. QED BY <2>3, <2>4 DEF ListenerSide
<1>5. CASE AcceptCreate
  <2>1. /\ acceptor = "accepted" /\ acceptor' = "created" /\ conn' = [conn EXCEPT ![incoming] = "open"]
        /\ UNCHANGED <<servers, reported, incoming, backlog, watched>>
    BY <1>5 DEF AcceptCreate
  <2>2. incoming \in Peers /\ ~stop /\ incoming \notin backlog
    BY <1>0, <2>1 DEF Stages, PeerConns
  <2>3. \A p \in Peers : conn'[p] = IF p = incoming THEN "open" ELSE conn[p]
    BY <1>0, <2>1, <2>2
  <2>4. Stages'
    BY <1>0, <2>1, <2>2 DEF Stages, servers
  <2>5. PeerConns'
    BY <1>0, <2>1, <2>2, <2>3 DEF PeerConns
  <2>6. QED BY <2>4, <2>5 DEF ListenerSide
<1>6. CASE AcceptAdd
  <2>1. /\ acceptor = "created" /\ acceptor' = "accept" /\ watched' = watched \cup {incoming}
        /\ incoming' = None /\ UNCHANGED <<servers, reported, backlog, conn>>
    BY <1>6 DEF AcceptAdd
  <2>2. Stages'
    BY <1>0, <2>1 DEF Stages, Listed, servers
  <2>3. PeerConns'
    BY <1>0, <2>1 DEF PeerConns
  <2>4. QED BY <2>2, <2>3 DEF ListenerSide
<1>7. QED BY <1>1, <1>2, <1>3, <1>4, <1>5, <1>6 DEF Acceptor

-----------------------------------------------------------------------------
(* The connections *)

LEMMA ReleaseKeeps ==
  ASSUME Types, ClientSide, ListenerSide, NEW e \in Connections, Release(e)
  PROVE  ClientSide' /\ ListenerSide'
<1>1. /\ conn[e] = "closing" /\ conn' = [conn EXCEPT ![e] = "gone"] /\ watched' = watched \ {e}
      /\ UNCHANGED <<clients, pollers, servers, acceptors, backlog>>
  BY DEF Release
<1>2. \A d \in Connections : conn'[d] = IF d = e THEN "gone" ELSE conn[d]
  BY <1>1 DEF Types
<1>3. Clients \subseteq Connections /\ Peers \subseteq Connections
  BY Kinds
<1>4. ClientConns'
  <2>1. UNCHANGED <<sock, polled>> /\ ClientConns
    BY <1>1 DEF clients, pollers, ClientSide
  <2>2. QED BY <1>1, <1>2, <1>3, <2>1 DEF ClientConns
<1>5. Locks' /\ Polls' /\ CountExact'
  <2>1. UNCHANGED <<sock, number, locker, epfd, poller>> /\ Locks /\ Polls /\ CountExact
    BY <1>1 DEF clients, pollers, ClientSide
  <2>2. Counted' = Counted /\ Joining' = Joining
    BY <2>1 DEF Counted, Joining
  <2>3. QED BY <2>1, <2>2 DEF Locks, Polls, CountExact
<1>6. PeerConns' /\ Stages'
  <2>1. UNCHANGED <<server, stop, acceptor, reported, incoming, backlog>> /\ PeerConns /\ Stages
    BY <1>1 DEF servers, acceptors, ListenerSide
  <2>2. PeerConns'
    BY <1>1, <1>2, <1>3, <2>1 DEF PeerConns
  <2>3. \A p \in Peers : ~Listed(p) => ~Listed(p)'
    BY <1>2, <1>3 DEF Listed
  <2>4. Stages'
    BY <2>1, <2>3 DEF Stages
  <2>5. QED BY <2>2, <2>4
<1>7. QED BY <1>4, <1>5, <1>6 DEF ClientSide, ListenerSide

LEMMA ArriveKeeps ==
  ASSUME Types, ListenerSide, NEW c \in Peers, Arrive(c)
  PROVE  ListenerSide'
<1>1. /\ server = "up" /\ conn[c] = "none" /\ incoming # c /\ backlog' = backlog \cup {c}
      /\ UNCHANGED <<server, stop, acceptor, reported, incoming, conn, watched>>
  BY DEF Arrive, servers, acceptors
<1>2. Stages'
  BY <1>1 DEF ListenerSide, Stages, Listed
<1>3. PeerConns'
  BY <1>1 DEF ListenerSide, PeerConns
<1>4. QED BY <1>2, <1>3 DEF ListenerSide

-----------------------------------------------------------------------------
LEMMA SocketInit == Init => SocketIInv
<1> SUFFICES ASSUME Init PROVE SocketIInv
  OBVIOUS
<1>1. Types
  <2>1. 0 \in Nat /\ 0 \in 0..MaxErrors
    BY SocketAssumption
  <2>2. /\ sock \in [Clients -> {"none"}]
        /\ conn \in [Connections -> {"none"}]
    BY DEF Init
  <2>3. /\ role \in {"clients", "listener"} /\ number = 0 /\ locker = None
        /\ epfd = FALSE /\ poller = "none" /\ polled = {} /\ closing = None
        /\ server = "none" /\ stop = FALSE
        /\ acceptor = "none" /\ reported = {} /\ incoming = None /\ errors = 0
        /\ backlog = {} /\ watched = {} /\ edge = {}
    BY DEF Init, Listen
  <2>4. /\ epfd \in BOOLEAN /\ stop \in BOOLEAN
    BY <2>3
  <2>5. QED BY <2>1, <2>2, <2>3, <2>4 DEF Types, Listen
<1>2. Counted = {} /\ Joining = {}
  BY DEF Init, Counted, Joining
<1>3. CountExact
  BY <1>2, FS_EmptySet DEF Init, CountExact
<1>4. Locks /\ Polls /\ ClientConns
  BY <1>2, Kinds DEF Init, Locks, Polls, ClientConns
<1>5. Stages /\ PeerConns
  BY Kinds DEF Init, Stages, PeerConns, Listed
<1>6. QED BY <1>1, <1>3, <1>4, <1>5 DEF SocketIInv, ClientSide, ListenerSide

LEMMA SocketStep ==
  ASSUME Settled
  PROVE  SocketIInv /\ [Next]_vars => SocketIInv'
<1> SUFFICES ASSUME SocketIInv, [Next]_vars PROVE SocketIInv'
  OBVIOUS
<1>0. Types /\ ClientSide /\ ListenerSide
  BY DEF SocketIInv
<1>1. Types'
  BY <1>0, TypesStep DEF ClientSide
<1>2. ClientSide' /\ ListenerSide'
  <2>1. ASSUME NEW c \in Clients,
               \/ Connect(c) \/ ConnectFails(c) \/ Starting(c) \/ DestroyClose(c) \/ Destroying(c)
        PROVE  ClientSide' /\ ListenerSide'
    <3>1. ClientSide'
      BY <1>0, <2>1, ClientStarts, ClientEnds
    <3>2. /\ UNCHANGED <<servers, acceptors, backlog>>
          /\ conn' = conn \/ conn' = [conn EXCEPT ![c] = "open"]
          /\ watched' = watched \/ watched' = watched \cup {c}
      BY <2>1 DEF Connect, ConnectFails, Starting, StartLock, StartCreate, StartAdd, StartReturn, DestroyClose,
            Destroying, DestroyLock, DestroyJoin
    <3>3. \A e \in Peers : conn'[e] = conn[e] /\ (e \in watched' <=> e \in watched)
      BY <1>0, <3>2, Kinds DEF Types
    <3>4. ListenerSide'
      BY <1>0, <3>2, <3>3, PeersApart DEF acceptors
    <3>5. QED BY <3>1, <3>4
  <2>2. CASE Poller
    <3>1. ClientSide'
      BY <1>0, <2>2, PollerKeeps
    <3>2. /\ UNCHANGED <<servers, acceptors, backlog>>
          /\ \/ UNCHANGED <<conn, watched>>
             \/ \E e \in Clients : conn' = [conn EXCEPT ![e] = "closing"] /\ watched' = watched \ {e}
      BY <2>2 DEF Poller, PollerCreate, PollerEnd, PollerWait, PollerHangUp, PollerDrop
    <3>3. \A e \in Peers : conn'[e] = conn[e] /\ (e \in watched' <=> e \in watched)
      BY <1>0, <3>2, Kinds DEF Types
    <3>4. ListenerSide'
      BY <1>0, <3>2, <3>3, PeersApart DEF acceptors
    <3>5. QED BY <3>1, <3>4
  <2>3. ASSUME UNCHANGED <<clients, pollers>>,
               \A c \in Clients : conn'[c] = conn[c] /\ (c \in watched' <=> c \in watched)
        PROVE  ClientSide'
    BY <1>0, <2>3, ClientsApart DEF pollers
  <2>4. CASE ServerStart \/ ServerShut \/ ServerCloseAll \/ ServerEmptied \/ ServerFree
    <3>1. ListenerSide'
      BY <1>0, <2>4, ServerKeeps
    <3>2. /\ UNCHANGED <<clients, pollers, conn>>
          /\ watched' \in {watched, watched \cup {None}, watched \ {None}}
      BY <2>4 DEF ServerStart, ServerShut, ServerCloseAll, ServerEmptied, ServerFree, Listen
    <3>3. ClientSide'
      BY <2>3, <3>2, Kinds
    <3>4. QED BY <3>1, <3>3
  <2>5. CASE Acceptor
    <3>1. ListenerSide'
      BY <1>0, <2>5, AcceptorKeeps
    <3>2. UNCHANGED <<clients, pollers>>
      BY <2>5 DEF Acceptor, AcceptorWait, AcceptorEnd, AcceptorHangUp, AcceptBegin, Accept, AcceptAll, AcceptError,
            AcceptCreate, AcceptAdd
    <3>3. /\ conn' = conn \/ \E e \in Peers, x \in {"open", "closing", "gone"} : conn' = [conn EXCEPT ![e] = x]
          /\ watched' = watched \/ \E e \in Peers : watched' \in {watched \cup {e}, watched \ {e}}
      <4>1. acceptor \in {"accepted", "created"} => incoming \in Peers
        BY <1>0 DEF Types, ListenerSide, Stages
      <4>2. QED BY <2>5, <4>1 DEF Acceptor, AcceptorWait, AcceptorEnd, AcceptorHangUp, AcceptBegin, Accept,
                  AcceptAll, AcceptError, AcceptCreate, AcceptAdd
    <3>4. \A c \in Clients : conn'[c] = conn[c] /\ (c \in watched' <=> c \in watched)
      BY <1>0, <3>3, Kinds DEF Types
    <3>5. QED BY <2>3, <3>1, <3>2, <3>4
  <2>6. ASSUME NEW c \in Peers, Arrive(c) PROVE ClientSide' /\ ListenerSide'
    BY <1>0, <2>3, <2>6, ArriveKeeps DEF Arrive
  <2>7. ASSUME NEW e \in Connections, Release(e) PROVE ClientSide' /\ ListenerSide'
    BY <1>0, <2>7, ReleaseKeeps
  <2>8. CASE UNCHANGED vars \/ \E e \in Connections : HangUp(e)
    <3>1. UNCHANGED <<clients, pollers, servers, acceptors, backlog, conn, watched>>
      BY <2>8 DEF HangUp, vars
    <3>2. ListenerSide'
      BY <1>0, <3>1, PeersApart DEF acceptors
    <3>3. QED BY <2>3, <3>1, <3>2
  <2>9. QED BY <2>1, <2>2, <2>4, <2>5, <2>6, <2>7, <2>8 DEF Next
<1>3. QED BY <1>1, <1>2 DEF SocketIInv

\* The inductive invariant of the sockets, when the listening socket is not shut between
\* accept and createConnection.
THEOREM SocketInvariance ==
  ASSUME Settled
  PROVE  Spec => []SocketIInv
<1>1. QED BY SocketInit, SocketStep, PTL DEF Spec

\* However many client sockets start and are destroyed at once: one shared epoll thread while
\* one of them is counted in ClientNumber and none afterwards, ClientEpollFd is there for
\* epoll_ctl, and every open connection is in the set of a thread that goes on waiting.
THEOREM EveryConnectionWatched ==
  ASSUME Settled
  PROVE  Spec => []Watched
<1>1. SocketIInv => Watched
  <2> SUFFICES ASSUME SocketIInv PROVE Watched
    OBVIOUS
  <2>0. Types /\ Polls /\ CountExact /\ ClientConns /\ Stages /\ PeerConns
    BY DEF SocketIInv, ClientSide, ListenerSide
  <2>1. TypeOK
    BY <2>0, TypesSuffice
  <2>2. /\ number = Cardinality(Counted)
        /\ number > 0 => poller \in {"created", "loop", "closing"}
        /\ number = 0 /\ Joining = {} => poller = "none"
        /\ \A c \in Clients : sock[c] = "created" => epfd
    BY <2>0 DEF Polls, CountExact
  <2>3. \A e \in Connections : conn[e] = "open" =>
           \/ e \in watched
           \/ e \in Clients /\ sock[e] = "created"
           \/ e = incoming /\ acceptor = "created"
    BY <2>0 DEF ClientConns, PeerConns, Connections
  <2>4. watched \cap Clients # {} => epfd /\ poller \in {"loop", "closing"}
    <3>1. ASSUME NEW c \in watched \cap Clients PROVE epfd /\ poller \in {"loop", "closing"}
      <4>1. conn[c] = "open" /\ sock[c] \in {"created", "added", "up", "emptying"}
        BY <2>0 DEF Types, ClientConns
      <4>2. QED BY <2>0, <4>1 DEF Polls
    <3>2. QED BY <3>1
  <2>5. watched \cap Peers # {} => acceptor # "ended" /\ ~stop
    BY <2>0 DEF PeerConns, Stages, Listed
  <2>6. QED BY <2>1, <2>2, <2>3, <2>4, <2>5 DEF Watched
<1>2. QED BY <1>1, SocketInvariance, PTL

\* No connection is freed that an epoll thread has an event of, and no socket whose
\* connections or thread are left.
THEOREM SocketsFreedLast ==
  ASSUME Settled
  PROVE  Spec => []FreedLast
<1>1. SocketIInv => FreedLast
  <2> SUFFICES ASSUME SocketIInv PROVE FreedLast
    OBVIOUS
  <2>0. Types /\ ClientConns /\ Stages /\ PeerConns
    BY DEF SocketIInv, ClientSide, ListenerSide
  <2>1. \A e \in polled : Listed(e)
    BY <2>0 DEF Types, ClientConns, Listed
  <2>2. \A e \in reported \ {Listen} : Listed(e)
    BY <2>0 DEF Types, PeerConns, Listed
  <2>3. \A c \in Clients : sock[c] = "freed" => conn[c] = "gone"
    BY <2>0 DEF ClientConns
  <2>4. server = "freed" => acceptor = "ended" /\ \A e \in Peers : ~Listed(e)
    BY <2>0 DEF Stages
  <2>5. QED BY <2>1, <2>2, <2>3, <2>4 DEF FreedLast
<1>2. QED BY <1>1, SocketInvariance, PTL

=============================================================================
