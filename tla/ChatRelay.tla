------------------------------ MODULE ChatRelay ------------------------------
(***************************************************************************)
(* One worker process of epoll_simple_chat_server: io_loop() and           *)
(* process_request() of main.c over the sockets of network.c.  The worker  *)
(* pairs client descriptors through fd_map and forwards what one reads to  *)
(* the other.                                                              *)
(*                                                                         *)
(* The kernel is part of the model because the hazards of this code lie    *)
(* between the two: descriptor numbers are reused, epoll reports edges     *)
(* once, an array of events is a snapshot taken at epoll_wait, and a peer  *)
(* may hang up or reset at any time.  One TLA+ action is one iteration of  *)
(* the event loop's body, one epoll_wait, or one step of a client.         *)
(***************************************************************************)
EXTENDS Integers, Sequences, FiniteSets

CONSTANTS
  Conn,         \* client connections that may reach this worker
  Fd,           \* descriptors the worker may get from accept(); 0 is stdin
  Number,       \* what atoi() makes of a line: 0 for a line of text
  Part,         \* stands for it in a line of which only a part was sent on
  listen_sock,  \* the listening descriptor
  MAX_EVENTS,   \* size of the array given to epoll_wait
  MaxLines,     \* bound of the model: lines typed on one connection
  NoConn,       \* owner of a descriptor that is closed
  Stdin         \* owner of descriptor 0 at start

ASSUME ChatAssumption ==
  /\ 0 \in Fd /\ Fd \subseteq Nat
  /\ Number \subseteq Nat /\ Part \notin Number
  /\ listen_sock \in Nat \ Fd
  /\ MAX_EVENTS \in Nat \ {0}
  /\ MaxLines \in Nat
  /\ NoConn \notin Conn /\ Stdin \notin Conn /\ NoConn # Stdin

VARIABLES
  status,        \* the worker: "running", "exited" or "killed" by SIGPIPE
  fd_map,        \* fd_map[f]: the descriptor f talks to, 0 if none yet
  ready_fd_map,  \* ready_fd_map[f] = 1 once accept() has returned f
  events,        \* events of the current batch not handled yet
  owner,         \* owner[f]: the connection open on f (kernel)
  epoll_ready,   \* descriptors on epoll's ready list (kernel)
  backlog,       \* connections waiting in accept() (kernel)
  peer,          \* peer[c]: the remote end of c as the kernel sees it
  inq,           \* inq[c]: lines in the receive buffer of c
  sent,          \* sent[c]: number of lines typed on c
  recvd          \* recvd[c]: lines, or parts, the client at the end of c received

workerVars == <<status, fd_map, ready_fd_map, events>>
kernelVars == <<owner, epoll_ready, backlog, peer, inq>>
vars == <<workerVars, kernelVars, sent, recvd>>

Index == Fd \cup Number        \* the indices of fd_map that can occur
Line == [from : Conn, seq : Nat, num : Number]
Piece == [from : Conn, seq : Nat, num : Number \cup {Part}]
Event == [fd : Fd \cup {listen_sock}, events : {"ERR", "IN", "OUT"}]
PeerState == {"none", "open", "closed", "reset", "dead"}

OpenOn(c) == {f \in Fd : owner[f] = c}
Reachable(c) == c \in backlog \/ OpenOn(c) # {}

Init ==
  /\ status = "running"
  /\ fd_map = [i \in Index |-> 0]
  /\ ready_fd_map = [i \in Index |-> 0]
  /\ events = {}
  /\ owner = [f \in Fd |-> IF f = 0 THEN Stdin ELSE NoConn]
  /\ epoll_ready = {}
  /\ backlog = {}
  /\ peer = [c \in Conn |-> "none"]
  /\ inq = [c \in Conn |-> << >>]
  /\ sent = [c \in Conn |-> 0]
  /\ recvd = [c \in Conn |-> << >>]

------------------------------------------------------------------------------
(* The clients and the other worker processes.                             *)

Connect(c) ==
  /\ peer[c] = "none"
  /\ peer' = [peer EXCEPT ![c] = "open"]
  /\ backlog' = backlog \cup {c}
  /\ UNCHANGED <<workerVars, owner, epoll_ready, inq, sent, recvd>>

\* A whole line arrives in one segment, as telnet sends it.
TypeLine(c, n) ==
  /\ peer[c] = "open" /\ Reachable(c)
  /\ sent[c] < MaxLines
  /\ inq' = [inq EXCEPT
       ![c] = Append(@, [from |-> c, seq |-> sent[c] + 1, num |-> n])]
  /\ sent' = [sent EXCEPT ![c] = @ + 1]
  /\ epoll_ready' = epoll_ready \cup OpenOn(c)
  /\ UNCHANGED <<workerVars, owner, backlog, peer, recvd>>

\* The client closes; what it typed before stays readable.
HangUp(c) ==
  /\ peer[c] = "open" /\ Reachable(c)
  /\ peer' = [peer EXCEPT ![c] = "closed"]
  /\ epoll_ready' = epoll_ready \cup OpenOn(c)
  /\ UNCHANGED <<workerVars, owner, backlog, inq, sent, recvd>>

\* A reset arrives: the socket has an error that EPOLLERR reports, until some
\* call on the socket returns it.
Reset(c) ==
  /\ peer[c] \in {"open", "closed"} /\ Reachable(c)
  /\ peer' = [peer EXCEPT ![c] = "reset"]
  /\ epoll_ready' = epoll_ready \cup OpenOn(c)
  /\ UNCHANGED <<workerVars, owner, backlog, inq, sent, recvd>>

\* The listening socket is shared since before fork(): another worker may take
\* the connection this one was woken up for.
OtherWorkerAccepts(c) ==
  /\ c \in backlog
  /\ backlog' = backlog \ {c}
  /\ UNCHANGED <<workerVars, owner, epoll_ready, peer, inq, sent, recvd>>

Environment ==
  \E c \in Conn :
    \/ Connect(c) \/ HangUp(c) \/ Reset(c) \/ OtherWorkerAccepts(c)
    \/ \E n \in Number : TypeLine(c, n)

------------------------------------------------------------------------------
(* epoll_wait.                                                             *)

Readable(c) == inq[c] # << >> \/ peer[c] \in {"closed", "dead"}

\* Mutant of Revents: EPOLLOUT, which a socket nearly always has, tested first.
ReventsOutFirst(f) ==
  IF owner[f] \in Conn /\ peer[owner[f]] = "reset" THEN "ERR" ELSE "OUT"

\* The branch io_loop takes for f: EPOLLERR before EPOLLIN before EPOLLOUT.
Revents(f) ==
  IF owner[f] \in Conn /\ peer[owner[f]] = "reset" THEN "ERR"
  ELSE IF owner[f] \in Conn /\ Readable(owner[f]) THEN "IN"
  ELSE "OUT"

Pollable == epoll_ready \cup (IF backlog # {} THEN {listen_sock} ELSE {})

EventOn(f) ==
  [fd |-> f, events |-> IF f = listen_sock THEN "IN" ELSE Revents(f)]

\* The handling order inside a batch is the order in which descriptors became
\* ready, which is up to the clients: a batch is a set.  Client descriptors are
\* edge triggered and leave the ready list, the listening one is not.
EpollWait ==
  /\ status = "running" /\ events = {}
  /\ \E S \in SUBSET Pollable :
       /\ S # {}
       /\ S = Pollable \/ Cardinality(S) = MAX_EVENTS
       /\ Cardinality(S) <= MAX_EVENTS
       /\ events' = {EventOn(f) : f \in S}
       /\ epoll_ready' = epoll_ready \ S
  /\ UNCHANGED <<status, fd_map, ready_fd_map, owner, backlog, peer, inq,
                 sent, recvd>>

------------------------------------------------------------------------------
(* The body of io_loop for one event.                                      *)

Take(e) == status = "running" /\ e \in events /\ events' = events \ {e}

FreeFd == {f \in Fd : owner[f] = NoConn}

\* accept() returns the lowest free descriptor, if there is one.
LowestFree == {f \in FreeFd : \A g \in FreeFd : f <= g}

\* Mutants of Watched: the new socket is not reported, and the wrong one is.
WatchedLater(client) == epoll_ready
WatchedListener(client) == epoll_ready \cup {listen_sock}

\* Registration with EPOLLET reports a new socket at once.
Watched(client) == epoll_ready \cup {client}

Accept(e) ==
  /\ e.fd = listen_sock /\ Take(e)
  /\ \E c \in backlog, client \in LowestFree :
       /\ owner' = [owner EXCEPT ![client] = c]
       /\ backlog' = backlog \ {c}
       /\ epoll_ready' = Watched(client)
       /\ ready_fd_map' = [ready_fd_map EXCEPT ![client] = 1]
  /\ UNCHANGED <<status, fd_map, peer, inq, sent, recvd>>

\* accept() returns -1: nothing is left to accept, or no descriptor is free.
\* make_socket_non_blocking(-1) then fails and perror_exit ends the worker.
AcceptFails(e) ==
  /\ e.fd = listen_sock /\ Take(e)
  /\ backlog = {} \/ FreeFd = {}
  /\ status' = "exited"
  /\ UNCHANGED <<fd_map, ready_fd_map, kernelVars, sent, recvd>>

\* Mutant of CloseAll: the descriptors are forgotten instead of closed.
ForgetAll(F) == UNCHANGED <<owner, epoll_ready>>

\* close(): the descriptor is free and leaves epoll; on a closed one, EBADF.
CloseAll(F) ==
  /\ owner' = [f \in Fd |-> IF f \in F THEN NoConn ELSE owner[f]]
  /\ epoll_ready' = epoll_ready \ F

\* close_and_clean of the descriptor and of the one it maps to, whatever that
\* is by now; neither map is cleared.
HandleError(e) ==
  /\ e.fd # listen_sock /\ e.events = "ERR" /\ Take(e)
  /\ CloseAll({e.fd, fd_map[e.fd]})
  /\ UNCHANGED <<status, fd_map, ready_fd_map, backlog, peer, inq, sent, recvd>>

\* The EPOLLOUT branch only prints.
HandleWritable(e) ==
  /\ e.fd # listen_sock /\ e.events = "OUT" /\ Take(e)
  /\ UNCHANGED <<status, fd_map, ready_fd_map, kernelVars, sent, recvd>>

------------------------------------------------------------------------------
(* process_request.                                                        *)

\* What read_all(f) returns: nothing when f is closed by now.
LinesAt(f) == IF owner[f] \in Conn THEN inq[owner[f]] ELSE << >>

\* Mutant of InqAfterRead: the lines stay in the buffer, as with MSG_PEEK.
InqAfterPeek(f) == inq

\* What is left in the receive buffers: read_all reads until read() fails.
InqAfterRead(f) == [c \in Conn |-> IF owner[f] = c THEN << >> ELSE inq[c]]

\* The failing read() consumes the error of a socket that was reset.
PeerAfterRead(f) ==
  [c \in Conn |->
     IF owner[f] = c /\ peer[c] = "reset" THEN "dead" ELSE peer[c]]

\* The descriptor the first line names; the lines behind it are dropped.
NamedFd(f) == IF LinesAt(f) = << >> THEN 0 ELSE LinesAt(f)[1].num

\* Mutant of Registrable: any number is taken for a client.
AnyRegistrable(g) == g # 0

Registrable(g) == g # 0 /\ ready_fd_map[g] = 1

\* Mutant of Paired: only the caller's side of the pair is recorded.
HalfPaired(f, g) == [fd_map EXCEPT ![f] = g]

Paired(f, g) == [fd_map EXCEPT ![f] = g, ![g] = f]

ReadAll(f) ==
  /\ inq' = InqAfterRead(f)
  /\ peer' = PeerAfterRead(f)

IsRequest(e) == e.fd # listen_sock /\ e.events = "IN"

Register(e) ==
  /\ IsRequest(e) /\ Take(e)
  /\ fd_map[e.fd] = 0
  /\ ReadAll(e.fd)
  /\ Registrable(NamedFd(e.fd))
  /\ fd_map' = Paired(e.fd, NamedFd(e.fd))
  /\ UNCHANGED <<status, ready_fd_map, owner, epoll_ready, backlog, sent, recvd>>

Refuse(e) ==
  /\ IsRequest(e) /\ Take(e)
  /\ fd_map[e.fd] = 0
  /\ ReadAll(e.fd)
  /\ ~Registrable(NamedFd(e.fd))
  /\ CloseAll({e.fd})
  /\ UNCHANGED <<status, fd_map, ready_fd_map, backlog, sent, recvd>>

\* Nothing was read: "buffer is null".
ForwardNothing(e) ==
  /\ IsRequest(e) /\ Take(e)
  /\ fd_map[e.fd] # 0
  /\ LinesAt(e.fd) = << >>
  /\ ReadAll(e.fd)
  /\ UNCHANGED <<status, fd_map, ready_fd_map, owner, epoll_ready, backlog,
                 sent, recvd>>

\* What send_all may get through of the lines s: write() takes all of them, or
\* the first k, the last of these whole or in part.
Written(s) ==
  {SubSeq(s, 1, k) : k \in 0 .. Len(s)}
    \cup {[SubSeq(s, 1, k) EXCEPT ![k].num = Part] : k \in 1 .. Len(s)}

\* send_all(fd_map[f]) to a live peer: a full send buffer (EAGAIN) or EINTR
\* ends it early and the rest is lost; on a closed descriptor all is lost.
Forward(e) ==
  /\ IsRequest(e) /\ Take(e)
  /\ fd_map[e.fd] # 0
  /\ LinesAt(e.fd) # << >>
  /\ inq' = InqAfterRead(e.fd)
  /\ LET d == owner[fd_map[e.fd]]
         p == PeerAfterRead(e.fd)
     IN \/ /\ d \in Conn /\ p[d] = "open"
           /\ \E s \in Written(LinesAt(e.fd)) :
                recvd' = [recvd EXCEPT ![d] = @ \o s]
           /\ peer' = p
           /\ UNCHANGED status
        \/ /\ d \in Conn => p[d] = "closed"
           /\ peer' = p
           /\ UNCHANGED <<recvd, status>>
        \/ /\ d \in Conn /\ p[d] = "reset"      \* ECONNRESET
           /\ peer' = [p EXCEPT ![d] = "dead"]
           /\ UNCHANGED <<recvd, status>>
        \/ /\ d \in Conn /\ p[d] \in {"reset", "dead"}   \* SIGPIPE
           /\ peer' = p
           /\ status' = "killed"
           /\ UNCHANGED recvd
  /\ UNCHANGED <<fd_map, ready_fd_map, owner, epoll_ready, backlog, sent>>

HandleEvent(e) ==
  \/ Accept(e) \/ AcceptFails(e)
  \/ HandleError(e) \/ HandleWritable(e)
  \/ Register(e) \/ Refuse(e) \/ ForwardNothing(e) \/ Forward(e)

IoLoop == EpollWait \/ \E e \in events : HandleEvent(e)

Next == Environment \/ IoLoop

Spec == Init /\ [][Next]_vars

\* The worker is a process the kernel schedules; clients owe nothing.
FairSpec == Spec /\ WF_vars(IoLoop)

------------------------------------------------------------------------------
(* What is checked of the worker.                                          *)

TypeOK ==
  /\ status \in {"running", "exited", "killed"}
  /\ fd_map \in [Index -> Fd]
  /\ ready_fd_map \in [Index -> {0, 1}]
  /\ events \in SUBSET Event
  /\ owner \in [Fd -> Conn \cup {NoConn, Stdin}]
  /\ epoll_ready \in SUBSET Fd
  /\ backlog \in SUBSET Conn
  /\ peer \in [Conn -> PeerState]
  /\ inq \in [Conn -> Seq(Line)]
  /\ sent \in [Conn -> Nat]
  /\ recvd \in [Conn -> Seq(Piece)]

(***************************************************************************)
(* The descriptors fd_map relates were all returned by accept() at some    *)
(* time, so send_all never writes to, and close_and_clean never closes,    *)
(* the listening socket, the epoll descriptor or an output of the worker   *)
(* (main.c:33, 70, 76, 95).                                                *)
(***************************************************************************)
MapsNameClients ==
  \A i \in Index :
    /\ ready_fd_map[i] = 1 => i \in Fd
    /\ fd_map[i] # 0 =>
         ready_fd_map[i] = 1 /\ ready_fd_map[fd_map[i]] = 1

(***************************************************************************)
(* Edge triggering loses no line: as long as a client has unread lines,    *)
(* its descriptor is on the ready list or in the current batch with an     *)
(* event that reads or closes it (network.c:74, 91; main.c:17-45).         *)
(***************************************************************************)
NoLostEdge ==
  status = "running" =>
    \A f \in Fd :
      owner[f] \in Conn /\ inq[owner[f]] # << >> =>
        \/ f \in epoll_ready
        \/ \E e \in events : e.fd = f /\ e.events \in {"IN", "ERR"}

(***************************************************************************)
(* Unless descriptor 0 was closed by mistake and reused, the descriptor a  *)
(* client talks to is itself in a conversation: a client someone has       *)
(* registered with never has its next line read as a descriptor number     *)
(* (main.c:54, 76-77).                                                     *)
(***************************************************************************)
PartnerIsTalking ==
  ready_fd_map[0] = 0 =>
    \A f \in Fd : fd_map[f] # 0 => fd_map[fd_map[f]] # 0

(***************************************************************************)
(* The worker implements the abstract relay: lines are passed on in order, *)
(* at most once and to one client, whatever the descriptors go through.    *)
(***************************************************************************)
Relay == INSTANCE LineRelay WITH pending <- inq, delivered <- recvd

RelaySpec == Relay!Spec

\* Lines of one sender reach a receiver in the order they were typed, once.
LinesInOrder == Relay!DeliveredInOrder

\* No line is forwarded to two clients, however often pairs are re-registered.
SentToOne == Relay!OneRecipient

(***************************************************************************)
(* A line that reached the worker is read, unless the worker ends or the   *)
(* connection is closed first.                                             *)
(***************************************************************************)
LinesAreRead ==
  \A c \in Conn :
    OpenOn(c) # {} /\ inq[c] # << >>
      ~> status # "running" \/ OpenOn(c) = {} \/ inq[c] = << >>

(***************************************************************************)
(* The descriptor of a client that is gone and talks to nobody is closed,  *)
(* unless somebody registers with it first (main.c:65-69, 32).  A paired   *)
(* descriptor has no such guarantee: its hang-up is read as "buffer is     *)
(* null" (main.c:98) and it stays open.                                    *)
(***************************************************************************)
HangUpsAreReclaimed ==
  \A f \in Fd, c \in Conn :
    owner[f] = c /\ peer[c] # "open" /\ fd_map[f] = 0
      ~> status # "running" \/ owner[f] # c \/ fd_map[f] # 0

------------------------------------------------------------------------------
(* What the repository says of the pairing and the code does not keep.     *)

(***************************************************************************)
(* README:11, "first input the B's sockfd,then start communicate": a       *)
(* connection just accepted talks to nobody yet.                           *)
(***************************************************************************)
AcceptedUnpaired ==
  [][\A f \in Fd :
       owner[f] = NoConn /\ owner'[f] \in Conn => fd_map'[f] = 0]_vars

==============================================================================
