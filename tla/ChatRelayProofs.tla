--------------------------- MODULE ChatRelayProofs ---------------------------
(***************************************************************************)
(* For any number of clients, descriptors and lines: the types of          *)
(* ChatRelay, what its maps hold, that edge triggering loses no line, and  *)
(* that the worker implements LineRelay, and what every LineRelay keeps.   *)
(***************************************************************************)
EXTENDS ChatRelay, TLAPS

\* The descriptors the worker's events and epoll's ready list speak of, and
\* those a client is open on, were all returned by accept().
EventsNameClients ==
  /\ \A f \in epoll_ready : ready_fd_map[f] = 1
  /\ \A e \in events : e.fd # listen_sock => ready_fd_map[e.fd] = 1
  /\ \A f \in Fd : owner[f] \in Conn => ready_fd_map[f] = 1

(***************************************************************************)
(* The inductive invariant for what the maps hold.                         *)
(***************************************************************************)
MapInv ==
  /\ TypeOK
  /\ EventsNameClients
  /\ MapsNameClients

LEMMA ConstantFacts ==
  /\ 0 \in Fd /\ Fd \subseteq Nat /\ Fd \subseteq Index /\ Number \subseteq Index
  /\ 0 \in Index
  /\ listen_sock \notin Fd
  /\ NoConn \notin Conn /\ Stdin \notin Conn
BY ChatAssumption DEF Index

LEMMA MapInit == Init => MapInv
BY ConstantFacts
DEF Init, MapInv, TypeOK, EventsNameClients, MapsNameClients, PeerState

------------------------------------------------------------------------------
(* The types.                                                              *)

LEMMA TypeReadAll ==
  ASSUME TypeOK, NEW f \in Fd
  PROVE  /\ InqAfterRead(f) \in [Conn -> Seq(Line)]
         /\ PeerAfterRead(f) \in [Conn -> PeerState]
         /\ LinesAt(f) \in Seq(Line)
         /\ NamedFd(f) \in Number \cup {0}
<1>1. /\ inq \in [Conn -> Seq(Line)] /\ << >> \in Seq(Line)
      /\ peer \in [Conn -> PeerState] /\ "dead" \in PeerState
  BY DEF TypeOK, PeerState
<1>2. LinesAt(f) \in Seq(Line)
  BY <1>1 DEF LinesAt
<1>3. LinesAt(f) # << >> => LinesAt(f)[1] \in Line
  BY <1>2
<1> QED
  BY <1>1, <1>2, <1>3 DEF InqAfterRead, PeerAfterRead, NamedFd, Line

\* What is registered is a client's descriptor, since it is marked as ready.
LEMMA NamedIsClient ==
  ASSUME MapInv, NEW f \in Fd, Registrable(NamedFd(f))
  PROVE  NamedFd(f) \in Fd /\ NamedFd(f) # 0 /\ ready_fd_map[NamedFd(f)] = 1
BY TypeReadAll, ConstantFacts DEF MapInv, MapsNameClients, Registrable

\* What is written of some lines: pieces of them, from the first one on.
LEMMA WrittenFacts ==
  ASSUME NEW s \in Seq(Line), NEW w \in Written(s)
  PROVE  /\ w \in Seq(Piece) /\ Len(w) \in Nat /\ Len(w) <= Len(s)
         /\ \A i \in 1 .. Len(w) : w[i].from = s[i].from /\ w[i].seq = s[i].seq
<1> DEFINE Cut(l) == [l EXCEPT !.num = Part]
<1>1. ASSUME NEW l \in Line
      PROVE  /\ l \in Piece /\ Cut(l) \in Piece
             /\ Cut(l).from = l.from /\ Cut(l).seq = l.seq
  BY DEF Line, Piece
<1> HIDE DEF Cut
<1>2. ASSUME NEW k \in 0 .. Len(s), w = SubSeq(s, 1, k)
      PROVE  /\ w \in Seq(Piece) /\ Len(w) \in Nat /\ Len(w) <= Len(s)
             /\ \A i \in 1 .. Len(w) : w[i].from = s[i].from /\ w[i].seq = s[i].seq
  <2>1. /\ w \in Seq(Line) /\ Len(w) = k
        /\ \A i \in 1 .. k : w[i] = s[i] /\ w[i] \in Line
    BY <1>2
  <2>2. \A i \in 1 .. Len(w) : w[i] \in Piece
    BY <2>1, <1>1
  <2>3. w \in Seq(Piece)
    BY <2>1, <2>2
  <2> QED
    BY <2>1, <2>3
<1>3. ASSUME NEW k \in 1 .. Len(s), w = [SubSeq(s, 1, k) EXCEPT ![k].num = Part]
      PROVE  /\ w \in Seq(Piece) /\ Len(w) \in Nat /\ Len(w) <= Len(s)
             /\ \A i \in 1 .. Len(w) : w[i].from = s[i].from /\ w[i].seq = s[i].seq
  <2> DEFINE u == SubSeq(s, 1, k)
  <2>1. u \in Seq(Line) /\ Len(u) = k /\ \A i \in 1 .. k : u[i] = s[i] /\ u[i] \in Line
    BY <1>3
  <2>2. w = [u EXCEPT ![k] = Cut(u[k])]
    BY <1>3 DEF Cut
  <2> HIDE DEF u
  <2>3. /\ DOMAIN w = 1 .. k
        /\ \A i \in 1 .. k : w[i] = IF i = k THEN Cut(u[k]) ELSE u[i]
    BY <2>1, <2>2
  <2>4. \A i \in 1 .. k : /\ w[i] \in Piece
                         /\ w[i].from = s[i].from /\ w[i].seq = s[i].seq
    BY <2>1, <2>3, <1>1
  <2>5. w = [i \in 1 .. k |-> w[i]]
    BY <2>2, <2>3
  <2>6. w \in Seq(Piece) /\ Len(w) = k
    BY <2>4, <2>5
  <2>7. k \in Nat /\ k <= Len(s)
    BY <1>3
  <2> QED
    BY <2>4, <2>6, <2>7
<1> QED
  BY <1>2, <1>3 DEF Written

LEMMA TypeForward ==
  ASSUME TypeOK, NEW e \in events, Forward(e)
  PROVE  recvd' \in [Conn -> Seq(Piece)] /\ peer' \in [Conn -> PeerState]
                /\ status' \in {"running", "exited", "killed"}
<1> DEFINE s == LinesAt(e.fd)
           p == PeerAfterRead(e.fd)
           d == owner[fd_map[e.fd]]
<1>1. e.fd \in Fd
  BY DEF Forward, IsRequest, TypeOK, Event
<1>2. s \in Seq(Line) /\ p \in [Conn -> PeerState] /\ "dead" \in PeerState
  BY <1>1, TypeReadAll DEF PeerState
<1>3. ASSUME NEW w \in Written(s), NEW c \in Conn
      PROVE  recvd[c] \o w \in Seq(Piece)
  <2> HIDE DEF s
  <2>1. w \in Seq(Piece)
    BY <1>2, WrittenFacts
  <2>2. recvd[c] \in Seq(Piece)
    BY DEF TypeOK
  <2> QED
    BY <2>1, <2>2
<1>4. recvd \in [Conn -> Seq(Piece)] /\ status \in {"running", "exited", "killed"}
  BY DEF TypeOK
<1>5. \/ /\ d \in Conn
         /\ \E w \in Written(s) : recvd' = [recvd EXCEPT ![d] = @ \o w]
         /\ peer' = p /\ status' = status
      \/ recvd' = recvd /\ peer' = p /\ status' = status
      \/ recvd' = recvd /\ peer' = [p EXCEPT ![d] = "dead"] /\ status' = status
      \/ recvd' = recvd /\ peer' = p /\ status' = "killed"
  BY DEF Forward
<1> HIDE DEF s, p, d
<1> QED
  BY <1>2, <1>3, <1>4, <1>5

LEMMA TypeStep == MapInv /\ [Next]_vars => TypeOK'
<1> SUFFICES ASSUME MapInv, [Next]_vars PROVE TypeOK'
  OBVIOUS
<1> USE ConstantFacts
<1>t. TypeOK
  BY DEF MapInv
<1>1. ASSUME NEW c \in Conn, Connect(c) PROVE TypeOK'
  BY <1>t, <1>1 DEF Connect, TypeOK, workerVars, PeerState
<1>2. ASSUME NEW c \in Conn, NEW n \in Number, TypeLine(c, n) PROVE TypeOK'
  <2>1. [from |-> c, seq |-> sent[c] + 1, num |-> n] \in Line
    BY <1>t DEF TypeOK, Line
  <2> DEFINE line == [from |-> c, seq |-> sent[c] + 1, num |-> n]
  <2>2. inq' = [inq EXCEPT ![c] = Append(inq[c], line)]
    BY <1>2 DEF TypeLine
  <2> HIDE DEF line
  <2>3. Append(inq[c], line) \in Seq(Line)
    BY <1>t, <2>1 DEF TypeOK, line
  <2>4. inq' \in [Conn -> Seq(Line)]
    BY <1>t, <2>2, <2>3 DEF TypeOK
  <2>5. sent' \in [Conn -> Nat]
    BY <1>t, <1>2 DEF TypeLine, TypeOK
  <2> QED
    BY <1>t, <1>2, <2>4, <2>5 DEF TypeLine, TypeOK, workerVars, OpenOn
<1>3. ASSUME NEW c \in Conn, HangUp(c) PROVE TypeOK'
  BY <1>t, <1>3 DEF HangUp, TypeOK, workerVars, PeerState, OpenOn
<1>4. ASSUME NEW c \in Conn, Reset(c) PROVE TypeOK'
  BY <1>t, <1>4 DEF Reset, TypeOK, workerVars, PeerState, OpenOn
<1>5. ASSUME NEW c \in Conn, OtherWorkerAccepts(c) PROVE TypeOK'
  BY <1>t, <1>5 DEF OtherWorkerAccepts, TypeOK, workerVars
<1>6. CASE EpollWait
  <2>1. ASSUME NEW f \in Pollable PROVE EventOn(f) \in Event
    <3>1. f \in Fd \cup {listen_sock}
      BY <1>t DEF Pollable, TypeOK
    <3>2. Revents(f) \in {"ERR", "IN", "OUT"}
      BY DEF Revents
    <3> QED
      BY <3>1, <3>2 DEF EventOn, Event
  <2>2. PICK S \in SUBSET Pollable : events' = {EventOn(f) : f \in S}
                                 /\ epoll_ready' = epoll_ready \ S
    BY <1>6 DEF EpollWait
  <2>3. events' \in SUBSET Event
    BY <2>1, <2>2
  <2> QED
    BY <1>t, <1>6, <2>2, <2>3 DEF EpollWait, TypeOK
<1>7. ASSUME NEW e \in events, HandleEvent(e) PROVE TypeOK'
  <2>1. e.fd \in Fd \cup {listen_sock}
    BY <1>t DEF TypeOK, Event
  <2>2. CASE Accept(e)
    BY <1>t, <2>2 DEF Accept, Take, LowestFree, FreeFd, Watched, TypeOK
  <2>3. CASE AcceptFails(e)
    BY <1>t, <2>3 DEF AcceptFails, Take, TypeOK, kernelVars
  <2>4. CASE HandleError(e)
    BY <1>t, <2>1, <2>4 DEF HandleError, CloseAll, Take, TypeOK
  <2>5. CASE HandleWritable(e)
    BY <1>t, <2>5 DEF HandleWritable, Take, TypeOK, kernelVars
  <2>6. CASE Register(e)
    <3>1. e.fd \in Fd
      BY <2>1, <2>6 DEF Register, IsRequest
    <3>2. Paired(e.fd, NamedFd(e.fd)) \in [Index -> Fd]
      BY <1>t, <2>6, <3>1, NamedIsClient DEF Register, Paired, TypeOK
    <3> QED
      BY <1>t, <2>6, <3>1, <3>2, TypeReadAll DEF Register, Take, ReadAll, TypeOK
  <2>7. CASE Refuse(e)
    BY <1>t, <2>1, <2>7, TypeReadAll
    DEF Refuse, IsRequest, CloseAll, Take, ReadAll, TypeOK
  <2>8. CASE ForwardNothing(e)
    BY <1>t, <2>1, <2>8, TypeReadAll
    DEF ForwardNothing, IsRequest, Take, ReadAll, TypeOK
  <2>9. CASE Forward(e)
    BY <1>t, <2>1, <2>9, TypeReadAll, TypeForward
    DEF Forward, IsRequest, Take, TypeOK
  <2> QED
    BY <1>7, <2>2, <2>3, <2>4, <2>5, <2>6, <2>7, <2>8, <2>9 DEF HandleEvent
<1>8. CASE UNCHANGED vars
  BY <1>t, <1>8 DEF vars, workerVars, kernelVars, TypeOK
<1> QED
  BY <1>1, <1>2, <1>3, <1>4, <1>5, <1>6, <1>7, <1>8
  DEF Next, Environment, IoLoop

------------------------------------------------------------------------------
(* What the maps hold.                                                     *)

LEMMA MapStep == MapInv /\ [Next]_vars => MapInv'
<1> SUFFICES ASSUME MapInv, [Next]_vars
             PROVE  EventsNameClients' /\ MapsNameClients'
  BY TypeStep DEF MapInv
<1> USE ConstantFacts
<1>t. TypeOK /\ EventsNameClients /\ MapsNameClients
  BY DEF MapInv
<1>1. ASSUME NEW c \in Conn,
             \/ Connect(c) \/ HangUp(c) \/ Reset(c) \/ OtherWorkerAccepts(c)
             \/ \E n \in Number : TypeLine(c, n)
      PROVE  EventsNameClients' /\ MapsNameClients'
  <2>1. /\ UNCHANGED <<fd_map, ready_fd_map, events, owner>>
        /\ epoll_ready' \subseteq epoll_ready \cup OpenOn(c)
    BY <1>1 DEF Connect, HangUp, Reset, OtherWorkerAccepts, TypeLine, workerVars
  <2> QED
    BY <1>t, <2>1 DEF EventsNameClients, MapsNameClients, OpenOn
<1>2. CASE EpollWait
  <2>1. PICK S \in SUBSET Pollable : events' = {EventOn(f) : f \in S}
                                 /\ epoll_ready' = epoll_ready \ S
    BY <1>2 DEF EpollWait
  <2>2. \A f \in Pollable : f # listen_sock => ready_fd_map[f] = 1
    BY <1>t DEF Pollable, EventsNameClients
  <2>3. \A e \in events' : e.fd # listen_sock => ready_fd_map[e.fd] = 1
    BY <2>1, <2>2 DEF EventOn
  <2> QED
    BY <1>t, <1>2, <2>1, <2>3 DEF EpollWait, EventsNameClients, MapsNameClients
<1>3. ASSUME NEW e \in events, HandleEvent(e)
      PROVE  EventsNameClients' /\ MapsNameClients'
  <2>1. e.fd \in Fd \cup {listen_sock}
    BY <1>t DEF TypeOK, Event
  <2>2. CASE Accept(e)
    BY <1>t, <2>2
    DEF Accept, Take, LowestFree, FreeFd, Watched, TypeOK, EventsNameClients,
        MapsNameClients
  <2>3. CASE HandleError(e) \/ Refuse(e)
    BY <1>t, <2>3
    DEF HandleError, Refuse, CloseAll, Take, TypeOK, EventsNameClients,
        MapsNameClients
  <2>4. CASE Register(e)
    <3>1. e.fd \in Fd /\ ready_fd_map[e.fd] = 1
      BY <1>t, <2>1, <2>4 DEF Register, IsRequest, EventsNameClients
    <3>2. NamedFd(e.fd) \in Fd /\ ready_fd_map[NamedFd(e.fd)] = 1
      BY <2>4, <3>1, NamedIsClient DEF Register
    <3>3. fd_map' = [fd_map EXCEPT ![e.fd] = NamedFd(e.fd), ![NamedFd(e.fd)] = e.fd]
      BY <2>4 DEF Register, Paired
    <3>4. MapsNameClients'
      BY <1>t, <2>4, <3>1, <3>2, <3>3 DEF Register, MapsNameClients, TypeOK
    <3> QED
      BY <1>t, <2>4, <3>4 DEF Register, Take, EventsNameClients
  <2>5. CASE AcceptFails(e) \/ HandleWritable(e) \/ ForwardNothing(e) \/ Forward(e)
    BY <1>t, <2>5
    DEF AcceptFails, HandleWritable, ForwardNothing, Forward, Take, kernelVars,
        EventsNameClients, MapsNameClients
  <2> QED
    BY <1>3, <2>2, <2>3, <2>4, <2>5 DEF HandleEvent
<1>4. CASE UNCHANGED vars
  BY <1>t, <1>4 DEF vars, workerVars, kernelVars, EventsNameClients, MapsNameClients
<1> QED
  BY <1>1, <1>2, <1>3, <1>4 DEF Next, Environment, IoLoop

THEOREM MapCorrect == Spec => []MapInv
BY MapInit, MapStep, PTL DEF Spec

(***************************************************************************)
(* Every variable of the worker keeps its type: fd_map in particular holds *)
(* client descriptors or 0 (main.c:6, 76-77).                              *)
(***************************************************************************)
THEOREM TypeCorrect == Spec => []TypeOK
BY MapCorrect, PTL DEF MapInv

(***************************************************************************)
(* Neither the listening socket nor any other descriptor that accept() has *)
(* not returned is written to or closed through the maps (main.c:33, 95).  *)
(***************************************************************************)
THEOREM MapsCorrect == Spec => []MapsNameClients
BY MapCorrect, PTL DEF MapInv

------------------------------------------------------------------------------
(* Edge triggering.                                                        *)

\* What NoLostEdge says of one descriptor.
Noticed(f) ==
  \/ f \in epoll_ready
  \/ \E e \in events : e.fd = f /\ e.events \in {"IN", "ERR"}

Unread(f) == owner[f] \in Conn /\ inq[owner[f]] # << >>

LEMMA EdgeStep == MapInv /\ NoLostEdge /\ [Next]_vars => NoLostEdge'
<1> SUFFICES ASSUME MapInv, NoLostEdge, [Next]_vars, status' = "running",
                    NEW f \in Fd, Unread(f)'
             PROVE  Noticed(f)'
  BY DEF NoLostEdge, Noticed, Unread
<1> USE ConstantFacts
<1>t. TypeOK
  BY DEF MapInv
<1>n. status = "running" /\ Unread(f) => Noticed(f)
  BY DEF NoLostEdge, Noticed, Unread
<1>1. ASSUME NEW c \in Conn,
             \/ Connect(c) \/ HangUp(c) \/ Reset(c) \/ OtherWorkerAccepts(c)
      PROVE  Noticed(f)'
  BY <1>n, <1>1
  DEF Connect, HangUp, Reset, OtherWorkerAccepts, workerVars, Unread, Noticed
<1>2. ASSUME NEW c \in Conn, NEW n \in Number, TypeLine(c, n) PROVE Noticed(f)'
  <2>1. CASE owner[f] = c
    BY <1>2, <2>1 DEF TypeLine, OpenOn, Noticed
  <2>2. CASE owner[f] # c
    <3>1. Unread(f)
      BY <1>t, <1>2, <2>2 DEF TypeLine, TypeOK, Unread
    <3> QED
      BY <1>n, <1>2, <3>1 DEF TypeLine, workerVars, Noticed
  <2> QED
    BY <2>1, <2>2
<1>3. CASE EpollWait
  <2>1. PICK S \in SUBSET Pollable : events' = {EventOn(g) : g \in S}
                                 /\ epoll_ready' = epoll_ready \ S
    BY <1>3 DEF EpollWait
  <2>2. f \in epoll_ready /\ Unread(f)
    BY <1>n, <1>3 DEF EpollWait, Unread, Noticed
  <2>3. CASE f \in S
    <3>1. EventOn(f).fd = f /\ EventOn(f).events \in {"IN", "ERR"}
      BY <2>2 DEF EventOn, Revents, Readable, Unread
    <3> QED
      BY <2>1, <2>3, <3>1 DEF Noticed
  <2> QED
    BY <2>1, <2>2, <2>3 DEF Noticed
<1>4. ASSUME NEW e \in events, HandleEvent(e) PROVE Noticed(f)'
  <2>1. events' = events \ {e} /\ status = "running"
    BY <1>4
    DEF HandleEvent, Accept, AcceptFails, HandleError, HandleWritable, Register,
        Refuse, ForwardNothing, Forward, Take
  <2>3. CASE Accept(e)
    <3>1. PICK c \in backlog, client \in LowestFree :
            /\ owner' = [owner EXCEPT ![client] = c]
            /\ epoll_ready' = epoll_ready \cup {client}
      BY <2>3 DEF Accept, Watched
    <3>2. CASE f = client
      BY <3>1, <3>2 DEF Noticed
    <3>3. CASE f # client
      <4>1. Unread(f)
        BY <1>t, <2>3, <3>1, <3>3 DEF Accept, LowestFree, FreeFd, TypeOK, Unread
      <4>2. e.fd # f
        BY <2>3 DEF Accept
      <4> QED
        BY <1>n, <2>1, <3>1, <4>1, <4>2 DEF Noticed
    <3> QED
      BY <3>2, <3>3
  <2>4. CASE HandleError(e) \/ Refuse(e)
    <3>1. PICK F \in SUBSET Index : CloseAll(F) /\ e.fd \in F
      <4>1. e.fd \in Fd
        BY <1>t, <2>4 DEF TypeOK, Event, HandleError, Refuse, IsRequest
      <4>2. fd_map[e.fd] \in Fd
        BY <1>t, <4>1 DEF TypeOK
      <4>3. CASE HandleError(e)
        <5>1. {e.fd, fd_map[e.fd]} \in SUBSET Index
          BY <4>1, <4>2
        <5> QED
          BY <4>3, <5>1 DEF HandleError
      <4>4. CASE Refuse(e)
        <5>1. {e.fd} \in SUBSET Index
          BY <4>1
        <5> QED
          BY <4>4, <5>1 DEF Refuse
      <4> QED
        BY <2>4, <4>3, <4>4
    <3>2. f \notin F /\ owner[f] \in Conn /\ owner'[f] = owner[f]
      BY <1>t, <3>1 DEF CloseAll, Unread, TypeOK
    <3>3. inq' = inq \/ inq' = InqAfterRead(e.fd)
      BY <2>4 DEF HandleError, Refuse, ReadAll
    <3>4. Unread(f)
      BY <3>2, <3>3 DEF Unread, InqAfterRead
    <3>5. f \in epoll_ready => f \in epoll_ready'
      BY <3>1, <3>2 DEF CloseAll
    <3> QED
      BY <1>n, <2>1, <3>1, <3>2, <3>4, <3>5 DEF Noticed
  <2>5. CASE HandleWritable(e)
    BY <1>n, <2>1, <2>5 DEF HandleWritable, kernelVars, Unread, Noticed
  <2>6. CASE Register(e) \/ ForwardNothing(e) \/ Forward(e)
    <3>1. inq' = InqAfterRead(e.fd) /\ owner' = owner /\ epoll_ready' = epoll_ready
      BY <2>6 DEF Register, ForwardNothing, Forward, ReadAll
    <3>2. owner[e.fd] # owner[f] /\ Unread(f)
      BY <1>t, <3>1 DEF InqAfterRead, Unread, TypeOK
    <3> QED
      BY <1>n, <2>1, <3>1, <3>2 DEF Noticed
  <2>7. CASE AcceptFails(e)
    BY <2>7 DEF AcceptFails
  <2> QED
    BY <1>4, <2>3, <2>4, <2>5, <2>6, <2>7 DEF HandleEvent
<1>5. CASE UNCHANGED vars
  BY <1>n, <1>5 DEF vars, workerVars, kernelVars, Unread, Noticed
<1> QED
  BY <1>1, <1>2, <1>3, <1>4, <1>5 DEF Next, Environment, IoLoop

(***************************************************************************)
(* As long as a client has lines that were not read, the worker is going   *)
(* to be told of them or holds an event that reads or closes its           *)
(* descriptor (network.c:74, main.c:17-45).                                *)
(***************************************************************************)
THEOREM EdgeCorrect == Spec => []NoLostEdge
<1>1. Init => NoLostEdge
  BY ConstantFacts DEF Init, NoLostEdge
<1> QED
  BY <1>1, EdgeStep, MapCorrect, PTL DEF Spec

------------------------------------------------------------------------------
(* The pairs.                                                              *)

LEMMA PartnerStep == MapInv /\ PartnerIsTalking /\ [Next]_vars => PartnerIsTalking'
<1> SUFFICES ASSUME MapInv, PartnerIsTalking, [Next]_vars, ready_fd_map'[0] = 0
             PROVE  \A f \in Fd : fd_map'[f] # 0 => fd_map'[fd_map'[f]] # 0
  BY DEF PartnerIsTalking
<1> USE ConstantFacts
<1>t. TypeOK /\ EventsNameClients
  BY DEF MapInv
<1>1. CASE fd_map' = fd_map
  <2>1. ready_fd_map[0] = 0
    <3>1. ready_fd_map' = ready_fd_map \/ \E e \in events : Accept(e)
      BY DEF Next, Environment, IoLoop, HandleEvent, Connect, TypeLine, HangUp,
             Reset, OtherWorkerAccepts, EpollWait, AcceptFails, HandleError,
             HandleWritable, Register, Refuse, ForwardNothing, Forward,
             workerVars, vars
    <3> QED
      BY <1>t, <3>1 DEF Accept, TypeOK
  <2> QED
    BY <1>1, <2>1 DEF PartnerIsTalking
<1>2. ASSUME NEW e \in events, Register(e)
      PROVE  \A f \in Fd : fd_map'[f] # 0 => fd_map'[fd_map'[f]] # 0
  <2> DEFINE g == NamedFd(e.fd)
  <2>1. e.fd \in Fd /\ ready_fd_map[e.fd] = 1 /\ ready_fd_map[0] = 0
    BY <1>t, <1>2 DEF Register, IsRequest, TypeOK, Event, EventsNameClients
  <2>2. g \in Fd /\ g # 0
    BY <1>2, <2>1, NamedIsClient DEF Register
  <2>3. fd_map' = [fd_map EXCEPT ![e.fd] = g, ![g] = e.fd]
    BY <1>2 DEF Register, Paired
  <2>4. e.fd # 0
    BY <2>1
  <2> HIDE DEF g
  <2> QED
    BY <1>t, <2>1, <2>2, <2>3, <2>4 DEF PartnerIsTalking, TypeOK
<1> QED
  BY <1>1, <1>2
  DEF Next, Environment, IoLoop, HandleEvent, Connect, TypeLine, HangUp, Reset,
      OtherWorkerAccepts, EpollWait, Accept, AcceptFails, HandleError,
      HandleWritable, Refuse, ForwardNothing, Forward, workerVars, vars

(***************************************************************************)
(* A descriptor someone talks to is in a conversation itself, so that its  *)
(* lines are forwarded and not read as numbers, unless descriptor 0 was    *)
(* handed out (main.c:54, 76-77).                                          *)
(***************************************************************************)
THEOREM PartnerCorrect == Spec => []PartnerIsTalking
<1>1. Init => PartnerIsTalking
  BY ConstantFacts DEF Init, PartnerIsTalking
<1> QED
  BY <1>1, PartnerStep, MapCorrect, PTL DEF Spec

------------------------------------------------------------------------------
(* The worker implements LineRelay.                                        *)

\* read_all without a send passes nothing on.
LEMMA ReadingPasses ==
  ASSUME TypeOK, NEW f \in Fd, inq' = InqAfterRead(f), UNCHANGED <<sent, recvd>>
  PROVE  [Relay!Next]_(Relay!vars)
<1>1. CASE owner[f] \in Conn
  <2> DEFINE c == owner[f]
  <2>1. inq' = [inq EXCEPT ![c] = << >>]
    BY <1>1 DEF InqAfterRead, TypeOK
  <2> DEFINE s == SubSeq(inq[c], 1, 0)
  <2>2. recvd[c] \in Seq(Piece) /\ inq[c] \in Seq(Line)
    BY <1>1 DEF TypeOK
  <2>b. 0 \in 0 .. Len(inq[c]) /\ recvd[c] \o s = recvd[c]
    BY <2>2
  <2>3. recvd[c] \o s = recvd[c] /\ s \in Relay!Beginnings(inq[c])
    BY <2>b DEF Relay!Beginnings
  <2>4. recvd' = [recvd EXCEPT ![c] = recvd[c] \o s]
    BY <1>1, <2>3 DEF TypeOK
  <2>5. Relay!Pass(c, c, s)
    BY <2>1, <2>4 DEF Relay!Pass
  <2> QED
    BY <1>1, <2>3, <2>5 DEF Relay!Next
<1>2. CASE owner[f] \notin Conn
  BY <1>2 DEF InqAfterRead, TypeOK, Relay!vars
<1> QED
  BY <1>1, <1>2

LEMMA ForwardPasses ==
  ASSUME TypeOK, NEW e \in events, Forward(e)
  PROVE  [Relay!Next]_(Relay!vars)
<1>1. e.fd \in Fd /\ owner[e.fd] \in Conn
  BY DEF TypeOK, Event, Forward, IsRequest, LinesAt
<1>2. inq' = InqAfterRead(e.fd) /\ sent' = sent
  BY DEF Forward
<1>3. CASE recvd' = recvd
  BY <1>1, <1>2, <1>3, ReadingPasses
<1>4. CASE recvd' # recvd
  <2> DEFINE d == owner[fd_map[e.fd]]
             c == owner[e.fd]
  <2>1. LinesAt(e.fd) = inq[c]
    BY <1>1 DEF LinesAt
  <2>2. PICK s \in Relay!Beginnings(inq[c]) :
          d \in Conn /\ recvd' = [recvd EXCEPT ![d] = @ \o s]
    BY <1>4, <2>1 DEF Forward, Written, Relay!Beginnings
  <2>3. inq' = [inq EXCEPT ![c] = << >>]
    BY <1>1, <1>2 DEF InqAfterRead, TypeOK
  <2>4. Relay!Pass(c, d, s)
    BY <1>2, <2>2, <2>3 DEF Relay!Pass
  <2> QED
    BY <1>1, <2>2, <2>4 DEF Relay!Next
<1> QED
  BY <1>3, <1>4

LEMMA RelayInit == Init => Relay!Init
BY DEF Init, Relay!Init

LEMMA RelayStep == TypeOK /\ [Next]_vars => [Relay!Next]_(Relay!vars)
<1> SUFFICES ASSUME TypeOK, [Next]_vars PROVE [Relay!Next]_(Relay!vars)
  OBVIOUS
<1>1. ASSUME NEW c \in Conn, NEW n \in Number, TypeLine(c, n)
      PROVE  [Relay!Next]_(Relay!vars)
  <2>1. Relay!Type(c, n)
    BY <1>1 DEF TypeLine, Relay!Type, Relay!LineOf
  <2> QED
    BY <2>1 DEF Relay!Next
<1>2. ASSUME NEW c \in Conn,
             Connect(c) \/ HangUp(c) \/ Reset(c) \/ OtherWorkerAccepts(c)
      PROVE  [Relay!Next]_(Relay!vars)
  BY <1>2 DEF Connect, HangUp, Reset, OtherWorkerAccepts, Relay!vars
<1>3. ASSUME NEW e \in events,
             Register(e) \/ Refuse(e) \/ ForwardNothing(e)
      PROVE  [Relay!Next]_(Relay!vars)
  <2>1. e.fd \in Fd
    BY <1>3 DEF TypeOK, Event, Register, Refuse, ForwardNothing, IsRequest
  <2>2. inq' = InqAfterRead(e.fd) /\ UNCHANGED <<sent, recvd>>
    BY <1>3 DEF Register, Refuse, ForwardNothing, ReadAll
  <2> QED
    BY <2>1, <2>2, ReadingPasses
<1>4. ASSUME NEW e \in events, Forward(e)
      PROVE  [Relay!Next]_(Relay!vars)
  BY <1>4, ForwardPasses
<1>5. ASSUME NEW e \in events,
             Accept(e) \/ AcceptFails(e) \/ HandleError(e) \/ HandleWritable(e)
      PROVE  [Relay!Next]_(Relay!vars)
  BY <1>5 DEF Accept, AcceptFails, HandleError, HandleWritable, kernelVars, Relay!vars
<1>6. CASE EpollWait \/ UNCHANGED vars
  BY <1>6 DEF EpollWait, vars, kernelVars, Relay!vars
<1> QED
  BY <1>1, <1>2, <1>3, <1>4, <1>5, <1>6 DEF Next, Environment, IoLoop, HandleEvent

(***************************************************************************)
(* Whatever descriptors, maps and events go through, a step of the worker  *)
(* takes what a client typed and passes a prefix of it to one client, or   *)
(* changes nothing a client sees (main.c:48-103).                          *)
(***************************************************************************)
THEOREM RelayCorrect == Spec => RelaySpec
<1>1. Spec => Relay!Init /\ [][Relay!Next]_(Relay!vars)
  BY RelayInit, RelayStep, TypeCorrect, PTL DEF Spec
<1> QED
  BY <1>1 DEF RelaySpec, Relay!Spec

------------------------------------------------------------------------------
(* What every relay keeps, and so the worker.                              *)

\* A line and what reached a client of it.
SameLine(p, l) == p.from = l.from /\ p.seq = l.seq

LEMMA BeginningFacts ==
  ASSUME NEW s \in Seq(Relay!Line), NEW w \in Relay!Beginnings(s)
  PROVE  /\ w \in Seq(Relay!Piece) /\ Len(w) \in Nat /\ Len(w) <= Len(s)
         /\ \A i \in 1 .. Len(w) : SameLine(w[i], s[i])
<1>1. Relay!Line = Line /\ Relay!Piece = Piece /\ Relay!Beginnings(s) = Written(s)
  BY DEF Line, Piece, Written, Relay!Line, Relay!Piece, Relay!Beginnings
<1> QED
  BY <1>1, WrittenFacts DEF SameLine

\* What a receiver's lines are after it was handed w.
LEMMA HandedOn ==
  ASSUME NEW S, NEW r \in Seq(S), NEW w \in Seq(S), NEW t, t = r \o w
  PROVE  /\ t \in Seq(S)
         /\ Len(t) = Len(r) + Len(w)
         /\ \A i \in 1 .. Len(r) : t[i] = r[i]
         /\ \A i \in 1 .. Len(t) :
              i > Len(r) => i - Len(r) \in 1 .. Len(w) /\ t[i] = w[i - Len(r)]
OBVIOUS

------------------------------------------------------------------------------
(***************************************************************************)
(* Lines wait in the order they were typed, numbered up to sent; what was  *)
(* handed on is older than all that waits, and no line was handed on twice.*)
(***************************************************************************)
PendingInOrder ==
  \A c \in Conn : \A i \in 1 .. Len(inq[c]) :
    /\ inq[c][i].from = c
    /\ inq[c][i].seq <= sent[c]
    /\ \A j \in 1 .. Len(inq[c]) : i < j => inq[c][i].seq < inq[c][j].seq

OlderThanPending ==
  \A d \in Conn : \A i \in 1 .. Len(recvd[d]) :
    LET c == recvd[d][i].from
    IN /\ recvd[d][i].seq <= sent[c]
       /\ \A j \in 1 .. Len(inq[c]) : recvd[d][i].seq < inq[c][j].seq

RelayInv ==
  /\ Relay!TypeOK
  /\ PendingInOrder
  /\ OlderThanPending
  /\ Relay!DeliveredInOrder
  /\ Relay!OneRecipient

\* The types of the lines that wait and of those handed on.
LEMMA LineTypes ==
  ASSUME Relay!TypeOK, NEW c \in Conn
  PROVE  /\ inq[c] \in Seq(Relay!Line) /\ Len(inq[c]) \in Nat
         /\ recvd[c] \in Seq(Relay!Piece) /\ Len(recvd[c]) \in Nat
         /\ \A i \in 1 .. Len(inq[c]) :
              inq[c][i].from \in Conn /\ inq[c][i].seq \in Nat
         /\ \A i \in 1 .. Len(recvd[c]) :
              recvd[c][i].from \in Conn /\ recvd[c][i].seq \in Nat
<1>1. inq[c] \in Seq(Relay!Line) /\ recvd[c] \in Seq(Relay!Piece)
  BY DEF Relay!TypeOK
<1>2. ASSUME NEW i \in 1 .. Len(inq[c])
      PROVE  inq[c][i].from \in Conn /\ inq[c][i].seq \in Nat
  <2>1. inq[c][i] \in Relay!Line
    BY <1>1
  <2> QED
    BY <2>1 DEF Relay!Line
<1>3. ASSUME NEW i \in 1 .. Len(recvd[c])
      PROVE  recvd[c][i].from \in Conn /\ recvd[c][i].seq \in Nat
  <2>1. recvd[c][i] \in Relay!Piece
    BY <1>1
  <2> QED
    BY <2>1 DEF Relay!Piece
<1> QED
  BY <1>1, <1>2, <1>3

LEMMA RelayTypeStep ==
  ASSUME RelayInv, NEW c \in Conn, NEW n \in Number, Relay!Type(c, n)
  PROVE  RelayInv'
<1> DEFINE new == Relay!LineOf(c, sent[c] + 1, n)
<1>1. new \in Relay!Line /\ new.from = c /\ new.seq = sent[c] + 1
  BY DEF Relay!LineOf, Relay!Line, RelayInv, Relay!TypeOK
<1> HIDE DEF new
<1>2. /\ inq' = [inq EXCEPT ![c] = Append(inq[c], new)]
      /\ sent' = [sent EXCEPT ![c] = sent[c] + 1]
      /\ recvd' = recvd
  BY DEF Relay!Type, new
<1>3. inq[c] \in Seq(Relay!Line) /\ sent[c] \in Nat
  BY DEF RelayInv, Relay!TypeOK
<1>4. Relay!TypeOK'
  BY <1>1, <1>2, <1>3 DEF RelayInv, Relay!TypeOK
<1>5. /\ Len(inq'[c]) = Len(inq[c]) + 1
      /\ \A i \in 1 .. Len(inq[c]) : inq'[c][i] = inq[c][i]
      /\ inq'[c][Len(inq[c]) + 1] = new
      /\ \A x \in Conn : x # c => inq'[x] = inq[x] /\ sent'[x] = sent[x]
      /\ sent'[c] = sent[c] + 1
  BY <1>1, <1>2, <1>3 DEF RelayInv, Relay!TypeOK
\* A line that waits is an old one, or the new one at the end.
<1>6. \A x \in Conn : \A i \in 1 .. Len(inq'[x]) :
        \/ i \in 1 .. Len(inq[x]) /\ inq'[x][i] = inq[x][i]
        \/ x = c /\ i = Len(inq[c]) + 1 /\ inq'[x][i] = new
  <2> SUFFICES ASSUME NEW x \in Conn, NEW i \in 1 .. Len(inq'[x])
               PROVE  \/ i \in 1 .. Len(inq[x]) /\ inq'[x][i] = inq[x][i]
                      \/ x = c /\ i = Len(inq[c]) + 1 /\ inq'[x][i] = new
    OBVIOUS
  <2>1. CASE x # c
    BY <2>1, <1>5
  <2>2. CASE x = c
    BY <2>2, <1>3, <1>5
  <2> QED
    BY <2>1, <2>2
<1>7. \A x \in Conn : \A i \in 1 .. Len(inq[x]) :
        /\ inq[x][i].from = x /\ inq[x][i].seq \in Nat
        /\ sent[x] \in Nat /\ sent'[x] \in Nat
        /\ inq[x][i].seq <= sent[x] /\ sent[x] <= sent'[x]
  BY <1>1, <1>3, <1>5, LineTypes DEF RelayInv, PendingInOrder, Relay!TypeOK
<1>8. PendingInOrder'
  <2> SUFFICES ASSUME NEW x \in Conn, NEW i \in 1 .. Len(inq'[x])
               PROVE  /\ inq'[x][i].from = x
                      /\ inq'[x][i].seq <= sent'[x]
                      /\ \A j \in 1 .. Len(inq'[x]) :
                           i < j => inq'[x][i].seq < inq'[x][j].seq
    BY DEF PendingInOrder
  <2>1. CASE i \in 1 .. Len(inq[x]) /\ inq'[x][i] = inq[x][i]
    <3>1. inq'[x][i].from = x /\ inq'[x][i].seq <= sent'[x]
      BY <2>1, <1>7
    <3>2. ASSUME NEW j \in 1 .. Len(inq'[x]), i < j
          PROVE  inq'[x][i].seq < inq'[x][j].seq
      <4>1. CASE j \in 1 .. Len(inq[x]) /\ inq'[x][j] = inq[x][j]
        BY <2>1, <3>2, <4>1 DEF RelayInv, PendingInOrder
      <4>2. CASE x = c /\ inq'[x][j] = new
        BY <2>1, <4>2, <1>1, <1>3, <1>7
      <4> QED
        BY <4>1, <4>2, <1>6
    <3> QED
      BY <3>1, <3>2
  <2>2. CASE x = c /\ i = Len(inq[c]) + 1 /\ inq'[x][i] = new
    <3>1. Len(inq'[x]) = i /\ i \in Nat
      BY <2>2, <1>3, <1>5
    <3> QED
      BY <2>2, <3>1, <1>1, <1>3, <1>5
  <2> QED
    BY <2>1, <2>2, <1>6
<1>9. OlderThanPending'
  <2> SUFFICES ASSUME NEW x \in Conn, NEW i \in 1 .. Len(recvd[x]),
                      NEW f, f = recvd[x][i].from
               PROVE  /\ recvd[x][i].seq <= sent'[f]
                      /\ \A j \in 1 .. Len(inq'[f]) :
                           recvd[x][i].seq < inq'[f][j].seq
    BY <1>2 DEF OlderThanPending
  <2>1. /\ f \in Conn /\ recvd[x][i].seq \in Nat
        /\ recvd[x][i].seq <= sent[f]
        /\ \A j \in 1 .. Len(inq[f]) : recvd[x][i].seq < inq[f][j].seq
    BY LineTypes DEF RelayInv, OlderThanPending
  <2>2. sent[f] \in Nat /\ sent'[f] \in Nat /\ sent[f] <= sent'[f]
    <3>1. sent[f] \in Nat
      BY <2>1 DEF RelayInv, Relay!TypeOK
    <3>2. sent'[f] = sent[f] \/ sent'[f] = sent[f] + 1
      BY <2>1, <1>5
    <3> QED
      BY <3>1, <3>2
  <2>3. recvd[x][i].seq <= sent'[f]
    BY <2>1, <2>2
  <2>4. ASSUME NEW j \in 1 .. Len(inq'[f])
        PROVE  recvd[x][i].seq < inq'[f][j].seq
    <3>1. CASE j \in 1 .. Len(inq[f]) /\ inq'[f][j] = inq[f][j]
      BY <3>1, <2>1
    <3>2. CASE f = c /\ inq'[f][j] = new
      BY <3>2, <2>1, <1>1, <1>3
    <3> QED
      BY <3>1, <3>2, <1>6, <2>1
  <2> QED
    BY <2>3, <2>4
<1> QED
  BY <1>2, <1>4, <1>8, <1>9 DEF RelayInv, Relay!DeliveredInOrder, Relay!OneRecipient

LEMMA RelayPassStep ==
  ASSUME RelayInv, NEW c \in Conn, NEW d \in Conn,
         NEW w \in Relay!Beginnings(inq[c]), Relay!Pass(c, d, w)
  PROVE  RelayInv'
<1> DEFINE old == Len(recvd[d])
<1>1. /\ inq[c] \in Seq(Relay!Line) /\ recvd[d] \in Seq(Relay!Piece)
      /\ inq' = [inq EXCEPT ![c] = << >>]
      /\ recvd' = [recvd EXCEPT ![d] = recvd[d] \o w]
      /\ sent' = sent
  BY DEF Relay!Pass, RelayInv, Relay!TypeOK
<1>2. /\ recvd'[d] \in Seq(Relay!Piece)
      /\ \A i \in 1 .. old : recvd'[d][i] = recvd[d][i]
      /\ \A i \in 1 .. Len(recvd'[d]) : i > old =>
           /\ i - old \in 1 .. Len(inq[c])
           /\ SameLine(recvd'[d][i], inq[c][i - old])
      /\ \A x \in Conn : x # d => recvd'[x] = recvd[x]
  <2> DEFINE s == inq[c]
             r == recvd[d]
             t == recvd'[d]
  <2>1. t = r \o w /\ \A x \in Conn : x # d => recvd'[x] = recvd[x]
    BY <1>1 DEF RelayInv, Relay!TypeOK
  <2>2. s \in Seq(Relay!Line) /\ r \in Seq(Relay!Piece)
    BY <1>1
  <2> HIDE DEF s, r, t
  <2>3. /\ w \in Seq(Relay!Piece) /\ Len(w) \in Nat /\ Len(w) <= Len(s)
        /\ \A i \in 1 .. Len(w) : SameLine(w[i], s[i])
    BY <2>2, BeginningFacts DEF s
  <2>4. /\ t \in Seq(Relay!Piece)
        /\ \A i \in 1 .. Len(r) : t[i] = r[i]
        /\ \A i \in 1 .. Len(t) :
             i > Len(r) => i - Len(r) \in 1 .. Len(w) /\ t[i] = w[i - Len(r)]
    BY <2>1, <2>2, <2>3, HandedOn
  <2>5. \A i \in 1 .. Len(t) : i > Len(r) =>
          i - Len(r) \in 1 .. Len(s) /\ SameLine(t[i], s[i - Len(r)])
    <3>1. Len(s) \in Nat /\ \A i \in 1 .. Len(w) : i \in 1 .. Len(s)
      BY <2>2, <2>3
    <3> QED
      BY <2>3, <2>4, <3>1
  <2> QED
    BY <2>1, <2>4, <2>5 DEF s, r, t
<1>3. old \in Nat /\ Len(inq[c]) \in Nat
  BY <1>1
<1>4. Relay!TypeOK'
  BY <1>1, <1>2 DEF RelayInv, Relay!TypeOK
<1>5. /\ \A x \in Conn : x # c => inq'[x] = inq[x]
      /\ inq'[c] = << >> /\ Len(inq'[c]) = 0
  BY <1>1 DEF RelayInv, Relay!TypeOK
<1>6. PendingInOrder'
  BY <1>1, <1>5 DEF RelayInv, PendingInOrder
<1>7. \A x \in Conn : \A i \in 1 .. Len(recvd[x]) :
        recvd[x][i].from \in Conn /\ recvd[x][i].seq \in Nat
  BY LineTypes DEF RelayInv
<1>8. \A i \in 1 .. Len(inq[c]) :
        /\ inq[c][i].from = c /\ inq[c][i].seq \in Nat
        /\ inq[c][i].seq <= sent[c]
  BY LineTypes DEF RelayInv, PendingInOrder
\* A line of a receiver is an old one, or one of those just handed on.
<1>9. \A x \in Conn : \A i \in 1 .. Len(recvd'[x]) :
        IF i \in 1 .. Len(recvd[x])
        THEN recvd'[x][i] = recvd[x][i]
        ELSE /\ x = d /\ i - old \in 1 .. Len(inq[c])
             /\ SameLine(recvd'[x][i], inq[c][i - old])
  <2> SUFFICES ASSUME NEW x \in Conn, NEW i \in 1 .. Len(recvd'[x])
               PROVE  IF i \in 1 .. Len(recvd[x])
                      THEN recvd'[x][i] = recvd[x][i]
                      ELSE /\ x = d /\ i - old \in 1 .. Len(inq[c])
                           /\ SameLine(recvd'[x][i], inq[c][i - old])
    OBVIOUS
  <2>1. CASE x # d
    BY <2>1, <1>2
  <2>2. CASE x = d /\ i \in 1 .. old
    BY <2>2, <1>2
  <2>3. CASE x = d /\ i \notin 1 .. old
    <3>1. i > old
      BY <2>3, <1>2, <1>3
    <3> QED
      BY <2>3, <3>1, <1>2
  <2> QED
    BY <2>1, <2>2, <2>3
<1> HIDE DEF old
<1>10. OlderThanPending'
  <2> SUFFICES ASSUME NEW x \in Conn, NEW i \in 1 .. Len(recvd'[x]),
                      NEW f, f = recvd'[x][i].from
               PROVE  /\ recvd'[x][i].seq <= sent'[f]
                      /\ \A j \in 1 .. Len(inq'[f]) :
                           recvd'[x][i].seq < inq'[f][j].seq
    BY DEF OlderThanPending
  <2>1. CASE i \in 1 .. Len(recvd[x])
    <3>1. recvd'[x][i] = recvd[x][i]
      BY <2>1, <1>9
    <3>2. f \in Conn /\ f = recvd[x][i].from
      BY <2>1, <3>1, <1>7
    <3>3. /\ recvd[x][i].seq <= sent[f]
          /\ \A j \in 1 .. Len(inq[f]) : recvd[x][i].seq < inq[f][j].seq
      BY <2>1, <3>2 DEF RelayInv, OlderThanPending
    <3> QED
      BY <3>1, <3>2, <3>3, <1>1, <1>5
  <2>2. CASE i \notin 1 .. Len(recvd[x])
    <3>1. i - old \in 1 .. Len(inq[c]) /\ SameLine(recvd'[x][i], inq[c][i - old])
      BY <2>2, <1>9
    <3> QED
      BY <3>1, <1>1, <1>5, <1>8 DEF SameLine
  <2> QED
    BY <2>1, <2>2
\* An old line of c is older than those just handed on.
<1>11. \A x \in Conn : \A i \in 1 .. Len(recvd[x]) : \A j \in 1 .. Len(inq[c]) :
         recvd[x][i].from = c => recvd[x][i].seq < inq[c][j].seq
  BY DEF RelayInv, OlderThanPending
<1>12. Relay!DeliveredInOrder'
  <2> SUFFICES ASSUME NEW x \in Conn, NEW i \in 1 .. Len(recvd'[x]),
                      NEW j \in 1 .. Len(recvd'[x]), i < j,
                      recvd'[x][i].from = recvd'[x][j].from
               PROVE  recvd'[x][i].seq < recvd'[x][j].seq
    BY DEF Relay!DeliveredInOrder
  <2>1. CASE i \in 1 .. Len(recvd[x]) /\ j \in 1 .. Len(recvd[x])
    <3>1. recvd'[x][i] = recvd[x][i] /\ recvd'[x][j] = recvd[x][j]
      BY <2>1, <1>9
    <3> QED
      BY <2>1, <3>1 DEF RelayInv, Relay!DeliveredInOrder
  <2>2. CASE i \in 1 .. Len(recvd[x]) /\ j \notin 1 .. Len(recvd[x])
    <3>1. /\ recvd'[x][i] = recvd[x][i]
          /\ j - old \in 1 .. Len(inq[c])
          /\ SameLine(recvd'[x][j], inq[c][j - old])
      BY <2>2, <1>9
    <3> QED
      BY <2>2, <3>1, <1>8, <1>11 DEF SameLine
  <2>3. CASE i \notin 1 .. Len(recvd[x])
    <3>1. x = d /\ j \notin 1 .. Len(recvd[x])
      BY <2>3, <1>3, <1>9 DEF old
    <3>2. /\ SameLine(recvd'[x][i], inq[c][i - old]) /\ i - old \in 1 .. Len(inq[c])
          /\ SameLine(recvd'[x][j], inq[c][j - old]) /\ j - old \in 1 .. Len(inq[c])
      BY <2>3, <3>1, <1>9
    <3>3. i - old < j - old
      BY <1>2, <1>3
    <3> QED
      BY <3>2, <3>3 DEF RelayInv, PendingInOrder, SameLine
  <2> QED
    BY <2>1, <2>2, <2>3
<1>13. Relay!OneRecipient'
  <2> SUFFICES ASSUME NEW x \in Conn, NEW y \in Conn,
                      NEW i \in 1 .. Len(recvd'[x]),
                      NEW j \in 1 .. Len(recvd'[y]), x # y,
                      recvd'[x][i].from = recvd'[y][j].from,
                      recvd'[x][i].seq = recvd'[y][j].seq
               PROVE  FALSE
    BY DEF Relay!OneRecipient
  <2>1. CASE i \in 1 .. Len(recvd[x]) /\ j \in 1 .. Len(recvd[y])
    <3>1. recvd'[x][i] = recvd[x][i] /\ recvd'[y][j] = recvd[y][j]
      BY <2>1, <1>9
    <3> QED
      BY <2>1, <3>1 DEF RelayInv, Relay!OneRecipient
  <2>2. CASE i \notin 1 .. Len(recvd[x])
    <3>1. /\ x = d /\ i - old \in 1 .. Len(inq[c])
          /\ SameLine(recvd'[x][i], inq[c][i - old])
      BY <2>2, <1>9
    <3>2. j \in 1 .. Len(recvd[y]) /\ recvd'[y][j] = recvd[y][j]
      BY <3>1, <1>9
    <3> QED
      BY <3>1, <3>2, <1>7, <1>8, <1>11 DEF SameLine
  <2>3. CASE j \notin 1 .. Len(recvd[y])
    <3>1. /\ y = d /\ j - old \in 1 .. Len(inq[c])
          /\ SameLine(recvd'[y][j], inq[c][j - old])
      BY <2>3, <1>9
    <3>2. i \in 1 .. Len(recvd[x]) /\ recvd'[x][i] = recvd[x][i]
      BY <3>1, <1>9
    <3> QED
      BY <3>1, <3>2, <1>7, <1>8, <1>11 DEF SameLine
  <2> QED
    BY <2>1, <2>2, <2>3
<1> QED
  BY <1>4, <1>6, <1>10, <1>12, <1>13 DEF RelayInv

LEMMA RelayStutter ==
  ASSUME RelayInv, UNCHANGED (Relay!vars)
  PROVE  RelayInv'
<1>1. inq' = inq /\ sent' = sent /\ recvd' = recvd
  BY DEF Relay!vars
<1>2. Relay!TypeOK'
  BY <1>1 DEF RelayInv, Relay!TypeOK
<1>3. PendingInOrder' /\ OlderThanPending'
  BY <1>1 DEF RelayInv, PendingInOrder, OlderThanPending
<1>4. Relay!DeliveredInOrder' /\ Relay!OneRecipient'
  BY <1>1 DEF RelayInv, Relay!DeliveredInOrder, Relay!OneRecipient
<1> QED
  BY <1>2, <1>3, <1>4 DEF RelayInv

(***************************************************************************)
(* A relay keeps the order of the lines and hands none on twice.           *)
(***************************************************************************)
THEOREM RelayInvCorrect == Relay!Spec => []RelayInv
<1>1. Relay!Init => RelayInv
  BY DEF Relay!Init, RelayInv, Relay!TypeOK, PendingInOrder, OlderThanPending,
         Relay!DeliveredInOrder, Relay!OneRecipient
<1>2. RelayInv /\ [Relay!Next]_(Relay!vars) => RelayInv'
  BY RelayTypeStep, RelayPassStep, RelayStutter DEF Relay!Next
<1> QED
  BY <1>1, <1>2, PTL DEF Relay!Spec

(***************************************************************************)
(* Any relay: the lines of one sender reach a receiver in order.           *)
(***************************************************************************)
THEOREM RelayOrderCorrect == Relay!Spec => []Relay!DeliveredInOrder
BY RelayInvCorrect, PTL DEF RelayInv

(***************************************************************************)
(* Any relay: no line reaches two receivers.                               *)
(***************************************************************************)
THEOREM RelayRecipientCorrect == Relay!Spec => []Relay!OneRecipient
BY RelayInvCorrect, PTL DEF RelayInv

(***************************************************************************)
(* Lines of one sender reach a receiver in the order they were typed,      *)
(* none of them twice (main.c:88-96).                                      *)
(***************************************************************************)
THEOREM OrderCorrect == Spec => []LinesInOrder
BY RelayCorrect, RelayOrderCorrect, PTL DEF RelaySpec, LinesInOrder

(***************************************************************************)
(* No line is forwarded to two clients, whoever re-registers with whom     *)
(* (main.c:76-77, 95).                                                     *)
(***************************************************************************)
THEOREM RecipientCorrect == Spec => []SentToOne
BY RelayCorrect, RelayRecipientCorrect, PTL DEF RelaySpec, SentToOne

==============================================================================
