------------------------------- MODULE Prefork -------------------------------
(***************************************************************************)
(* The processes of epoll_simple_chat_server: fork_process(number) of      *)
(* process.c, and the accept() race of the workers it makes.               *)
(*                                                                         *)
(* main() opens the listening socket before it forks, so every worker      *)
(* registers the same socket in its own epoll set and is woken for every   *)
(* connection.  A worker that finds nothing left to accept passes -1 to    *)
(* make_socket_non_blocking, which ends the process (network.c:67-72).     *)
(* Children go to the event loop at once; the parent waits for one child   *)
(* to end and then becomes a worker itself.                                *)
(*                                                                         *)
(* What a worker does with the clients it accepted is ChatRelay.tla's      *)
(* business: here they only occupy its descriptors.                        *)
(***************************************************************************)
EXTENDS Naturals, FiniteSets

CONSTANTS
  number,     \* the argument of fork_process
  Conn,       \* client connections
  MaxOpen,    \* clients a worker can hold before accept() says EMFILE
  MaxKilled   \* bound of the model: workers killed by SIGPIPE

ASSUME PreforkAssumption ==
  /\ number \in Nat
  /\ IsFiniteSet(Conn)
  /\ MaxOpen \in Nat
  /\ MaxKilled \in Nat

Child == 1 .. number
Process == {0} \cup Child    \* 0 is the parent

VARIABLES
  phase,    \* phase[p]: where process p is
  next,     \* the i of fork_process's loop in the parent
  woken,    \* workers with the listening socket in their batch of events
  killed,   \* workers killed by SIGPIPE
  backlog,  \* connections waiting in accept()
  open,     \* open[p]: the clients p has accepted and not closed
  arrived   \* connections ever made

vars == <<phase, next, woken, killed, backlog, open, arrived>>

Phase == {"none", "forking", "waiting", "serving", "exited"}

Init ==
  /\ phase = [p \in Process |-> IF p = 0 THEN "forking" ELSE "none"]
  /\ next = 1
  /\ woken = {}
  /\ killed = {}
  /\ backlog = {}
  /\ open = [p \in Process |-> {}]
  /\ arrived = {}

Ended == {p \in Process : phase[p] = "exited"}
Serving == {p \in Process : phase[p] = "serving"}

Connect(c) ==
  /\ c \notin arrived
  /\ arrived' = arrived \cup {c}
  /\ backlog' = backlog \cup {c}
  /\ UNCHANGED <<phase, next, woken, killed, open>>

------------------------------------------------------------------------------
(* fork_process.                                                           *)

MoreToFork == next <= number

\* The child returns from fork_process with its i, the parent goes on.
Fork ==
  /\ phase[0] = "forking" /\ MoreToFork
  /\ phase' = [phase EXCEPT ![next] = "serving"]
  /\ next' = next + 1
  /\ UNCHANGED <<woken, killed, backlog, open, arrived>>

\* "fork err": the parent goes on as if it had a child.
ForkFails ==
  /\ phase[0] = "forking" /\ MoreToFork
  /\ next' = next + 1
  /\ UNCHANGED <<phase, woken, killed, backlog, open, arrived>>

ParentWaits ==
  /\ phase[0] = "forking" /\ ~MoreToFork
  /\ phase' = [phase EXCEPT ![0] = "waiting"]
  /\ UNCHANGED <<next, woken, killed, backlog, open, arrived>>

\* Mutants of WaitReturns: wait() as with WNOHANG, and without ECHILD.
WaitNoHang == TRUE
WaitForAChild == Ended # {}

\* wait(): a child has ended, or there is none (ECHILD).
WaitReturns == Ended # {} \/ \A i \in Child : phase[i] = "none"

\* fork_process returns in the parent, which goes on to epoll_start.
ParentServes ==
  /\ phase[0] = "waiting" /\ WaitReturns
  /\ phase' = [phase EXCEPT ![0] = "serving"]
  /\ UNCHANGED <<next, woken, killed, backlog, open, arrived>>

Start == Fork \/ ForkFails \/ ParentWaits \/ ParentServes

------------------------------------------------------------------------------
(* The event loop, as far as the listening socket goes.                    *)

\* Mutant of ListenerReady: the listening socket registered with EPOLLOUT too,
\* say, so that epoll_wait returns it at any time.
ListenerAlways == TRUE

\* The listening socket is level triggered: it is reported while a connection
\* waits, to every worker.
ListenerReady == backlog # {}

Wake(p) ==
  /\ p \in Serving \ woken
  /\ ListenerReady
  /\ woken' = woken \cup {p}
  /\ UNCHANGED <<phase, next, killed, backlog, open, arrived>>

Full(p) == Cardinality(open[p]) >= MaxOpen

\* accept() takes a connection.
AcceptIncoming(p) ==
  /\ p \in woken /\ ~Full(p)
  /\ \E c \in backlog :
       /\ backlog' = backlog \ {c}
       /\ open' = [open EXCEPT ![p] = @ \cup {c}]
  /\ woken' = woken \ {p}
  /\ UNCHANGED <<phase, next, killed, arrived>>

\* The end of a process closes the clients it holds.
Exit(p) ==
  /\ phase' = [phase EXCEPT ![p] = "exited"]
  /\ woken' = woken \ {p}
  /\ open' = [open EXCEPT ![p] = {}]

\* accept() returns -1: another worker was faster, or no descriptor is left.
AcceptFails(p) ==
  /\ p \in woken
  /\ backlog = {} \/ Full(p)
  /\ Exit(p)
  /\ UNCHANGED <<next, killed, backlog, arrived>>

\* close(): the worker refuses the client or sees an error on its socket.
CloseClient(p) ==
  /\ p \in Serving
  /\ \E c \in open[p] : open' = [open EXCEPT ![p] = @ \ {c}]
  /\ UNCHANGED <<phase, next, woken, killed, backlog, arrived>>

\* send_all writes to a client that is gone: SIGPIPE (see ChatRelay.tla).
KilledBySigpipe(p) ==
  /\ p \in Serving /\ open[p] # {}
  /\ Cardinality(killed) < MaxKilled
  /\ killed' = killed \cup {p}
  /\ Exit(p)
  /\ UNCHANGED <<next, backlog, arrived>>

IncomingEvent(p) == Wake(p) \/ AcceptIncoming(p) \/ AcceptFails(p)

Next ==
  \/ \E c \in Conn : Connect(c)
  \/ Start
  \/ \E p \in Process : IncomingEvent(p) \/ CloseClient(p) \/ KilledBySigpipe(p)

Spec == Init /\ [][Next]_vars

\* The kernel schedules every process; clients owe nothing, and nothing is owed
\* about errors on their sockets.
FairSpec ==
  /\ Spec
  /\ WF_vars(Start)
  /\ \A p \in Process : WF_vars(IncomingEvent(p))

------------------------------------------------------------------------------
TypeOK ==
  /\ phase \in [Process -> Phase]
  /\ next \in 1 .. number + 1
  /\ woken \in SUBSET Serving
  /\ killed \in SUBSET Process
  /\ backlog \in SUBSET Conn
  /\ open \in [Process -> SUBSET Conn]
  /\ arrived \in SUBSET Conn

\* The processes that serve, or will once wait() returns.
Alive == {p \in Process : phase[p] \in {"forking", "waiting", "serving"}}

(***************************************************************************)
(* The accept race kills workers but never the last process: as long as no *)
(* worker was killed by SIGPIPE, one that leaves nobody behind had no      *)
(* descriptor left (network.c:67-72, process.c:38).                        *)
(***************************************************************************)
RaceSparesTheLast ==
  [][\A p \in Process :
       killed' = {} /\ Alive' = {} /\ p \in Alive => Full(p)]_vars

(***************************************************************************)
(* Why: when all processes that are left have been woken for the listening *)
(* socket, there is still a connection for one of them.                    *)
(***************************************************************************)
WokenHaveWork ==
  killed = {} /\ Alive # {} /\ Alive \subseteq woken => backlog # {}

(***************************************************************************)
(* Who serves in the end, whatever forks fail and whoever dies when: the   *)
(* workers that were forked, and the parent for good only once one of them *)
(* has died or if there is none.  The death of the first worker is made up *)
(* for once, also when it comes before the parent waits or before the      *)
(* others are forked; no later death is (process.c:10, 38).                *)
(***************************************************************************)
Forked == {i \in Child : phase[i] # "none"}

ReserveReplacesOne ==
  <>[](IF Ended = {} /\ Forked # {}
         THEN Serving = Forked
         ELSE Serving = ({0} \cup Forked) \ Ended)

(***************************************************************************)
(* A waiting connection is accepted, as long as a process is left.         *)
(***************************************************************************)
EveryoneAccepted ==
  \A c \in Conn : c \in backlog ~> c \notin backlog \/ Alive = {}

==============================================================================
