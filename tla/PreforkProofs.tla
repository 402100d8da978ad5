---------------------------- MODULE PreforkProofs ----------------------------
(***************************************************************************)
(* For any number of children, connections and descriptors: the types of   *)
(* Prefork, and that the accept race leaves a process alive.               *)
(***************************************************************************)
EXTENDS Prefork, TLAPS

\* All the proofs need to know of the constants.
LEMMA ChildFacts ==
  /\ number \in Nat
  /\ Child \subseteq Process
  /\ 0 \in Process
  /\ 0 \notin Child
BY PreforkAssumption DEF Child, Process

------------------------------------------------------------------------------
(***************************************************************************)
(* The parent goes through the forks with next in range, and the children  *)
(* it has not come to yet do not exist (process.c:28-33).                  *)
(***************************************************************************)
ForkInv ==
  /\ TypeOK
  /\ phase[0] # "none"
  /\ \A i \in Child : phase[i] \in {"none", "serving", "exited"}
  /\ \A i \in Child : i >= next => phase[i] = "none"
  /\ phase[0] \in {"waiting", "serving", "exited"} => next = number + 1

LEMMA ForkInit == Init => ForkInv
BY ChildFacts DEF Init, ForkInv, TypeOK, Serving, Child, Process, Phase

LEMMA ForkStep == ForkInv /\ [Next]_vars => ForkInv'
<1> SUFFICES ASSUME ForkInv, [Next]_vars PROVE ForkInv'
  OBVIOUS
<1> USE ChildFacts DEF ForkInv, TypeOK, Serving, Phase
<1>1. ASSUME NEW c \in Conn, Connect(c) PROVE ForkInv'
  BY <1>1 DEF Connect
<1>2. CASE Fork
  BY <1>2 DEF Fork, MoreToFork, Child, Process
<1>3. CASE ForkFails
  BY <1>3 DEF ForkFails, MoreToFork, Child, Process
<1>4. CASE ParentWaits
  BY <1>4 DEF ParentWaits, MoreToFork, Child, Process
<1>5. CASE ParentServes
  BY <1>5 DEF ParentServes, Child, Process
<1>6. ASSUME NEW p \in Process, Wake(p) PROVE ForkInv'
  BY <1>6 DEF Wake
<1>7. ASSUME NEW p \in Process, AcceptIncoming(p) PROVE ForkInv'
  BY <1>7 DEF AcceptIncoming
<1>8. ASSUME NEW p \in Process, AcceptFails(p) PROVE ForkInv'
  BY <1>8 DEF AcceptFails, Exit, Child, Process
<1>9. ASSUME NEW p \in Process, CloseClient(p) PROVE ForkInv'
  BY <1>9 DEF CloseClient
<1>10. ASSUME NEW p \in Process, KilledBySigpipe(p) PROVE ForkInv'
  BY <1>10 DEF KilledBySigpipe, Exit, Child, Process
<1>11. CASE UNCHANGED vars
  BY <1>11 DEF vars
<1> QED
  BY <1>1, <1>2, <1>3, <1>4, <1>5, <1>6, <1>7, <1>8, <1>9, <1>10, <1>11
  DEF Next, Start, IncomingEvent

(***************************************************************************)
(* The types of Prefork (its next, phase and woken in particular) hold in  *)
(* every state.                                                            *)
(***************************************************************************)
THEOREM ForkTypes == Spec => []ForkInv
BY ForkInit, ForkStep, PTL DEF Spec

THEOREM TypeCorrect == Spec => []TypeOK
BY ForkTypes, PTL DEF ForkInv

------------------------------------------------------------------------------
(***************************************************************************)
(* A worker that has just accepted is not woken any more, and one that is  *)
(* woken while a connection waits finds it: so when everybody who is alive *)
(* is woken, there is a connection (network.c:67-72).                      *)
(***************************************************************************)
LEMMA WorkStep ==
  ForkInv /\ WokenHaveWork /\ [Next]_vars => WokenHaveWork'
<1> SUFFICES ASSUME ForkInv, WokenHaveWork, [Next]_vars,
                    killed' = {}, Alive' # {}, Alive' \subseteq woken'
             PROVE  backlog' # {}
  BY DEF WokenHaveWork
<1> USE ChildFacts DEF WokenHaveWork, Alive, ForkInv, TypeOK, Serving, Phase
<1>1. ASSUME NEW c \in Conn, Connect(c) PROVE backlog' # {}
  BY <1>1 DEF Connect
<1>2. CASE Fork
  <2>1. next \in Child /\ next # 0
    BY <1>2 DEF Fork, MoreToFork, Child
  <2>2. next \in Alive' /\ next \notin woken'
    BY <1>2, <2>1 DEF Fork
  <2> QED
    BY <2>2
<1>3. CASE ForkFails \/ ParentWaits \/ ParentServes
  <2>1. Alive' = Alive
    BY <1>3 DEF ForkFails, ParentWaits, ParentServes
  <2> QED
    BY <1>3, <2>1 DEF ForkFails, ParentWaits, ParentServes
<1>4. ASSUME NEW p \in Process, Wake(p) PROVE backlog' # {}
  BY <1>4 DEF Wake, ListenerReady
<1>5. ASSUME NEW p \in Process, AcceptIncoming(p) PROVE backlog' # {}
  BY <1>5 DEF AcceptIncoming
<1>6. ASSUME NEW p \in Process, AcceptFails(p) PROVE backlog' # {}
  <2>1. p \in woken /\ Alive' = Alive \ {p} /\ woken' = woken \ {p}
    BY <1>6 DEF AcceptFails, Exit
  <2> QED
    BY <1>6, <2>1 DEF AcceptFails
<1>7. ASSUME NEW p \in Process, CloseClient(p) PROVE backlog' # {}
  BY <1>7 DEF CloseClient
<1>8. ASSUME NEW p \in Process, KilledBySigpipe(p) PROVE backlog' # {}
  BY <1>8 DEF KilledBySigpipe
<1>9. CASE UNCHANGED vars
  BY <1>9 DEF vars
<1> QED
  BY <1>1, <1>2, <1>3, <1>4, <1>5, <1>6, <1>7, <1>8, <1>9
  DEF Next, Start, IncomingEvent

THEOREM WorkCorrect == Spec => []WokenHaveWork
<1>1. Init => WokenHaveWork
  BY ChildFacts DEF Init, WokenHaveWork, Alive
<1> QED
  BY <1>1, WorkStep, ForkTypes, PTL DEF Spec

(***************************************************************************)
(* The last process to go did not lose the race for a connection: it had   *)
(* no descriptor left.                                                     *)
(***************************************************************************)
THEOREM RaceCorrect == Spec => RaceSparesTheLast
<1> DEFINE Spared(p) == killed' = {} /\ Alive' = {} /\ p \in Alive => Full(p)
<1>1. ForkInv /\ WokenHaveWork /\ [Next]_vars
        => [\A p \in Process : Spared(p)]_vars
  <2> SUFFICES ASSUME ForkInv, WokenHaveWork, Next, NEW p \in Process,
                      killed' = {}, Alive' = {}, p \in Alive
               PROVE  Full(p)
    OBVIOUS
  <2>1. phase'[p] \notin {"forking", "waiting", "serving"}
    BY DEF Alive
  <2>2. PICK q \in Process : AcceptFails(q)
    BY <2>1, ChildFacts
    DEF Next, Start, IncomingEvent, Alive, ForkInv, TypeOK, Phase,
        Connect, Fork, ForkFails, ParentWaits, ParentServes, Wake,
        AcceptIncoming, CloseClient, KilledBySigpipe, MoreToFork, Child
  <2>3. q = p
    BY <2>1, <2>2 DEF AcceptFails, Exit, Alive, ForkInv, TypeOK
  <2>4. Alive \subseteq {p}
    BY <2>2, <2>3 DEF AcceptFails, Exit, Alive, ForkInv, TypeOK
  <2>5. backlog # {}
    BY <2>2, <2>3, <2>4 DEF AcceptFails, WokenHaveWork
  <2> QED
    BY <2>2, <2>3, <2>5 DEF AcceptFails
<1> QED
  BY <1>1, ForkTypes, WorkCorrect, PTL DEF Spec, RaceSparesTheLast

==============================================================================
