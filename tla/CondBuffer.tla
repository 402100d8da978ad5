----------------------------- MODULE CondBuffer ------------------------------
(***************************************************************************)
(* conditionSolution.cpp: a producer and a consumer share one integer,     *)
(* buffer, 0 when it is empty, under a mutex and two condition variables.  *)
(* The consumer prints its own loop counter, never the buffer: the output  *)
(* is right only because the two threads alternate.                        *)
(*                                                                         *)
(* An action is a step of one thread between two calls of the pthread      *)
(* library; pthread_cond_wait may also return without a signal.            *)
(***************************************************************************)
EXTENDS Naturals, Sequences

CONSTANTS
  MAX,         \* how many items are produced and consumed
  MaxSpurious  \* bound of the model: waits that return without a signal

ASSUME CondAssumption == MAX \in Nat /\ MaxSpurious \in Nat

Thread == {"producer", "consumer"}
Other(t) == IF t = "producer" THEN "consumer" ELSE "producer"
NoThread == "nobody"

VARIABLES
  pc,        \* pc[t]: where thread t is in its loop
  i,         \* i[t]: its loop counter
  mutex,     \* the thread that holds mutex, or NoThread
  buffer,    \* the shared integer
  printed,   \* what the consumer has printed
  spurious,  \* how often a wait returned without a signal
  main       \* where main() is

vars == <<pc, i, mutex, buffer, printed, spurious, main>>

Init ==
  /\ pc = [t \in Thread |-> "loop"]
  /\ i = [t \in Thread |-> 1]
  /\ mutex = NoThread
  /\ buffer = 0
  /\ printed = << >>
  /\ spurious = 0
  /\ main = "joinProducer"

LoopsOn(t) == i[t] <= MAX

Lock(t) ==
  /\ pc[t] = "loop" /\ LoopsOn(t)
  /\ mutex = NoThread
  /\ mutex' = t
  /\ pc' = [pc EXCEPT ![t] = "locked"]
  /\ UNCHANGED <<i, buffer, printed, spurious, main>>

\* The loop is over: pthread_exit(0), or the end of consumer().
Finish(t) ==
  /\ pc[t] = "loop" /\ ~LoopsOn(t)
  /\ pc' = [pc EXCEPT ![t] = "done"]
  /\ UNCHANGED <<i, mutex, buffer, printed, spurious, main>>

\* Mutants of MustWait: only the producer waits, or only the consumer does.
MustWaitToPut(t) == t = "producer" /\ buffer # 0
MustWaitToGet(t) == t = "consumer" /\ buffer = 0

\* The condition of the while loop around pthread_cond_wait.
MustWait(t) == IF t = "producer" THEN buffer # 0 ELSE buffer = 0

\* pthread_cond_wait(condp or condc): the mutex is given back.
Wait(t) ==
  /\ pc[t] = "locked" /\ MustWait(t)
  /\ pc' = [pc EXCEPT ![t] = "waiting"]
  /\ mutex' = NoThread
  /\ UNCHANGED <<i, buffer, printed, spurious, main>>

\* Where t is once its condition variable is signalled: a woken thread takes
\* the mutex and tests its condition again, as one that enters the loop does.
Awake(t) == IF pc[t] = "waiting" THEN "loop" ELSE pc[t]

\* Mutant of Signal: the call is missing.
SignalNobody(t) == pc' = [pc EXCEPT ![t] = "unlock"]

\* pthread_cond_signal on the other thread's condition variable; a signal
\* nobody waits for is lost.
Signal(t) ==
  pc' = [pc EXCEPT ![t] = "unlock", ![Other(t)] = Awake(Other(t))]

Produce ==
  /\ pc["producer"] = "locked" /\ ~MustWait("producer")
  /\ buffer' = i["producer"]
  /\ Signal("producer")
  /\ UNCHANGED <<i, mutex, printed, spurious, main>>

Consume ==
  /\ pc["consumer"] = "locked" /\ ~MustWait("consumer")
  /\ printed' = Append(printed, i["consumer"])
  /\ buffer' = 0
  /\ Signal("consumer")
  /\ UNCHANGED <<i, mutex, spurious, main>>

Unlock(t) ==
  /\ pc[t] = "unlock"
  /\ mutex' = NoThread
  /\ i' = [i EXCEPT ![t] = @ + 1]
  /\ pc' = [pc EXCEPT ![t] = "loop"]
  /\ UNCHANGED <<buffer, printed, spurious, main>>

SpuriousWakeup(t) ==
  /\ pc[t] = "waiting" /\ spurious < MaxSpurious
  /\ pc' = [pc EXCEPT ![t] = Awake(t)]
  /\ spurious' = spurious + 1
  /\ UNCHANGED <<i, mutex, buffer, printed, main>>

Body(t) == IF t = "producer" THEN Produce ELSE Consume

Step(t) == Lock(t) \/ Finish(t) \/ Wait(t) \/ Body(t) \/ Unlock(t)

------------------------------------------------------------------------------
(* main: joins both threads, then destroys what they shared.               *)

Join(t, now, then) ==
  /\ main = now /\ pc[t] = "done"
  /\ main' = then
  /\ UNCHANGED <<pc, i, mutex, buffer, printed, spurious>>

Destroy ==
  /\ main = "destroy"
  /\ main' = "returned"
  /\ UNCHANGED <<pc, i, mutex, buffer, printed, spurious>>

Main ==
  \/ Join("producer", "joinProducer", "joinConsumer")
  \/ Join("consumer", "joinConsumer", "destroy")
  \/ Destroy

Next == Main \/ \E t \in Thread : Step(t) \/ SpuriousWakeup(t)

Spec == Init /\ [][Next]_vars

\* Three threads the system schedules; spurious wakeups need not come.
FairSpec == Spec /\ WF_vars(Main) /\ \A t \in Thread : WF_vars(Step(t))

------------------------------------------------------------------------------
TypeOK ==
  /\ pc \in [Thread -> {"loop", "locked", "waiting", "unlock", "done"}]
  /\ i \in [Thread -> 1 .. MAX + 1]
  /\ mutex \in Thread \cup {NoThread}
  /\ buffer \in 0 .. MAX
  /\ printed \in Seq(1 .. MAX)
  /\ spurious \in Nat
  /\ main \in {"joinProducer", "joinConsumer", "destroy", "returned"}

(***************************************************************************)
(* What the consumer is about to print is what is in the buffer, though it *)
(* prints its own counter (conditionSolution.cpp:37).                      *)
(***************************************************************************)
PrintsTheItem ==
  pc["consumer"] = "locked" /\ buffer # 0 => buffer = i["consumer"]

(***************************************************************************)
(* The program implements a buffer of one item, as far as its output       *)
(* tells.                                                                  *)
(***************************************************************************)
Fifo == INSTANCE BoundedFifo WITH
  First <- 1, Total <- MAX, Capacity <- 1,
  queue <- IF buffer = 0 THEN << >> ELSE <<buffer>>,
  taken <- printed

FifoLive == Fifo!FifoLive

(***************************************************************************)
(* Both threads end and main returns.                                      *)
(***************************************************************************)
Termination == <>(main = "returned")

==============================================================================
