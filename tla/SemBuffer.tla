------------------------------ MODULE SemBuffer ------------------------------
(***************************************************************************)
(* semaphoreSolution.cpp: a producer and a consumer share a vector under a *)
(* mutex; the semaphore full counts its items, the semaphore empty its     *)
(* free places.  The code uses MAX_SIZE both for the number of items and   *)
(* for the number of places; here they are two constants, because the      *)
(* semaphores only ever block the producer when there are more items than  *)
(* places.                                                                 *)
(*                                                                         *)
(* An action is a step of one thread between two calls of the libraries.   *)
(***************************************************************************)
EXTENDS Integers, Sequences

CONSTANTS
  Items,   \* MAX_SIZE of the two loops: the items are 0 .. Items - 1
  Slots    \* MAX_SIZE of sem_init(&empty, 0, MAX_SIZE)

ASSUME SemAssumption == Items \in Nat /\ Slots \in Nat \ {0}

Thread == {"producer", "consumer"}
NoThread == "nobody"

VARIABLES
  pc,      \* pc[t]: where thread t is in its loop
  done,    \* done[t]: the rounds it has completed: i, nMsgCount
  full,    \* the semaphores
  empty,
  mutex,   \* the thread that holds mutex, or NoThread
  buffer,  \* the vector
  taken,   \* the values the consumer has printed
  main     \* where main() is

vars == <<pc, done, full, empty, mutex, buffer, taken, main>>

Init ==
  /\ pc = [t \in Thread |-> "loop"]
  /\ done = [t \in Thread |-> 0]
  /\ full = 0
  /\ empty = Slots
  /\ mutex = NoThread
  /\ buffer = << >>
  /\ taken = << >>
  /\ main = "destroyFull"

\* sem_wait(&empty) blocks while the semaphore is 0.
HasRoom == empty > 0

WaitEmpty ==
  /\ pc["producer"] = "loop" /\ done["producer"] < Items
  /\ HasRoom
  /\ empty' = empty - 1
  /\ pc' = [pc EXCEPT !["producer"] = "lock"]
  /\ UNCHANGED <<done, full, mutex, buffer, taken, main>>

\* sem_wait(&full)
HasItem == full > 0

WaitFull ==
  /\ pc["consumer"] = "loop" /\ done["consumer"] < Items
  /\ HasItem
  /\ full' = full - 1
  /\ pc' = [pc EXCEPT !["consumer"] = "lock"]
  /\ UNCHANGED <<done, empty, mutex, buffer, taken, main>>

Lock(t) ==
  /\ pc[t] = "lock" /\ mutex = NoThread
  /\ mutex' = t
  /\ pc' = [pc EXCEPT ![t] = "locked"]
  /\ UNCHANGED <<done, full, empty, buffer, taken, main>>

Produce ==
  /\ pc["producer"] = "locked"
  /\ buffer' = Append(buffer, done["producer"])
  /\ pc' = [pc EXCEPT !["producer"] = "unlock"]
  /\ UNCHANGED <<done, full, empty, mutex, taken, main>>

\* Mutant of Erased: the element at the wrong end is erased.
ErasedLast == SubSeq(buffer, 1, Len(buffer) - 1)

\* buffer.erase(buffer.begin())
Erased == Tail(buffer)

\* *buffer.begin() and erase() on an empty vector are undefined: PlacesAddUp
\* says that no step gets there.
Consume ==
  /\ pc["consumer"] = "locked"
  /\ buffer # << >>
  /\ taken' = Append(taken, Head(buffer))
  /\ buffer' = Erased
  /\ pc' = [pc EXCEPT !["consumer"] = "unlock"]
  /\ UNCHANGED <<done, full, empty, mutex, main>>

Unlock(t) ==
  /\ pc[t] = "unlock"
  /\ mutex' = NoThread
  /\ pc' = [pc EXCEPT ![t] = "post"]
  /\ UNCHANGED <<done, full, empty, buffer, taken, main>>

\* Mutants of FullAfter and EmptyAfter: sem_post is forgotten.
FullNotPosted == full
EmptyNotPosted == empty

FullAfter == full + 1
EmptyAfter == empty + 1

PostFull ==
  /\ pc["producer"] = "post"
  /\ full' = FullAfter
  /\ done' = [done EXCEPT !["producer"] = @ + 1]
  /\ pc' = [pc EXCEPT !["producer"] = "loop"]
  /\ UNCHANGED <<empty, mutex, buffer, taken, main>>

PostEmpty ==
  /\ pc["consumer"] = "post"
  /\ empty' = EmptyAfter
  /\ done' = [done EXCEPT !["consumer"] = @ + 1]
  /\ pc' = [pc EXCEPT !["consumer"] = "loop"]
  /\ UNCHANGED <<full, mutex, buffer, taken, main>>

Finish(t) ==
  /\ pc[t] = "loop" /\ done[t] = Items
  /\ pc' = [pc EXCEPT ![t] = "done"]
  /\ UNCHANGED <<done, full, empty, mutex, buffer, taken, main>>

Step(t) ==
  \/ Lock(t) \/ Unlock(t) \/ Finish(t)
  \/ t = "producer" /\ (WaitEmpty \/ Produce \/ PostFull)
  \/ t = "consumer" /\ (WaitFull \/ Consume \/ PostEmpty)

------------------------------------------------------------------------------
(* main: destroys the semaphores before it joins their users.  In glibc    *)
(* sem_destroy does nothing, so the threads go on.                         *)

SemDestroy(now, then) ==
  /\ main = now
  /\ main' = then
  /\ UNCHANGED <<pc, done, full, empty, mutex, buffer, taken>>

Join(t, now, then) ==
  /\ main = now /\ pc[t] = "done"
  /\ main' = then
  /\ UNCHANGED <<pc, done, full, empty, mutex, buffer, taken>>

Main ==
  \/ SemDestroy("destroyFull", "destroyEmpty")
  \/ SemDestroy("destroyEmpty", "joinProducer")
  \/ Join("producer", "joinProducer", "joinConsumer")
  \/ Join("consumer", "joinConsumer", "returned")

Next == Main \/ \E t \in Thread : Step(t)

Spec == Init /\ [][Next]_vars

\* Three threads the system schedules.
FairSpec == Spec /\ WF_vars(Main) /\ \A t \in Thread : WF_vars(Step(t))

------------------------------------------------------------------------------
TypeOK ==
  /\ pc \in [Thread -> {"loop", "lock", "locked", "unlock", "post", "done"}]
  /\ done \in [Thread -> 0 .. Items]
  /\ full \in Nat
  /\ empty \in Nat
  /\ mutex \in Thread \cup {NoThread}
  /\ buffer \in Seq(Nat)
  /\ taken \in Seq(Nat)
  /\ main \in {"destroyFull", "destroyEmpty", "joinProducer", "joinConsumer",
               "returned"}

Between(t, states) == IF pc[t] \in states THEN 1 ELSE 0

(***************************************************************************)
(* Every place is accounted for once: in empty, in full, or with a thread  *)
(* between its two semaphore operations; and the vector holds just the     *)
(* items that are counted by full or about to be.                          *)
(***************************************************************************)
PlacesAddUp ==
  /\ full + empty + Between("producer", {"lock", "locked", "unlock", "post"})
       + Between("consumer", {"lock", "locked", "unlock", "post"}) = Slots
  /\ Len(buffer) = full + Between("producer", {"unlock", "post"})
                     + Between("consumer", {"lock", "locked"})

(***************************************************************************)
(* The program implements a buffer of Slots places.                        *)
(***************************************************************************)
Fifo == INSTANCE BoundedFifo WITH
  First <- 0, Total <- Items, Capacity <- Slots, queue <- buffer

FifoLive == Fifo!FifoLive

(***************************************************************************)
(* Both threads end and main returns.                                      *)
(***************************************************************************)
Termination == <>(main = "returned")

==============================================================================
