--------------------------- MODULE SemBufferProofs ---------------------------
(***************************************************************************)
(* For any number of items and places: the semaphores of                   *)
(* semaphoreSolution.cpp account for every place, so that its vector is    *)
(* never read when it is empty, and it implements a bounded FIFO.          *)
(***************************************************************************)
EXTENDS SemBuffer, TLAPS

Holding == {"lock", "locked", "unlock", "post"}

\* A thread between its semaphore operations has a round to complete; items
\* come out of the producer's rounds and go into the consumer's.
RoundsAddUp ==
  /\ pc["producer"] \in Holding => done["producer"] < Items
  /\ pc["consumer"] \in Holding => done["consumer"] < Items
  /\ Len(taken) = done["consumer"] + Between("consumer", {"unlock", "post"})
  /\ Len(taken) + Len(buffer)
       = done["producer"] + Between("producer", {"unlock", "post"})

SemInv == TypeOK /\ PlacesAddUp /\ RoundsAddUp

LEMMA SemInvInit == Init => SemInv
BY SemAssumption
DEF Init, SemInv, TypeOK, PlacesAddUp, RoundsAddUp, Between, Thread, NoThread, Holding

LEMMA CountsAreNumbers ==
  ASSUME TypeOK
  PROVE  /\ done["producer"] \in Int /\ done["consumer"] \in Int
         /\ Len(taken) \in Int /\ Len(buffer) \in Int
BY SemAssumption DEF TypeOK, Thread

LEMMA ProducerStep ==
  ASSUME SemInv, WaitEmpty \/ Produce \/ PostFull
  PROVE  SemInv'
<1> USE SemAssumption
    DEF SemInv, TypeOK, PlacesAddUp, RoundsAddUp, Between, Thread, NoThread, Holding
<1>1. CASE WaitEmpty
  BY <1>1 DEF WaitEmpty, HasRoom
<1>2. CASE Produce
  <2>1. TypeOK'
    BY <1>2 DEF Produce
  <2>2. PlacesAddUp'
    BY <1>2 DEF Produce
  <2>3. /\ pc["producer"] = "locked" /\ pc'["producer"] = "unlock"
        /\ pc'["consumer"] = pc["consumer"]
        /\ done' = done /\ taken' = taken /\ Len(buffer') = Len(buffer) + 1
    BY <1>2 DEF Produce
  <2>4. RoundsAddUp'
    <3> HIDE DEF TypeOK, PlacesAddUp
    <3> QED
      BY <2>3, CountsAreNumbers
  <2> QED
    BY <2>1, <2>2, <2>4
<1>3. CASE PostFull
  <2>1. TypeOK'
    <3>1. /\ pc' = [pc EXCEPT !["producer"] = "loop"]
          /\ done' = [done EXCEPT !["producer"] = @ + 1]
          /\ full' = full + 1 /\ UNCHANGED <<empty, mutex, buffer, taken, main>>
      BY <1>3 DEF PostFull, FullAfter
    <3>2. done["producer"] < Items
      BY <1>3 DEF PostFull
    <3> HIDE DEF PlacesAddUp, RoundsAddUp
    <3> QED
      BY <3>1, <3>2
  <2>2. PlacesAddUp'
    BY <1>3 DEF PostFull, FullAfter
  <2>3. /\ pc["producer"] = "post" /\ pc'["producer"] = "loop"
        /\ pc'["consumer"] = pc["consumer"]
        /\ done'["producer"] = done["producer"] + 1
        /\ done'["consumer"] = done["consumer"]
        /\ UNCHANGED <<buffer, taken>>
    BY <1>3 DEF PostFull, FullAfter
  <2>4. RoundsAddUp'
    <3> HIDE DEF TypeOK, PlacesAddUp
    <3> QED
      BY <2>3, CountsAreNumbers
  <2> QED
    BY <2>1, <2>2, <2>4
<1> QED
  BY <1>1, <1>2, <1>3

LEMMA ConsumerStep ==
  ASSUME SemInv, WaitFull \/ Consume \/ PostEmpty
  PROVE  SemInv'
<1> USE SemAssumption
    DEF SemInv, TypeOK, PlacesAddUp, RoundsAddUp, Between, Thread, NoThread, Holding
<1>1. CASE WaitFull
  <2>1. TypeOK'
    BY <1>1 DEF WaitFull, HasItem
  <2>2. PlacesAddUp'
    BY <1>1 DEF WaitFull, HasItem
  <2>3. RoundsAddUp'
    BY <1>1 DEF WaitFull, HasItem
  <2> QED
    BY <2>1, <2>2, <2>3
<1>2. CASE Consume
  <2>1. TypeOK'
    <3> HIDE DEF PlacesAddUp, RoundsAddUp
    <3>1. Head(buffer) \in Nat /\ Tail(buffer) \in Seq(Nat)
      BY <1>2 DEF Consume
    <3>2. taken' \in Seq(Nat) /\ buffer' \in Seq(Nat)
      BY <1>2, <3>1 DEF Consume, Erased
    <3> QED
      BY <1>2, <3>2 DEF Consume
  <2>2. PlacesAddUp'
    BY <1>2 DEF Consume, Erased
  <2>3. /\ pc["consumer"] = "locked" /\ pc'["consumer"] = "unlock"
        /\ pc'["producer"] = pc["producer"]
        /\ done' = done
        /\ Len(taken') = Len(taken) + 1 /\ Len(buffer') = Len(buffer) - 1
    BY <1>2 DEF Consume, Erased
  <2>4. RoundsAddUp'
    <3> HIDE DEF TypeOK, PlacesAddUp
    <3>1. Len(taken') + Len(buffer') = Len(taken) + Len(buffer)
      <4> HIDE DEF SemInv, RoundsAddUp
      <4> QED
        BY <1>2, <2>3, CountsAreNumbers DEF SemInv
    <3>2. Len(taken) = done["consumer"] /\ Len(taken') = done'["consumer"] + 1
      BY <2>3, CountsAreNumbers
    <3> QED
      BY <2>3, <3>1, <3>2
  <2> QED
    BY <2>1, <2>2, <2>4
<1>3. CASE PostEmpty
  <2>1. TypeOK'
    BY <1>3 DEF PostEmpty, EmptyAfter
  <2>2. PlacesAddUp'
    BY <1>3 DEF PostEmpty, EmptyAfter
  <2>3. /\ pc["consumer"] = "post" /\ pc'["consumer"] = "loop"
        /\ pc'["producer"] = pc["producer"]
        /\ done'["consumer"] = done["consumer"] + 1
        /\ done'["producer"] = done["producer"]
        /\ UNCHANGED <<buffer, taken>>
    BY <1>3 DEF PostEmpty, EmptyAfter
  <2>4. RoundsAddUp'
    <3> HIDE DEF TypeOK, PlacesAddUp
    <3> QED
      BY <2>3, CountsAreNumbers
  <2> QED
    BY <2>1, <2>2, <2>4
<1> QED
  BY <1>1, <1>2, <1>3

LEMMA OtherStep ==
  ASSUME SemInv,
         Main \/ UNCHANGED vars \/ \E t \in Thread : Lock(t) \/ Unlock(t) \/ Finish(t)
  PROVE  SemInv'
<1> USE SemAssumption
    DEF SemInv, TypeOK, PlacesAddUp, RoundsAddUp, Between, Thread, NoThread, Holding
<1>1. ASSUME NEW t \in Thread, Lock(t) PROVE SemInv'
  BY <1>1 DEF Lock
<1>2. ASSUME NEW t \in Thread, Unlock(t) PROVE SemInv'
  BY <1>2 DEF Unlock
<1>3. ASSUME NEW t \in Thread, Finish(t) PROVE SemInv'
  BY <1>3 DEF Finish
<1>4. CASE Main \/ UNCHANGED vars
  BY <1>4 DEF Main, SemDestroy, Join, vars
<1> QED
  BY <1>1, <1>2, <1>3, <1>4

(***************************************************************************)
(* The inductive invariant holds: types, the places, and the items that    *)
(* the two threads' rounds account for (semaphoreSolution.cpp:21-55).      *)
(***************************************************************************)
THEOREM SemCorrect == Spec => []SemInv
<1>1. SemInv /\ [Next]_vars => SemInv'
  BY ProducerStep, ConsumerStep, OtherStep DEF Next, Step
<1> QED
  BY <1>1, SemInvInit, PTL DEF Spec

(***************************************************************************)
(* The values of the variables stay in their types; the semaphores are     *)
(* never below 0.                                                          *)
(***************************************************************************)
THEOREM TypeCorrect == Spec => []TypeOK
BY SemCorrect, PTL DEF SemInv

(***************************************************************************)
(* Every place is accounted for once (semaphoreSolution.cpp:25-32, 42-51). *)
(***************************************************************************)
THEOREM PlacesCorrect == Spec => []PlacesAddUp
BY SemCorrect, PTL DEF SemInv

(***************************************************************************)
(* Whenever the consumer reads *buffer.begin() (line 44) there is an       *)
(* element.                                                                *)
(***************************************************************************)
THEOREM NeverReadsEmpty == Spec => [](pc["consumer"] = "locked" => buffer # << >>)
<1>1. SemInv => (pc["consumer"] = "locked" => buffer # << >>)
  BY DEF SemInv, TypeOK, PlacesAddUp, Between
<1> QED
  BY <1>1, SemCorrect, PTL

------------------------------------------------------------------------------
(* What every bounded FIFO keeps, and so the vector.                       *)

FifoInv == Fifo!FifoTypeOK /\ Fifo!TakenInOrder /\ Fifo!WithinCapacity

LEMMA FifoInvInit == Fifo!FifoInit => FifoInv
BY SemAssumption
DEF Fifo!FifoInit, FifoInv, Fifo!FifoTypeOK, Fifo!TakenInOrder, Fifo!WithinCapacity

LEMMA PutStep ==
  ASSUME FifoInv, Fifo!Put
  PROVE  FifoInv'
<1> USE SemAssumption
    DEF FifoInv, Fifo!FifoTypeOK, Fifo!TakenInOrder, Fifo!WithinCapacity, Fifo!Put
<1>1. Len(taken) + Len(buffer) \in Nat
  OBVIOUS
<1>2. Fifo!FifoTypeOK' /\ Fifo!WithinCapacity'
  BY <1>1
<1>3. ASSUME NEW k \in 1 .. Len(buffer')
      PROVE  buffer'[k] = Len(taken) + k - 1
  <2>1. CASE k <= Len(buffer)
    <3>1. k \in 1 .. Len(buffer)
      BY <2>1, <1>3
    <3>2. buffer'[k] = buffer[k]
      BY <3>1, <1>1
    <3> QED
      BY <3>1, <3>2
  <2>2. CASE k = Len(buffer) + 1
    BY <2>2, <1>1, <1>3
  <2> QED
    BY <2>1, <2>2, <1>1, <1>3
<1> QED
  BY <1>2, <1>3

LEMMA GetStep ==
  ASSUME FifoInv, Fifo!Get
  PROVE  FifoInv'
<1> USE SemAssumption
    DEF FifoInv, Fifo!FifoTypeOK, Fifo!TakenInOrder, Fifo!WithinCapacity, Fifo!Get
<1>1. Head(buffer) = Len(taken) /\ Head(buffer) \in Nat
  OBVIOUS
<1>2. Fifo!FifoTypeOK' /\ Fifo!WithinCapacity' /\ Len(taken') = Len(taken) + 1
  BY <1>1
<1>3. ASSUME NEW k \in 1 .. Len(taken')
      PROVE  taken'[k] = k - 1
  <2>1. CASE k <= Len(taken)
    BY <2>1, <1>1, <1>3
  <2>2. CASE k = Len(taken) + 1
    BY <2>2, <1>1, <1>3
  <2> QED
    BY <2>1, <2>2, <1>1, <1>2, <1>3
<1>4. ASSUME NEW k \in 1 .. Len(buffer')
      PROVE  buffer'[k] = Len(taken') + k - 1
  <2>1. k + 1 \in 1 .. Len(buffer) /\ buffer'[k] = buffer[k + 1]
    BY <1>4
  <2> QED
    BY <2>1, <1>2
<1> QED
  BY <1>2, <1>3, <1>4

(***************************************************************************)
(* Of every bounded FIFO: the items taken are the first ones, in order and *)
(* without a gap, and those in the buffer follow them.                     *)
(***************************************************************************)
THEOREM FifoOrderCorrect == Fifo!FifoSpec => []Fifo!TakenInOrder
<1>1. FifoInv /\ [Fifo!FifoNext]_(Fifo!fifoVars) => FifoInv'
  <2>1. FifoInv /\ UNCHANGED (Fifo!fifoVars) => FifoInv'
    BY DEF FifoInv, Fifo!FifoTypeOK, Fifo!TakenInOrder, Fifo!WithinCapacity, Fifo!fifoVars
  <2> QED
    BY <2>1, PutStep, GetStep DEF Fifo!FifoNext
<1>2. FifoInv => Fifo!TakenInOrder
  BY DEF FifoInv
<1> QED
  BY <1>1, <1>2, FifoInvInit, PTL DEF Fifo!FifoSpec

------------------------------------------------------------------------------
(* The refinement of BoundedFifo.                                          *)

LEMMA FifoStep ==
  ASSUME SemInv, [Next]_vars
  PROVE  [Fifo!FifoNext]_(Fifo!fifoVars)
<1> USE DEF SemInv, TypeOK, PlacesAddUp, RoundsAddUp, Between, Thread, Holding
<1>1. CASE Produce
  <2>1. Len(buffer) < Slots
    BY <1>1, SemAssumption DEF Produce
  <2>2. /\ Len(taken) + Len(buffer) = done["producer"]
        /\ done["producer"] < Items
    BY <1>1 DEF Produce
  <2>3. buffer' = Append(buffer, 0 + Len(taken) + Len(buffer)) /\ taken' = taken
    BY <1>1, <2>2 DEF Produce
  <2> QED
    BY <2>1, <2>2, <2>3 DEF Fifo!FifoNext, Fifo!Put
<1>2. CASE Consume
  BY <1>2 DEF Consume, Erased, Fifo!FifoNext, Fifo!Get
<1>3. ASSUME NEW t \in Thread, Lock(t) \/ Unlock(t) \/ Finish(t)
      PROVE  UNCHANGED <<buffer, taken>>
  BY <1>3 DEF Lock, Unlock, Finish
<1>4. CASE WaitEmpty \/ PostFull \/ WaitFull \/ PostEmpty \/ Main \/ UNCHANGED vars
  BY <1>4 DEF WaitEmpty, PostFull, WaitFull, PostEmpty, Main, SemDestroy, Join, vars,
              Fifo!fifoVars
<1> QED
  BY <1>1, <1>2, <1>3, <1>4 DEF Next, Step, Fifo!fifoVars

(***************************************************************************)
(* Whatever the two threads do, the vector is a FIFO of Slots places       *)
(* through which the items 0 .. Items - 1 pass                             *)
(* (semaphoreSolution.cpp:21-55).                                          *)
(***************************************************************************)
THEOREM FifoCorrect == Spec => Fifo!FifoSpec
<1>1. Init => Fifo!FifoInit
  BY DEF Init, Fifo!FifoInit
<1> QED
  BY <1>1, FifoStep, SemCorrect, PTL DEF Spec, Fifo!FifoSpec

(***************************************************************************)
(* The consumer prints 0, 1, 2, ... without a gap.                         *)
(***************************************************************************)
THEOREM OrderCorrect == Spec => []Fifo!TakenInOrder
BY FifoOrderCorrect, FifoCorrect, PTL

==============================================================================
