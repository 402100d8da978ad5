-------------------------- MODULE CondBufferProofs ---------------------------
(***************************************************************************)
(* For any number of items and of spurious wakeups: the consumer of        *)
(* conditionSolution.cpp prints what is in the buffer, and the program     *)
(* implements a buffer of one item.                                        *)
(***************************************************************************)
EXTENDS CondBuffer, TLAPS

\* How many items t has put or printed: the counter i is behind in "unlock".
Rounds(t) == IF pc[t] = "unlock" THEN i[t] ELSE i[t] - 1

Looping == {"locked", "waiting", "unlock"}

\* The producer is ahead by the item in the buffer, and by no other.
Alternate ==
  /\ pc["producer"] \in Looping => i["producer"] <= MAX
  /\ pc["consumer"] \in Looping => i["consumer"] <= MAX
  /\ buffer = 0 => Rounds("producer") = Rounds("consumer")
  /\ buffer # 0 => /\ buffer = Rounds("producer")
                   /\ Rounds("producer") = Rounds("consumer") + 1
  /\ Len(printed) = Rounds("consumer")

CondInv == TypeOK /\ Alternate

LEMMA CondInvInit == Init => CondInv
BY CondAssumption
DEF Init, CondInv, TypeOK, Alternate, Rounds, Looping, Thread, NoThread

LEMMA ThreadStep ==
  ASSUME CondInv, NEW t \in Thread,
         Lock(t) \/ Finish(t) \/ Wait(t) \/ Unlock(t) \/ SpuriousWakeup(t)
  PROVE  CondInv'
<1> USE CondAssumption
    DEF CondInv, TypeOK, Alternate, Rounds, Looping, Thread, NoThread
<1>1. CASE Lock(t)
  BY <1>1 DEF Lock, LoopsOn
<1>2. CASE Finish(t)
  BY <1>2 DEF Finish, LoopsOn
<1>3. CASE Wait(t)
  BY <1>3 DEF Wait
<1>4. CASE Unlock(t)
  BY <1>4 DEF Unlock
<1>5. CASE SpuriousWakeup(t)
  BY <1>5 DEF SpuriousWakeup, Awake
<1> QED
  BY <1>1, <1>2, <1>3, <1>4, <1>5

LEMMA ProduceStep == CondInv /\ Produce => CondInv'
BY CondAssumption
DEF Produce, Signal, Awake, Other, MustWait,
    CondInv, TypeOK, Alternate, Rounds, Looping, Thread, NoThread

LEMMA ConsumeStep == CondInv /\ Consume => CondInv'
BY CondAssumption
DEF Consume, Signal, Awake, Other, MustWait,
    CondInv, TypeOK, Alternate, Rounds, Looping, Thread, NoThread

LEMMA MainStep == CondInv /\ (Main \/ UNCHANGED vars) => CondInv'
BY DEF Main, Join, Destroy, vars,
       CondInv, TypeOK, Alternate, Rounds, Looping, Thread, NoThread

(***************************************************************************)
(* The inductive invariant holds: the producer is ahead of the consumer by *)
(* the item in the buffer and no other (conditionSolution.cpp:14-42).      *)
(***************************************************************************)
THEOREM CondCorrect == Spec => []CondInv
<1>1. CondInv /\ [Next]_vars => CondInv'
  BY ThreadStep, ProduceStep, ConsumeStep, MainStep DEF Next, Step, Body
<1> QED
  BY <1>1, CondInvInit, PTL DEF Spec

(***************************************************************************)
(* The values of the variables stay in their types.                        *)
(***************************************************************************)
THEOREM TypeCorrect == Spec => []TypeOK
BY CondCorrect, PTL DEF CondInv

(***************************************************************************)
(* The consumer prints its own counter, and it is the item in the buffer   *)
(* (conditionSolution.cpp:37).                                             *)
(***************************************************************************)
THEOREM PrintCorrect == Spec => []PrintsTheItem
<1>1. CondInv => PrintsTheItem
  BY DEF CondInv, TypeOK, Alternate, Rounds, PrintsTheItem, Thread
<1> QED
  BY <1>1, CondCorrect, PTL

------------------------------------------------------------------------------
(* The refinement of BoundedFifo.                                          *)

LEMMA ProducePuts == CondInv /\ Produce => Fifo!Put
<1> SUFFICES ASSUME CondInv, Produce PROVE Fifo!Put
  OBVIOUS
<1>1. /\ buffer = 0 /\ buffer' = i["producer"] /\ i["producer"] \in 1 .. MAX
      /\ printed' = printed /\ Len(printed) + 1 = i["producer"]
  BY CondAssumption
  DEF Produce, MustWait, CondInv, TypeOK, Alternate, Rounds, Looping, Thread
<1> QED
  BY <1>1, CondAssumption DEF Fifo!Put

LEMMA ConsumeGets == CondInv /\ Consume => Fifo!Get
<1> SUFFICES ASSUME CondInv, Consume PROVE Fifo!Get
  OBVIOUS
<1>1. buffer # 0 /\ buffer' = 0 /\ printed' = Append(printed, buffer)
  BY CondAssumption
  DEF Consume, MustWait, CondInv, TypeOK, Alternate, Rounds, Looping, Thread
<1> QED
  BY <1>1 DEF Fifo!Get

LEMMA FifoStep ==
  ASSUME CondInv, [Next]_vars
  PROVE  [Fifo!FifoNext]_(Fifo!fifoVars)
<1>1. ASSUME NEW t \in Thread,
             Lock(t) \/ Finish(t) \/ Wait(t) \/ Unlock(t) \/ SpuriousWakeup(t)
      PROVE  UNCHANGED <<buffer, printed>>
  BY <1>1 DEF Lock, Finish, Wait, Unlock, SpuriousWakeup
<1>2. Main \/ UNCHANGED vars => UNCHANGED <<buffer, printed>>
  BY DEF Main, Join, Destroy, vars
<1>3. UNCHANGED <<buffer, printed>> => UNCHANGED Fifo!fifoVars
  BY DEF Fifo!fifoVars
<1> QED
  BY <1>1, <1>2, <1>3, ProducePuts, ConsumeGets DEF Next, Step, Body, Fifo!FifoNext

(***************************************************************************)
(* With signals lost and wakeups spurious, the integer is a FIFO of one    *)
(* place through which the items 1 .. MAX pass                             *)
(* (conditionSolution.cpp:14-42).                                          *)
(***************************************************************************)
THEOREM FifoCorrect == Spec => Fifo!FifoSpec
<1>1. Init => Fifo!FifoInit
  BY DEF Init, Fifo!FifoInit
<1> QED
  BY <1>1, FifoStep, CondCorrect, PTL DEF Spec, Fifo!FifoSpec

------------------------------------------------------------------------------
(* The order of what is printed.                                           *)

PrintedInOrder == \A k \in 1 .. Len(printed) : printed[k] = k

LEMMA PrintedStep == CondInv /\ PrintedInOrder /\ [Next]_vars => PrintedInOrder'
<1> SUFFICES ASSUME CondInv, PrintedInOrder, [Next]_vars PROVE PrintedInOrder'
  OBVIOUS
<1>1. CASE Consume
  <2>1. printed' = Append(printed, buffer) /\ buffer = Len(printed) + 1
        /\ printed \in Seq(Nat) /\ buffer \in Nat
    BY <1>1, CondAssumption
    DEF Consume, MustWait, CondInv, TypeOK, Alternate, Rounds, Looping, Thread
  <2> QED
    BY <2>1 DEF PrintedInOrder
<1>2. CASE ~Consume
  <2>1. ASSUME NEW t \in Thread,
               Lock(t) \/ Finish(t) \/ Wait(t) \/ Unlock(t) \/ SpuriousWakeup(t)
        PROVE  UNCHANGED printed
    BY <2>1 DEF Lock, Finish, Wait, Unlock, SpuriousWakeup
  <2>2. Produce \/ Main \/ UNCHANGED vars => UNCHANGED printed
    BY DEF Produce, Main, Join, Destroy, vars
  <2> QED
    BY <1>2, <2>1, <2>2 DEF Next, Step, Body, PrintedInOrder
<1> QED
  BY <1>1, <1>2

(***************************************************************************)
(* The consumer prints 1, 2, 3, ... without a gap, and what is in the      *)
(* buffer comes next (conditionSolution.cpp:30-42).                        *)
(***************************************************************************)
THEOREM OrderCorrect == Spec => []Fifo!TakenInOrder
<1>1. Init => PrintedInOrder
  BY DEF Init, PrintedInOrder
<1>2. CondInv /\ PrintedInOrder => Fifo!TakenInOrder
  <2> SUFFICES ASSUME CondInv, PrintedInOrder PROVE Fifo!TakenInOrder
    OBVIOUS
  <2>1. buffer # 0 => buffer = Len(printed) + 1
    BY DEF CondInv, TypeOK, Alternate, Rounds, Thread
  <2>2. Len(printed) \in Nat
    BY DEF CondInv, TypeOK
  <2> QED
    BY <2>1, <2>2 DEF PrintedInOrder, Fifo!TakenInOrder
<1> QED
  BY <1>1, <1>2, PrintedStep, CondCorrect, PTL DEF Spec

==============================================================================
