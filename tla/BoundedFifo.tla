----------------------------- MODULE BoundedFifo -----------------------------
(***************************************************************************)
(* What the two programs of thread/producerAndConsumer promise: the items  *)
(* First, First + 1, ... pass through a buffer of bounded capacity, each   *)
(* exactly once and in order.  CondBuffer.tla and SemBuffer.tla are shown  *)
(* to implement this module.                                               *)
(***************************************************************************)
EXTENDS Naturals, Sequences

CONSTANTS
  First,     \* the first item
  Total,     \* how many items there are
  Capacity   \* how many the buffer holds

VARIABLES
  queue,   \* the items in the buffer
  taken    \* the items the consumer has taken, in order

fifoVars == <<queue, taken>>

FifoInit == queue = << >> /\ taken = << >>

Put ==
  /\ Len(queue) < Capacity
  /\ Len(taken) + Len(queue) < Total
  /\ queue' = Append(queue, First + Len(taken) + Len(queue))
  /\ UNCHANGED taken

Get ==
  /\ queue # << >>
  /\ taken' = Append(taken, Head(queue))
  /\ queue' = Tail(queue)

FifoNext == Put \/ Get

FifoSpec == FifoInit /\ [][FifoNext]_fifoVars

\* A put and a get are always possible until all items are through.
FifoLive == FifoSpec /\ WF_fifoVars(FifoNext)

------------------------------------------------------------------------------
FifoTypeOK ==
  /\ queue \in Seq(Nat)
  /\ taken \in Seq(Nat)

(***************************************************************************)
(* The items taken, and behind them those in the buffer, are the first     *)
(* ones, in order and without a gap.                                       *)
(***************************************************************************)
TakenInOrder ==
  /\ \A k \in 1 .. Len(taken) : taken[k] = First + k - 1
  /\ \A k \in 1 .. Len(queue) : queue[k] = First + Len(taken) + k - 1

\* The buffer never holds more than it can.
WithinCapacity == Len(queue) <= Capacity

\* All items get through.
AllTaken == <>[](Len(taken) = Total)

==============================================================================
