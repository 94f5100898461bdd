------------------------------ MODULE SubQueueFIFO ------------------------------
(***************************************************************************)
(* What a sub-queue of concurrentqueue.h promises: one producer appends     *)
(* items, several at once if it likes, consumers take them from the front,  *)
(* and what a consumer has taken it gets, item by item and in order.        *)
(***************************************************************************)
EXTENDS Integers, Sequences, SequencesExt

CONSTANTS Items, Consumers, MaxBulk

VARIABLES
  queue,   \* the items in the sub-queue, oldest first
  hand     \* per consumer: the items that are its own and that it has not got yet

vars == <<queue, hand>>

Init == queue = <<>> /\ hand = [c \in Consumers |-> <<>>]

\* enqueue, enqueue_bulk: all of the items appear at once.
Enqueue ==
  /\ Len(queue') - Len(queue) \in 1 .. MaxBulk
  /\ IsPrefix(queue, queue') /\ queue' \in Seq(Items)
  /\ UNCHANGED hand

\* A dequeue takes effect: the n oldest items are the consumer's.
Take(c) ==
  \E n \in 1 .. Len(queue) :
    /\ hand[c] = <<>>
    /\ hand' = [hand EXCEPT ![c] = SubSeq(queue, 1, n)]
    /\ queue' = SubSeq(queue, n + 1, Len(queue))

\* The consumer gets the first of its items.
Get(c) ==
  /\ hand[c] # <<>>
  /\ hand' = [hand EXCEPT ![c] = Tail(@)]
  /\ UNCHANGED queue

Next == Enqueue \/ \E c \in Consumers : Take(c) \/ Get(c)

Spec == Init /\ [][Next]_vars
==============================================================================
