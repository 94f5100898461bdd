------------------------------- MODULE ProducerBase -------------------------------
(***************************************************************************)
(* What the two kinds of sub-queue of concurrentqueue.h have in common: the *)
(* four counters and the first half of dequeue and dequeue_bulk, in which a *)
(* consumer makes sure that there are items for it before it claims their   *)
(* indices.  A step is one access to an atomic variable; memory is          *)
(* sequentially consistent; indices wrap around at IndexValues.             *)
(***************************************************************************)
EXTENDS Integers, FiniteSets

CONSTANTS
  Consumers,
  BLOCK_SIZE,
  IndexValues,    \* how many values index_t has: a power of two
  MaxBlocks,      \* how many blocks memory has room for
  MaxBulk,        \* the largest count a bulk operation is called with
  MaxItems,       \* bound: how many items are enqueued in all, or Endless
  MaxLag          \* bound: how far the tail and the overcommit may move while a consumer
                  \* holds an old value of theirs

Endless == IndexValues   \* as MaxItems: any number

ProducerBaseAssumption ==
  /\ IsFiniteSet(Consumers) /\ Consumers # {}
  /\ BLOCK_SIZE \in Nat /\ BLOCK_SIZE > 1
  /\ IndexValues \in Nat /\ IndexValues % (2 * BLOCK_SIZE) = 0
  /\ MaxBlocks \in Nat /\ MaxBlocks * BLOCK_SIZE < IndexValues \div 2
  /\ MaxBulk \in Nat /\ MaxBulk > 0 /\ MaxItems \in 0 .. Endless /\ MaxLag \in Nat
  /\ MaxLag + Cardinality(Consumers) * MaxBulk <= IndexValues \div 2

Indices == 0 .. IndexValues - 1
Blocks == 1 .. MaxBlocks
Slots == 0 .. BLOCK_SIZE - 1
Null == 0
Raw == IndexValues       \* no object in the slot; an object is known by its index

VARIABLES
  tailIndex, headIndex, dequeueOptimisticCount, dequeueOvercommit,
  elements,       \* what each slot of each block holds
  con             \* per consumer: place and locals

counters == <<tailIndex, headIndex, dequeueOptimisticCount, dequeueOvercommit>>

\* `want` is desiredCount, `mine` myDequeueCount - overcommit, `left` what is left of
\* actualCount; `header` to `moved` serve the search for the block and its elements.
Idle == [at |-> "idle", tail |-> 0, over |-> 0, want |-> 0, mine |-> 0, left |-> 0,
         index |-> 0, header |-> 0, pos |-> 0, block |-> Null, moved |-> 0]

Places == {"idle", "overcommit", "test", "increment", "recheck", "giveBack", "claim",
           "locate", "front", "key", "portion", "move", "close", "clear", "free"}

BaseTypeOK ==
  /\ tailIndex \in Indices /\ headIndex \in Indices
  /\ dequeueOptimisticCount \in Indices /\ dequeueOvercommit \in Indices
  /\ elements \in [Blocks -> [Slots -> Indices \cup {Raw}]]
  /\ con \in [Consumers ->
       [at : Places, tail : Indices, over : Indices, want : 0 .. MaxBulk, mine : Indices,
        left : 0 .. MaxBulk, index : Indices, header : Nat, pos : Nat,
        block : Blocks \cup {Null}, moved : 0 .. BLOCK_SIZE]]

BaseInit ==
  /\ tailIndex = 0 /\ headIndex = 0
  /\ dequeueOptimisticCount = 0 /\ dequeueOvercommit = 0
  /\ elements = [b \in Blocks |-> [s \in Slots |-> Raw]]
  /\ con = [c \in Consumers |-> Idle]

------------------------------------------------------------------------------
\* Arithmetic on indices.

Add(i, n) == (i + n) % IndexValues
Sub(i, j) == (i - j) % IndexValues
CircularLessThan(i, j) == Sub(i, j) > IndexValues \div 2
Slot(i) == i % BLOCK_SIZE
Base(i) == i - Slot(i)
Least(m, n) == IF m < n THEN m ELSE n

------------------------------------------------------------------------------
\* dequeue, which wants one item, and dequeue_bulk, which wants max.

BeginDequeue(c, max) ==
  /\ con[c].at = "idle"
  /\ con' = [con EXCEPT ![c] = [Idle EXCEPT !.at = "overcommit", !.tail = tailIndex,
                                            !.want = max]]
  /\ UNCHANGED <<counters, elements>>

LoadOvercommit(c) ==
  /\ con[c].at = "overcommit"
  /\ con' = [con EXCEPT ![c].over = dequeueOvercommit, ![c].at = "test"]
  /\ UNCHANGED <<counters, elements>>

TestOptimistic(c) ==
  /\ con[c].at = "test"
  /\ LET desired == Sub(con[c].tail, Sub(dequeueOptimisticCount, con[c].over)) IN
     con' = [con EXCEPT ![c] =
               IF CircularLessThan(0, desired)
               THEN [@ EXCEPT !.want = Least(desired, con[c].want), !.at = "increment"]
               ELSE Idle]
  /\ UNCHANGED <<counters, elements>>

Increment(c) ==
  /\ con[c].at = "increment"
  /\ dequeueOptimisticCount' = Add(dequeueOptimisticCount, con[c].want)
  /\ con' = [con EXCEPT ![c].mine = Sub(dequeueOptimisticCount, con[c].over),
                        ![c].over = 0, ![c].at = "recheck"]
  /\ UNCHANGED <<tailIndex, headIndex, dequeueOvercommit, elements>>

\* With the tail as it is now: are there as many items, fewer, or none?
Recheck(c) ==
  /\ con[c].at = "recheck"
  /\ LET actual == Sub(tailIndex, con[c].mine)
         left   == IF CircularLessThan(0, actual) THEN Least(con[c].want, actual) ELSE 0
     IN  con' = [con EXCEPT ![c].mine = 0, ![c].tail = 0, ![c].left = left,
                            ![c].at = IF left < con[c].want THEN "giveBack" ELSE "claim"]
  /\ UNCHANGED <<counters, elements>>

\* Make the effective dequeue count right again.
GiveBack(c) ==
  /\ con[c].at = "giveBack"
  /\ dequeueOvercommit' = Add(dequeueOvercommit, con[c].want - con[c].left)
  /\ con' = [con EXCEPT ![c] = IF con[c].left = 0 THEN Idle
                               ELSE [@ EXCEPT !.want = con[c].left, !.at = "claim"]]
  /\ UNCHANGED <<tailIndex, headIndex, dequeueOptimisticCount, elements>>

Claim(c) ==
  /\ con[c].at = "claim"
  /\ headIndex' = Add(headIndex, con[c].left)
  /\ con' = [con EXCEPT ![c].index = headIndex, ![c].want = 0, ![c].at = "locate"]
  /\ UNCHANGED <<tailIndex, dequeueOptimisticCount, dequeueOvercommit, elements>>

\* Move an element out of its block and destroy it; a move assignment that throws
\* destroys it all the same.
Move(c) ==
  /\ con[c].at = "move"
  /\ LET i == con[c].index IN
     /\ elements' = [elements EXCEPT ![con[c].block][Slot(i)] = Raw]
     /\ con' = [con EXCEPT ![c].index = Add(i, 1), ![c].left = @ - 1, ![c].moved = @ + 1,
                           ![c].at = IF con[c].left = 1 \/ Slot(i) = BLOCK_SIZE - 1
                                     THEN "close" ELSE "move"]
  /\ UNCHANGED counters

\* The slots a consumer at "close" has emptied.
Emptied(c) == {Slot(con[c].index - k) : k \in 1 .. con[c].moved}

BaseStep(c) ==
  \/ \E max \in 1 .. MaxBulk : BeginDequeue(c, max)
  \/ LoadOvercommit(c) \/ TestOptimistic(c) \/ Increment(c) \/ Recheck(c) \/ GiveBack(c)
  \/ Claim(c) \/ Move(c)

\* index_t is assumed to be so wide that it does not wrap around while a consumer is
\* between its first loads and the claim ("may trigger a race condition" otherwise).
InTime ==
  \A c \in Consumers :
    /\ con[c].at \in {"overcommit", "test", "increment", "recheck"}
         => Sub(tailIndex, con[c].tail) <= MaxLag
    /\ con[c].at \in {"test", "increment"}
         => Sub(dequeueOvercommit, con[c].over) <= MaxLag

------------------------------------------------------------------------------
\* Properties.

\* What the consumer has added to the optimistic count and neither claimed nor given back.
Pending(c) == CASE con[c].at \in {"recheck", "giveBack"} -> con[c].want
                [] con[c].at = "claim" -> con[c].left
                [] OTHER -> 0

\* How many items the consumers are at, n[c] each.
Total(n) == Cardinality({i \in Consumers \X (1 .. MaxBulk) : i[2] <= n[i[1]]})

\* "The difference between the two is maintained" (concurrentqueue.h:1966-1971): the
\* optimistic count less the overcommit is the head and what the consumers under way
\* have announced, so that a lost race never makes an item unreachable.
Announced == [c \in Consumers |-> Pending(c)]
CountersBalance ==
  Sub(dequeueOptimisticCount, dequeueOvercommit) = Add(headIndex, Total(Announced))

\* "Since there's guaranteed to be at least one element, this will never exceed tail"
\* (concurrentqueue.h:1980-1981): what consumers have been told that they may claim is there,
\* for all of them together.
Granted == [c \in Consumers |-> IF con[c].at \in {"giveBack", "claim"} THEN con[c].left ELSE 0]
ClaimsAreCovered == Total(Granted) <= Sub(tailIndex, headIndex)

\* "Guaranteed to be at least one element to dequeue" (concurrentqueue.h:1977-1988): the
\* slot a consumer is led to holds the object that was enqueued at its index.
FindsItsItem ==
  \A c \in Consumers :
    con[c].at = "move" =>
      /\ con[c].block # Null
      /\ elements[con[c].block][Slot(con[c].index)] = con[c].index

\* No call is under way.
ConsumersIdle == \A c \in Consumers : con[c].at = "idle"
==============================================================================
