----------------------------- MODULE BoundedFIFO -----------------------------
(***************************************************************************)
(* What LockFreeQueue<T> promises its callers (JobQueue's three priority   *)
(* queues): a first-in first-out queue of at most Capacity items, shared by *)
(* any number of threads.  A call takes effect in one step somewhere        *)
(* between its invocation and its return.                                   *)
(*                                                                         *)
(* The promise has two soft edges, and the users of the queue meet both: a  *)
(* dequeue that has taken its item and not returned still occupies a slot,  *)
(* and the enqueue that comes round to that slot answers "full" whatever    *)
(* the queue holds; an enqueue that has taken its place and not returned    *)
(* may leave the head of the queue unreadable, and a dequeue answers        *)
(* "empty" whatever comes after it.                                         *)
(***************************************************************************)
EXTENDS Integers, Sequences

CONSTANTS
  Threads,   \* the threads that call the queue
  Items,     \* the values stored (shared pointers to jobs)
  NoItem,    \* the null shared pointer
  Capacity   \* the size of the buffer

VARIABLES
  fifo,      \* the items in the queue, oldest first
  call,      \* what each thread is doing with the queue
  item,      \* the item a thread's call carries: to be put, or taken
  span       \* of a dequeue that took its item: the places the enqueues have
             \* used from that item's on

vars == <<fifo, call, item, span>>

CallStates == {"idle", "enqueuing", "enqueued", "dequeuing", "dequeued"}

TypeOK ==
  /\ fifo \in Seq(Items)
  /\ Len(fifo) <= Capacity
  /\ call \in [Threads -> CallStates]
  /\ item \in [Threads -> Items \cup {NoItem}]
  /\ span \in [Threads -> Nat]

Init ==
  /\ fifo = << >>
  /\ call = [t \in Threads |-> "idle"]
  /\ item = [t \in Threads |-> NoItem]
  /\ span = [t \in Threads |-> 0]

\* A thread's call leaves the queue's hands: what it carried is the caller's.
Return(t) ==
  /\ call' = [call EXCEPT ![t] = "idle"]
  /\ item' = [item EXCEPT ![t] = NoItem]
  /\ span' = [span EXCEPT ![t] = 0]
  /\ UNCHANGED fifo

InvokeEnqueue(t, x) ==
  /\ call[t] = "idle"
  /\ call' = [call EXCEPT ![t] = "enqueuing"]
  /\ item' = [item EXCEPT ![t] = x]
  /\ UNCHANGED <<fifo, span>>

Enqueue(t) ==
  /\ call[t] = "enqueuing"
  /\ Len(fifo) < Capacity
  /\ fifo' = Append(fifo, item[t])
  /\ call' = [call EXCEPT ![t] = "enqueued"]
  /\ span' = [u \in Threads |-> IF call[u] = "dequeued" THEN span[u] + 1 ELSE span[u]]
  /\ UNCHANGED item

\* "Full" is answered when the queue is full, or when a dequeue that has not
\* returned has been lapped: the slot this call needs is the one it empties.
FailEnqueue(t) ==
  /\ call[t] = "enqueuing"
  /\ Len(fifo) < Capacity => \E u \in Threads : call[u] = "dequeued" /\ span[u] >= Capacity
  /\ Return(t)

ReturnEnqueue(t) == call[t] = "enqueued" /\ Return(t)

InvokeDequeue(t) ==
  /\ call[t] = "idle"
  /\ call' = [call EXCEPT ![t] = "dequeuing"]
  /\ UNCHANGED <<fifo, item, span>>

Dequeue(t) ==
  /\ call[t] = "dequeuing"
  /\ fifo # << >>
  /\ item' = [item EXCEPT ![t] = Head(fifo)]
  /\ fifo' = Tail(fifo)
  /\ call' = [call EXCEPT ![t] = "dequeued"]
  /\ span' = [span EXCEPT ![t] = Len(fifo)]

\* "Empty" is answered when the queue is empty, or when the head is the item of
\* an enqueue that has not returned: it may not be published yet.
FailDequeue(t) ==
  /\ call[t] = "dequeuing"
  /\ fifo # << >> => \E u \in Threads : call[u] = "enqueued" /\ item[u] = Head(fifo)
  /\ Return(t)

ReturnDequeue(t) == call[t] = "dequeued" /\ Return(t)

ThreadStep(t) ==
  \/ \E x \in Items : InvokeEnqueue(t, x)
  \/ Enqueue(t) \/ FailEnqueue(t) \/ ReturnEnqueue(t)
  \/ InvokeDequeue(t)
  \/ Dequeue(t) \/ FailDequeue(t) \/ ReturnDequeue(t)

Next == \E t \in Threads : ThreadStep(t)

Spec == Init /\ [][Next]_vars
==============================================================================
