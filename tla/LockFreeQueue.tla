---------------------------- MODULE LockFreeQueue ----------------------------
(***************************************************************************)
(* JobSystem/inc/LockFreeQueue.h: the bounded multi-producer multi-consumer *)
(* ring buffer under every priority queue.  One step of a thread is one     *)
(* access to a shared location: a load, a compare-and-swap, the copy into or *)
(* out of a cell, a store of the cell's sequence number, an update of       *)
(* m_size.  Interleavings are sequentially consistent.                      *)
(*                                                                         *)
(* A position of enqueue_pos_ or dequeue_pos_ is called a ticket: the       *)
(* thread whose compare-and-swap moves the position from p to p + 1 owns    *)
(* ticket p, and with it the cell p & buffer_mask_ until it stores the      *)
(* cell's sequence number.  Tickets are not reduced modulo 2^64.            *)
(***************************************************************************)
EXTENDS Integers, Sequences, FiniteSets

CONSTANTS
  Threads,        \* the threads that call the queue
  Items,          \* the values stored: non-null shared pointers to jobs
  NoItem,         \* the null shared pointer, T{}
  Capacity,       \* buffer_size
  SizeMod,        \* size() yields a uint32_t: m_size is read modulo SizeMod
  ZeroedStorage,  \* whether the queue lives in storage that starts as zeros
  MaxTickets      \* bound of the model: no enqueue starts past this position

ASSUME CapacityAssumption ==
  /\ Capacity \in Nat
  /\ Capacity >= 2
  /\ \E k \in 1 .. Capacity : Capacity = 2 ^ k

ASSUME ConstantsAssumption ==
  /\ NoItem \notin Items
  /\ SizeMod \in Nat \ {0}
  /\ ZeroedStorage \in BOOLEAN
  /\ MaxTickets \in Nat

VARIABLES
  sequence,     \* sequence_ of each cell
  data,         \* data_ of each cell
  enqueue_pos,  \* enqueue_pos_
  dequeue_pos,  \* dequeue_pos_
  m_size,       \* m_size, modulo SizeMod
  pc,           \* the statement each thread is at
  pos,          \* the local variable pos of the thread's call
  item          \* the argument of its enqueue, or the result of its dequeue

vars == <<sequence, data, enqueue_pos, dequeue_pos, m_size, pc, pos, item>>

\* Cells 0 .. Capacity - 1; buffer_mask_ is Capacity - 1 and Capacity a power of
\* two, so pos & buffer_mask_ is the remainder.
Cells == 0 .. Capacity - 1
Cell(p) == p % Capacity

\* A thread owns its ticket from the compare-and-swap to the store of the
\* cell's sequence number.
EnqOwner == {"enqWrite", "enqPublish"}
DeqOwner == {"deqRead", "deqClear", "deqRelease"}

PCs == EnqOwner \cup DeqOwner
         \cup {"idle", "enqLoad", "enqCheck", "enqCas", "enqCount",
               "deqLoad", "deqCheck", "deqCas", "deqCount"}

TypeOK ==
  /\ sequence \in [Cells -> Nat]
  /\ data \in [Cells -> Items \cup {NoItem}]
  /\ enqueue_pos \in Nat
  /\ dequeue_pos \in Nat
  /\ m_size \in 0 .. SizeMod - 1
  /\ pc \in [Threads -> PCs]
  /\ pos \in [Threads -> Nat]
  /\ item \in [Threads -> Items \cup {NoItem}]

------------------------------------------------------------------------------
\* The constructor numbers the cells and zeroes the positions.  It does not
\* initialise m_size, which keeps whatever the storage held.
Init ==
  /\ sequence = [c \in Cells |-> c]
  /\ data = [c \in Cells |-> NoItem]
  /\ enqueue_pos = 0
  /\ dequeue_pos = 0
  /\ m_size \in (IF ZeroedStorage THEN {0} ELSE 0 .. SizeMod - 1)
  /\ pc = [t \in Threads |-> "idle"]
  /\ pos = [t \in Threads |-> 0]
  /\ item = [t \in Threads |-> NoItem]

Goto(t, from, to) == pc[t] = from /\ pc' = [pc EXCEPT ![t] = to]

\* The call returns; what it carried is now the caller's business.
Return(t, from) ==
  /\ Goto(t, from, "idle")
  /\ pos' = [pos EXCEPT ![t] = 0]
  /\ item' = [item EXCEPT ![t] = NoItem]

------------------------------------------------------------------------------
\* enqueue(data)

EnqInvoke(t, x) ==
  /\ enqueue_pos < MaxTickets
  /\ Goto(t, "idle", "enqLoad")
  /\ item' = [item EXCEPT ![t] = x]
  /\ UNCHANGED <<sequence, data, enqueue_pos, dequeue_pos, m_size, pos>>

EnqLoad(t) ==
  /\ Goto(t, "enqLoad", "enqCheck")
  /\ pos' = [pos EXCEPT ![t] = enqueue_pos]
  /\ UNCHANGED <<sequence, data, enqueue_pos, dequeue_pos, m_size, item>>

\* Mutant: a cell of the last lap is taken for a free one.
EnqCheckNotStale(t) ==
  /\ sequence[Cell(pos[t])] <= pos[t]
  /\ Goto(t, "enqCheck", "enqCas")
  /\ UNCHANGED <<sequence, data, enqueue_pos, dequeue_pos, m_size, pos, item>>

\* dif compares the cell's sequence number with pos: the cell is free for this
\* ticket, the ticket is gone already, or the queue has no room.
EnqCheckFree(t) ==
  /\ sequence[Cell(pos[t])] = pos[t]
  /\ Goto(t, "enqCheck", "enqCas")
  /\ UNCHANGED <<sequence, data, enqueue_pos, dequeue_pos, m_size, pos, item>>

EnqCheckStale(t) ==
  /\ sequence[Cell(pos[t])] > pos[t]
  /\ Goto(t, "enqCheck", "enqLoad")
  /\ UNCHANGED <<sequence, data, enqueue_pos, dequeue_pos, m_size, pos, item>>

EnqCheckFull(t) ==
  /\ sequence[Cell(pos[t])] < pos[t]
  /\ Return(t, "enqCheck")
  /\ UNCHANGED <<sequence, data, enqueue_pos, dequeue_pos, m_size>>

\* Mutant: the position is taken without being compared.
EnqCasBlind(t) ==
  /\ Goto(t, "enqCas", "enqWrite")
  /\ enqueue_pos' = pos[t] + 1
  /\ UNCHANGED <<sequence, data, dequeue_pos, m_size, pos, item>>

EnqCas(t) ==
  /\ enqueue_pos = pos[t]
  /\ Goto(t, "enqCas", "enqWrite")
  /\ enqueue_pos' = pos[t] + 1
  /\ UNCHANGED <<sequence, data, dequeue_pos, m_size, pos, item>>

\* compare_exchange_weak may fail even when the values agree; it loads the
\* current value into pos either way.
EnqCasFail(t) ==
  /\ Goto(t, "enqCas", "enqCheck")
  /\ pos' = [pos EXCEPT ![t] = enqueue_pos]
  /\ UNCHANGED <<sequence, data, enqueue_pos, dequeue_pos, m_size, item>>

EnqWrite(t) ==
  /\ Goto(t, "enqWrite", "enqPublish")
  /\ data' = [data EXCEPT ![Cell(pos[t])] = item[t]]
  /\ UNCHANGED <<sequence, enqueue_pos, dequeue_pos, m_size, pos, item>>

EnqPublish(t) ==
  /\ Goto(t, "enqPublish", "enqCount")
  /\ sequence' = [sequence EXCEPT ![Cell(pos[t])] = pos[t] + 1]
  /\ UNCHANGED <<data, enqueue_pos, dequeue_pos, m_size, pos, item>>

EnqCount(t) ==
  /\ Return(t, "enqCount")
  /\ m_size' = (m_size + 1) % SizeMod
  /\ UNCHANGED <<sequence, data, enqueue_pos, dequeue_pos>>

------------------------------------------------------------------------------
\* dequeue(data)

DeqInvoke(t) ==
  /\ Goto(t, "idle", "deqLoad")
  /\ UNCHANGED <<sequence, data, enqueue_pos, dequeue_pos, m_size, pos, item>>

DeqLoad(t) ==
  /\ Goto(t, "deqLoad", "deqCheck")
  /\ pos' = [pos EXCEPT ![t] = dequeue_pos]
  /\ UNCHANGED <<sequence, data, enqueue_pos, dequeue_pos, m_size, item>>

DeqCheckReady(t) ==
  /\ sequence[Cell(pos[t])] = pos[t] + 1
  /\ Goto(t, "deqCheck", "deqCas")
  /\ UNCHANGED <<sequence, data, enqueue_pos, dequeue_pos, m_size, pos, item>>

DeqCheckStale(t) ==
  /\ sequence[Cell(pos[t])] > pos[t] + 1
  /\ Goto(t, "deqCheck", "deqLoad")
  /\ UNCHANGED <<sequence, data, enqueue_pos, dequeue_pos, m_size, pos, item>>

\* Mutant: m_size goes down although nothing has been taken.
DeqCheckEmptyCounts(t) ==
  /\ sequence[Cell(pos[t])] < pos[t] + 1
  /\ Return(t, "deqCheck")
  /\ m_size' = (m_size - 1) % SizeMod
  /\ UNCHANGED <<sequence, data, enqueue_pos, dequeue_pos>>

DeqCheckEmpty(t) ==
  /\ sequence[Cell(pos[t])] < pos[t] + 1
  /\ Return(t, "deqCheck")
  /\ UNCHANGED <<sequence, data, enqueue_pos, dequeue_pos, m_size>>

DeqCas(t) ==
  /\ dequeue_pos = pos[t]
  /\ Goto(t, "deqCas", "deqRead")
  /\ dequeue_pos' = pos[t] + 1
  /\ UNCHANGED <<sequence, data, enqueue_pos, m_size, pos, item>>

DeqCasFail(t) ==
  /\ Goto(t, "deqCas", "deqCheck")
  /\ pos' = [pos EXCEPT ![t] = dequeue_pos]
  /\ UNCHANGED <<sequence, data, enqueue_pos, dequeue_pos, m_size, item>>

DeqRead(t) ==
  /\ Goto(t, "deqRead", "deqClear")
  /\ item' = [item EXCEPT ![t] = data[Cell(pos[t])]]
  /\ UNCHANGED <<sequence, data, enqueue_pos, dequeue_pos, m_size, pos>>

\* Mutant: the cell keeps its strong reference.
DeqClearNothing(t) ==
  /\ Goto(t, "deqClear", "deqRelease")
  /\ UNCHANGED <<sequence, data, enqueue_pos, dequeue_pos, m_size, pos, item>>

\* The cell's strong reference is dropped before the cell is given back.
DeqClear(t) ==
  /\ Goto(t, "deqClear", "deqRelease")
  /\ data' = [data EXCEPT ![Cell(pos[t])] = NoItem]
  /\ UNCHANGED <<sequence, enqueue_pos, dequeue_pos, m_size, pos, item>>

\* Mutant: the cell is given back for the wrong ticket, pos + buffer_mask_.
DeqReleaseShort(t) ==
  /\ Goto(t, "deqRelease", "deqCount")
  /\ sequence' = [sequence EXCEPT ![Cell(pos[t])] = pos[t] + Capacity - 1]
  /\ UNCHANGED <<data, enqueue_pos, dequeue_pos, m_size, pos, item>>

DeqRelease(t) ==
  /\ Goto(t, "deqRelease", "deqCount")
  /\ sequence' = [sequence EXCEPT ![Cell(pos[t])] = pos[t] + Capacity]
  /\ UNCHANGED <<data, enqueue_pos, dequeue_pos, m_size, pos, item>>

DeqCount(t) ==
  /\ Return(t, "deqCount")
  /\ m_size' = (m_size - 1) % SizeMod
  /\ UNCHANGED <<sequence, data, enqueue_pos, dequeue_pos>>

------------------------------------------------------------------------------
EnqStep(t) ==
  \/ \E x \in Items : EnqInvoke(t, x)
  \/ EnqLoad(t) \/ EnqCheckFree(t) \/ EnqCheckStale(t) \/ EnqCheckFull(t)
  \/ EnqCas(t) \/ EnqCasFail(t) \/ EnqWrite(t) \/ EnqPublish(t) \/ EnqCount(t)

DeqStep(t) ==
  \/ DeqInvoke(t)
  \/ DeqLoad(t) \/ DeqCheckReady(t) \/ DeqCheckStale(t) \/ DeqCheckEmpty(t)
  \/ DeqCas(t) \/ DeqCasFail(t)
  \/ DeqRead(t) \/ DeqClear(t) \/ DeqRelease(t) \/ DeqCount(t)

Next == \E t \in Threads : EnqStep(t) \/ DeqStep(t)

Spec == Init /\ [][Next]_vars

------------------------------------------------------------------------------
\* Properties

Owns(t) == pc[t] \in EnqOwner \cup DeqOwner

\* No two threads are ever between winning a compare-and-swap and storing the
\* sequence number of the same cell: the plain accesses to data_ (lines 62, 89
\* and 94) never race.
ExclusiveCells ==
  \A t, u \in Threads :
    Owns(t) /\ Owns(u) /\ Cell(pos[t]) = Cell(pos[u]) => t = u

\* The tickets of the last lap: one per cell.
Window == (enqueue_pos - Capacity) .. (enqueue_pos - 1)

\* Each ticket of the last lap is in one of four conditions, told apart by the
\* cell's sequence number and by the two positions: being filled by one thread,
\* ready, being emptied by one thread, or given back for the next lap.
TicketInv ==
  \A p \in Window :
    \/ /\ dequeue_pos <= p
       /\ sequence[Cell(p)] = p
       /\ \E t \in Threads : pc[t] \in EnqOwner /\ pos[t] = p
    \/ /\ dequeue_pos <= p
       /\ sequence[Cell(p)] = p + 1
    \/ /\ p < dequeue_pos
       /\ sequence[Cell(p)] = p + 1
       /\ \E t \in Threads : pc[t] \in DeqOwner /\ pos[t] = p
    \/ /\ p < dequeue_pos
       /\ sequence[Cell(p)] = p + Capacity

\* What an owner may rely on: its ticket is in the window and the cell's
\* sequence number is the one it checked.
OwnerInv ==
  /\ \A t \in Threads : pc[t] \in EnqOwner =>
       /\ pos[t] \in dequeue_pos .. (enqueue_pos - 1)
       /\ sequence[Cell(pos[t])] = pos[t]
  /\ \A t \in Threads : pc[t] \in DeqOwner =>
       /\ pos[t] \in (enqueue_pos - Capacity) .. (dequeue_pos - 1)
       /\ sequence[Cell(pos[t])] = pos[t] + 1
  /\ \A t, u \in Threads : Owns(t) /\ Owns(u) /\ pos[t] = pos[u] => t = u

\* What a thread about to compare-and-swap may rely on: if the position is still
\* the one it loaded, the cell is still as it found it.
CasInv ==
  /\ \A t \in Threads : pc[t] \in {"enqCheck", "enqCas"} => pos[t] <= enqueue_pos
  /\ \A t \in Threads : pc[t] \in {"deqCheck", "deqCas"} => pos[t] <= dequeue_pos
  /\ \A t \in Threads : pc[t] = "enqCas" /\ pos[t] = enqueue_pos =>
       sequence[Cell(pos[t])] = pos[t]
  /\ \A t \in Threads : pc[t] = "deqCas" /\ pos[t] = dequeue_pos =>
       sequence[Cell(pos[t])] = pos[t] + 1

PositionInv == dequeue_pos <= enqueue_pos /\ enqueue_pos <= dequeue_pos + Capacity

\* The inductive invariant of the queue.
QueueInv == TypeOK /\ PositionInv /\ TicketInv /\ OwnerInv /\ CasInv

\* A cell that waits for the next lap's enqueue holds no job: the queue keeps
\* no strong reference to a job it has handed out (comment at lines 90-91).
NoStaleReference ==
  \A p \in Window :
    sequence[Cell(p)] = p + Capacity => data[Cell(p)] = NoItem

\* m_size counts the items, up to the calls that moved a position and have not
\* updated m_size: exact whenever no call is under way, and below zero (a huge
\* uint32_t) while a dequeue has overtaken the count of its item's enqueue.
UncountedPuts == {t \in Threads : pc[t] \in EnqOwner \cup {"enqCount"}}
UncountedTakes == {t \in Threads : pc[t] \in DeqOwner \cup {"deqCount"}}
SizeCountsItems ==
  m_size = (enqueue_pos - dequeue_pos - Cardinality(UncountedPuts)
              + Cardinality(UncountedTakes)) % SizeMod

\* size() of a queue nobody is using is the number of jobs in it.
SizeAtRest ==
  (\A t \in Threads : pc[t] = "idle") =>
    m_size = (enqueue_pos - dequeue_pos) % SizeMod

------------------------------------------------------------------------------
\* The queue implements BoundedFIFO.  A call takes effect at its successful
\* compare-and-swap.  The item of a ticket is in the cell once it is written,
\* before that with the thread that owns the ticket; a dequeue that owns its
\* ticket and has not read the cell is already given the item.
ItemAt(p) ==
  IF \E t \in Threads : pc[t] = "enqWrite" /\ pos[t] = p
    THEN item[CHOOSE t \in Threads : pc[t] = "enqWrite" /\ pos[t] = p]
    ELSE data[Cell(p)]

Contents == [i \in 1 .. enqueue_pos - dequeue_pos |-> ItemAt(dequeue_pos + i - 1)]

CallOf(t) ==
  CASE pc[t] = "idle" -> "idle"
    [] pc[t] \in {"enqLoad", "enqCheck", "enqCas"} -> "enqueuing"
    [] pc[t] \in EnqOwner \cup {"enqCount"} -> "enqueued"
    [] pc[t] \in {"deqLoad", "deqCheck", "deqCas"} -> "dequeuing"
    [] OTHER -> "dequeued"

CarriedBy(t) == IF pc[t] = "deqRead" THEN data[Cell(pos[t])] ELSE item[t]

\* The places used from a taken ticket to the end of the queue.
SpanOf(t) == IF CallOf(t) = "dequeued" THEN enqueue_pos - pos[t] ELSE 0

FIFO == INSTANCE BoundedFIFO WITH
  fifo <- Contents,
  call <- [t \in Threads |-> CallOf(t)],
  item <- [t \in Threads |-> CarriedBy(t)],
  span <- [t \in Threads |-> SpanOf(t)]

\* Every behaviour of the ring buffer is one of a bounded FIFO queue: items come
\* out once, in the order of their enqueues' tickets, and "full" and "empty" are
\* answered only in the circumstances BoundedFIFO names.
ImplementsFIFO == FIFO!Spec
==============================================================================
