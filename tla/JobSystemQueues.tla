--------------------------- MODULE JobSystemQueues ---------------------------
(***************************************************************************)
(* The queues of JobSystem implement BoundedFIFO, the promise that          *)
(* LockFreeQueue keeps: what JobSystem assumes of a queue call is what the  *)
(* ring buffer provides.                                                    *)
(***************************************************************************)
EXTENDS JobSystem

\* The queue of each priority of each system, as BoundedFIFO sees it.
CallOf(s, p, t) ==
  IF sys[t] = s /\ scan[t] = p
  THEN CASE pc[t] \in {"put", "putChild"} -> "enqueuing"
         [] pc[t] \in {"countPut", "countChild"} -> "enqueued"
         [] pc[t] = "dequeue" -> "dequeuing"
         [] pc[t] = "countTake" -> "dequeued"
         [] OTHER -> "idle"
  ELSE "idle"

CarriedBy(s, p, t) ==
  CASE CallOf(s, p, t) \in {"enqueuing", "enqueued"} -> Put(t)
    [] CallOf(s, p, t) = "dequeued" -> job[t]
    [] OTHER -> NoJob

FIFO(s, p) == INSTANCE BoundedFIFO WITH
  Items <- Jobs, NoItem <- NoJob, Capacity <- Capacity[p],
  fifo <- queue[s][p],
  call <- [t \in Threads |-> CallOf(s, p, t)],
  item <- [t \in Threads |-> CarriedBy(s, p, t)],
  span <- [t \in Threads |-> IF CallOf(s, p, t) = "dequeued" THEN span[t] ELSE 0]

\* The jobs of one priority of one system leave in the order in which they were
\* enqueued, each to one worker, and the threads call the queue as its promise
\* (which LockFreeQueue implements) allows: FIFO(s, p)!Spec for every s and p.
QueuesAreFIFO ==
  /\ \A s \in Systems, p \in Priorities : FIFO(s, p)!Init
  /\ [][\A s \in Systems, p \in Priorities :
         UNCHANGED FIFO(s, p)!vars \/ FIFO(s, p)!Next]_vars
==============================================================================
