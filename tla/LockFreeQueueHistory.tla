------------------------- MODULE LockFreeQueueHistory -------------------------
(***************************************************************************)
(* LockFreeQueue with a history variable that remembers, of each enqueue    *)
(* under way, whether the queue has been full at any time since it started. *)
(***************************************************************************)
EXTENDS LockFreeQueue

VARIABLE wasFull

historyVars == <<vars, wasFull>>

\* Even if an item counts as in the queue until the dequeue that takes it returns.
Full == enqueue_pos - dequeue_pos + Cardinality(UncountedTakes) >= Capacity

HistoryInit == Init /\ wasFull = [t \in Threads |-> FALSE]

HistoryNext ==
  /\ Next
  /\ wasFull' = [t \in Threads |-> pc'[t] # "idle" /\ (wasFull[t] \/ Full')]

HistorySpec == HistoryInit /\ [][HistoryNext]_historyVars

\* An enqueue answers false, upon which JobQueue::ScheduleJob throws "Job Queue
\* is full!", only if the queue held Capacity jobs at some time during the call.
FullMeansFull ==
  [][\A t \in Threads :
       pc[t] = "enqCheck" /\ pc'[t] = "idle" => wasFull[t]]_historyVars
==============================================================================
