----------------------------- MODULE MCJobSystem -----------------------------
(***************************************************************************)
(* JobSystem, and its queues' refinement, for TLC.                         *)
(***************************************************************************)
EXTENDS JobSystemQueues, TLC

CONSTANTS w1, w2, c1, c2, s1, s2, a, b, c

\* Room for two jobs of every priority; and for one only of the high priority.
Two == [p \in Priorities |-> 2]
OneHigh == [Two EXCEPT !.High = 1]

\* No function waits; the function of a waits for b.
NobodyWaits == [j \in Jobs |-> NoJob]
AWaitsForB == [j \in Jobs |-> IF j = a THEN b ELSE NoJob]

\* Threads of a pool, and jobs whose functions do the same, may be permuted in the
\* runs that check no liveness.
Symmetry == Permutations(Workers) \cup Permutations(Jobs)
WorkerSymmetry == Permutations(Workers)
==============================================================================
