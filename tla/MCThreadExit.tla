----------------------------- MODULE MCThreadExit -----------------------------
(***************************************************************************)
(* ThreadExit for TLC.                                                     *)
(***************************************************************************)
EXTENDS ThreadExit, TLC

CONSTANTS p1, p2, p3, p4, q1, q2, t1, t2, t3

\* Two queues with two producers each.
TwoEach == [q \in Queues |-> IF q = q1 THEN {p1, p2} ELSE {p3, p4}]
==============================================================================
