-------------------------- MODULE MCJobSystemManager --------------------------
(***************************************************************************)
(* JobSystemManager for TLC: a client that keeps to the rules of Client     *)
(* while every thread can be spawned; and one that keeps to none, while     *)
(* std::thread may fail.  The second schedules no jobs.                     *)
(***************************************************************************)
EXTENDS JobSystemManager, TLC

CONSTANTS s1, s2, a, b, AnyCalls

VARIABLE rules   \* whether the client keeps to the rules

\* a has the child b.
AThenB == [j \in Jobs |-> IF j = a THEN <<b>> ELSE << >>]

EitherInit == Init /\ rules \in BOOLEAN
EitherNext ==
  /\ \/ rules /\ Next
     \/ ~ rules /\ NextWith(AnyCalls, TRUE)
  /\ UNCHANGED rules
EitherSpec == EitherInit /\ [][EitherNext]_<<vars, rules>>

------------------------------------------------------------------------------
\* Whatever the client does, every thread is in one list, the main system keeps one, and
\* the counts that Shutdown goes by are the lengths of the lists
\* (JobSystemManager.cpp:210-223, 336, 343-348).
ThreadsInv == TypeOK /\ OwnedOnce /\ MainKeepsAThread /\ CountsMatch

\* A client that keeps to the rules never meets undefined behaviour, a failed assertion or
\* std::terminate (JobSystemManager.cpp:237, 255, 259, 357, 451).
RulesAvoidFaults == rules => NoFault

\* What it has scheduled in a system is not left there by Release, but for children that a
\* worker sends late (JobSystemManager.cpp:106, 450).
ReleaseCancels == rules => OnlyLateChildrenAreLeft

\* When its blocking Shutdown returns, every thread that was spawned has been joined
\* (JobSystemManager.h:191, JobSystemManager.cpp:235-238).
ShutdownJoins ==
  [][rules /\ ShutdownReturns /\ call.blocking =>
       \A t \in Threads : handle[t] # "joinable"]_<<vars, rules>>
==============================================================================
