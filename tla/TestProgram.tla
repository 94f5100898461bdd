------------------------------ MODULE TestProgram ------------------------------
(***************************************************************************)
(* The test program (JobSystemTest/src/main.cpp) as a client of the         *)
(* manager: which of its calls it makes, and in which order.  The keys the  *)
(* program polls are choices; a thousand jobs are the jobs of Batch.        *)
(***************************************************************************)
EXTENDS JobSystemManager

CONSTANTS
  Local,         \* localJS
  LocalThreads,  \* the threads it asks for
  Starting,      \* startingJob
  Batch,         \* the jobs of the SHIFT key
  Keys           \* the keys the user presses

ASSUME TestProgramAssumption ==
  /\ Local \in Locals /\ LocalThreads \in Nat
  /\ Starting \in Roots /\ Batch \subseteq Roots \ {Starting}

VARIABLE line    \* where main() is

testVars == <<vars, line>>

TestInit == Init /\ line = "init"

\* A statement of main(), made when the call before it has returned.
Line(from, to) == At("idle") /\ line = from /\ line' = to

\* Whatever Init returns, the program goes on.
Initialise == Line("init", "create") /\ InitManager(Hardware)
CreateLocal == Line("create", "keys") /\ CreateLocalJobSystem(Local, LocalThreads)

Press(key, to) == key \in Keys /\ Line("keys", to) /\ UNCHANGED vars

\* The RETURN key gives the local system up, reserves threads of the main system for the
\* main system, and schedules a job there; the result is read without waiting for it.
PressReturn == Press("RETURN", "release")
ReleaseLocal == Line("release", "reserve") /\ ReleaseJobSystem(Local)
ReserveOne == Line("reserve", "schedule") /\ ReseveThreads(Main, 1)
ScheduleStarting ==
  /\ Line("schedule", "keys")
  /\ IF Starting \in sent THEN UNCHANGED vars ELSE ScheduleJob(Main, Starting)

\* The SHIFT key schedules the batch in the local system, if that has nothing pending,
\* and waits for its queues to drain.
PressShift == queue[Local] = {} /\ Press("SHIFT", "fill")
ScheduleBatch == Line("fill", "fill") /\ \E j \in Batch : ScheduleJob(Local, j)
BatchScheduled == Batch \subseteq sent /\ Line("fill", "waitAll") /\ UNCHANGED vars
\* Mutant: WaitForAll does not wait.
WaitForNothing == Line("waitAll", "keys") /\ UNCHANGED vars
WaitForAllReturns == queue[Local] = {} /\ Line("waitAll", "keys") /\ UNCHANGED vars

\* The SPACE key leaves the loop; then Release, Shutdown(true), the destructors of
\* localJS and of the manager.
PressSpace == Press("SPACE", "endRelease")
EndRelease == Line("endRelease", "shutdown") /\ ReleaseJobSystem(Local)
\* Mutant: Shutdown(false).
EndShutdownAsync == Line("shutdown", "drop") /\ Shutdown(FALSE)
EndShutdown == Line("shutdown", "drop") /\ Shutdown(TRUE)
DropLocal == Line("drop", "destroy") /\ Drop(Local)
DestroyAll == Line("destroy", "done") /\ DestroyManager

MainProgram ==
  \/ Initialise \/ CreateLocal
  \/ PressReturn \/ ReleaseLocal \/ ReserveOne \/ ScheduleStarting
  \/ PressShift \/ ScheduleBatch \/ BatchScheduled \/ WaitForAllReturns
  \/ PressSpace \/ EndRelease \/ EndShutdown \/ DropLocal \/ DestroyAll

TestNext ==
  /\ fault = "none"
  /\ \/ MainProgram
     \/ (phase # "deleted" /\ MainStep(SpawnMayFail)) /\ UNCHANGED line
     \/ (\E t \in Threads : WorkerStep(t)) /\ UNCHANGED line

\* main() goes on except where it polls the keys.
TestSpec ==
  /\ TestInit /\ [][TestNext]_testVars
  /\ WF_testVars(fault = "none" /\ line # "keys" /\ MainProgram)
  /\ WF_testVars(fault = "none" /\ MainStep(SpawnMayFail) /\ UNCHANGED line)
  /\ \A t \in Threads : WF_testVars(fault = "none" /\ WorkerStep(t) /\ UNCHANGED line)

------------------------------------------------------------------------------
\* From its first call to the destructor of the manager, the program meets no undefined
\* behaviour but one: a system that the RETURN key has released is released again
\* (main.cpp:68-208, JobSystemManager.cpp:357).
NoFaultInProgram == fault \in {"none", "eraseEnd"}

\* The jobs of the batch are all taken before WaitForAll lets main() go on to Release:
\* none is cancelled (main.cpp:170-183, 201).
BatchIsNotCanceled == \A j \in Batch : jobState[j] # "Canceled"

\* Once the loop is left, and if the local system is there to be released, the program ends
\* and has joined every thread (main.cpp:199-206).
ProgramEnds ==
  line = "endRelease" /\ Registered(Local)
    ~> (phase = "deleted" /\ \A t \in Threads : handle[t] # "joinable")

\* "localJS->WaitForAll();" (main.cpp:183) returns.
BatchIsAwaited == line = "waitAll" ~> line # "waitAll"

\* "localJS->Release();" (main.cpp:201) releases a system the manager has.
ReleasesWhatIsThere == [][EndRelease => Registered(Local)]_testVars
==============================================================================
