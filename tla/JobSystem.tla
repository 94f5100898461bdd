------------------------------ MODULE JobSystem ------------------------------
(***************************************************************************)
(* Jobs, their three priority queues, the worker threads that run them and  *)
(* the client threads that create them, schedule them and wait for them     *)
(* (JobSystemManager.cpp, Job.cpp, JobSystemManager.h, Job.h,               *)
(* JobFuncWrapper.h, JobResult.h).                                          *)
(*                                                                         *)
(* A step of a thread is one access to something threads share: an atomic   *)
(* of a job, a call of a queue taking effect, a queue's m_size, the user    *)
(* data of a worker, the manager's m_shuttingDown.  Queue calls behave as   *)
(* BoundedFIFO says: a call takes effect in one step, its update of m_size  *)
(* is another, and in between other threads may be answered "full" or       *)
(* "empty".                                                                 *)
(***************************************************************************)
EXTENDS Integers, Sequences, FiniteSets, SequencesExt

CONSTANTS
  Workers,        \* the threads of the manager's pool
  Clients,        \* the threads that use the library
  Main,           \* the client that initialised the manager
  Jobs,
  NoJob,          \* the null shared pointer
  Systems,        \* the job systems
  Capacity,       \* the size of each priority's queue (JobQueueOptions)
  SizeMod,        \* sizes are summed as uint32_t
  WaitsOn,        \* WaitsOn[j]: the job that j's function waits for, or NoJob
  JobPriorities,  \* the priorities clients ask for
  MaxWaitList     \* bound of the model: the jobs one wait list holds

Threads == Workers \cup Clients

Priorities == {"High", "Normal", "Low"}

JobStates == {"Queued", "Running", "Waiting", "Finished", "Canceled"}

ASSUME JobSystemAssumption ==
  /\ Main \in Clients
  /\ Workers \cap Clients = {}
  /\ NoJob \notin Jobs
  /\ Capacity \in [Priorities -> Nat \ {0}]
  /\ SizeMod \in Nat \ {0}
  /\ WaitsOn \in [Jobs -> Jobs \cup {NoJob}]
  /\ JobPriorities \subseteq Priorities
  /\ MaxWaitList \in Nat

VARIABLES
  created,       \* the jobs that have been constructed
  jobState,      \* m_state of each job
  locked,        \* m_locked
  children,      \* m_childrenJobs
  priority,      \* m_priority
  ready,         \* m_isReady of the job's result
  queue,         \* the jobs in each queue of each system, oldest first
  size,          \* m_size of each queue
  shuttingDown,  \* m_shuttingDown
  terminated,    \* an exception has left a worker: std::terminate ended the process
  userdata,      \* m_userData.System of each worker
  pc,            \* the statement each thread is at
  sys,           \* the system a thread's statement works on
  scan,          \* the priority of the queue it works on
  job,           \* the job a worker runs or holds, or a client schedules
  idx,           \* the loop variable i of a worker, the list position of a waiter
  span,          \* of a dequeue under way, see BoundedFIFO
  waitList,      \* the jobs a client waits for
  pending        \* the sum a client in WaitForAll has read so far

jobVars    == <<created, jobState, locked, children, priority, ready>>
queueVars  == <<queue, size, span>>
globalVars == <<shuttingDown, terminated, userdata>>
threadVars == <<pc, sys, scan, job, idx, waitList, pending>>
vars == <<jobVars, queueVars, globalVars, threadVars>>

WorkerPCs == {"loop", "getSystem", "children", "putChild", "countChild", "unlock",
              "dequeue", "countTake", "call", "running", "exited"}
ClientPCs == {"idle", "put", "countPut", "waiting", "waitAll", "waitRunning",
              "joining"}

TypeOK ==
  /\ created \subseteq Jobs
  /\ jobState \in [Jobs -> JobStates]
  /\ locked \in [Jobs -> BOOLEAN]
  /\ children \in [Jobs -> Seq(Jobs)]
  /\ priority \in [Jobs -> Priorities]
  /\ ready \in [Jobs -> BOOLEAN]
  /\ queue \in [Systems -> [Priorities -> Seq(Jobs)]]
  /\ size \in [Systems -> [Priorities -> 0 .. SizeMod - 1]]
  /\ shuttingDown \in BOOLEAN
  /\ terminated \in BOOLEAN
  /\ userdata \in [Workers -> Systems]
  /\ pc \in [Threads -> WorkerPCs \cup ClientPCs]
  /\ \A w \in Workers : pc[w] \in WorkerPCs
  /\ \A c \in Clients : pc[c] \in ClientPCs
  /\ sys \in [Threads -> Systems]
  /\ scan \in [Threads -> Priorities]
  /\ job \in [Threads -> Jobs \cup {NoJob}]
  /\ idx \in [Threads -> Nat]
  /\ span \in [Threads -> Nat]
  /\ waitList \in [Clients -> Seq(Jobs)]
  /\ pending \in [Clients -> 0 .. SizeMod - 1]

------------------------------------------------------------------------------
\* Initially nothing is created; the fields of a job have the values its
\* constructor gives them (Queued, locked, no children, no result).  The sizes
\* start at zero, as they do in static storage (see LockFreeQueue).
Init ==
  /\ created = {}
  /\ jobState = [j \in Jobs |-> "Queued"]
  /\ locked = [j \in Jobs |-> TRUE]
  /\ children = [j \in Jobs |-> << >>]
  /\ priority \in [Jobs -> {"Low"}]
  /\ ready = [j \in Jobs |-> FALSE]
  /\ queue = [s \in Systems |-> [p \in Priorities |-> << >>]]
  /\ size = [s \in Systems |-> [p \in Priorities |-> 0]]
  /\ shuttingDown = FALSE
  /\ terminated = FALSE
  /\ userdata \in [Workers -> Systems]
  /\ pc = [t \in Threads |-> IF t \in Workers THEN "loop" ELSE "idle"]
  /\ sys \in {[t \in Threads |-> s] : s \in Systems}
  /\ scan = [t \in Threads |-> "High"]
  /\ job = [t \in Threads |-> NoJob]
  /\ idx = [t \in Threads |-> 0]
  /\ span = [t \in Threads |-> 0]
  /\ waitList = [c \in Clients |-> << >>]
  /\ pending = [c \in Clients |-> 0]

Goto(t, from, to) == pc[t] = from /\ pc' = [pc EXCEPT ![t] = to]

------------------------------------------------------------------------------
\* The queues, as BoundedFIFO has them.

Child(w) == children[job[w]][idx[w]]

\* The enqueues and dequeues of a queue that have taken effect and not returned.
Enqueued(s, p) ==
  {t \in Threads : pc[t] \in {"countChild", "countPut"} /\ sys[t] = s /\ scan[t] = p}
Taken(s, p) ==
  {t \in Threads : pc[t] = "countTake" /\ sys[t] = s /\ scan[t] = p}

\* The job such an enqueue has put.
Put(t) == IF t \in Workers THEN Child(t) ELSE job[t]

Enqueue(s, p, j) ==
  /\ Len(queue[s][p]) < Capacity[p]
  /\ queue' = [queue EXCEPT ![s][p] = Append(@, j)]
  /\ span' = [t \in Threads |-> IF t \in Taken(s, p) THEN span[t] + 1 ELSE span[t]]

MayAnswerFull(s, p) ==
  Len(queue[s][p]) < Capacity[p] => \E t \in Taken(s, p) : span[t] >= Capacity[p]

\* Mutants: the job stays in the queue; the newest job is taken.
DequeueAndKeep(t, s, p) ==
  /\ queue[s][p] # << >>
  /\ job' = [job EXCEPT ![t] = Head(queue[s][p])]
  /\ span' = [span EXCEPT ![t] = Len(queue[s][p])]
  /\ UNCHANGED queue

DequeueNewest(t, s, p) ==
  /\ queue[s][p] # << >>
  /\ job' = [job EXCEPT ![t] = Last(queue[s][p])]
  /\ queue' = [queue EXCEPT ![s][p] = Front(@)]
  /\ span' = [span EXCEPT ![t] = Len(queue[s][p])]

Dequeue(t, s, p) ==
  /\ queue[s][p] # << >>
  /\ job' = [job EXCEPT ![t] = Head(queue[s][p])]
  /\ queue' = [queue EXCEPT ![s][p] = Tail(@)]
  /\ span' = [span EXCEPT ![t] = Len(queue[s][p])]

MayAnswerEmpty(s, p) ==
  queue[s][p] # << >> => \E t \in Enqueued(s, p) : Put(t) = Head(queue[s][p])

\* Mutants: m_size does not wrap; a dequeue does not count down.
CountUnbounded(s, p, n) == size' = [size EXCEPT ![s][p] = @ + n]

CountUpOnly(s, p, n) ==
  size' = [size EXCEPT ![s][p] = IF n > 0 THEN (@ + n) % SizeMod ELSE @]

\* m_size after an enqueue or a dequeue; both wrap.
Count(s, p, n) == size' = [size EXCEPT ![s][p] = (@ + n) % SizeMod]

NextPriority == [High |-> "Normal", Normal |-> "Low"]

------------------------------------------------------------------------------
\* ThreadCallback_Worker and JobQueue::GetNextJob

\* Mutant: m_shuttingDown is not tested.
LoopForever(w) ==
  /\ Goto(w, "loop", "getSystem")
  /\ UNCHANGED job
  /\ UNCHANGED <<jobVars, queueVars, globalVars, sys, scan, idx, waitList, pending>>

\* while (!js_manager->IsShuttingDown()).  A worker that leaves the loop drops
\* the job it has just run: GetNextJob is not called for it any more.
LoopTest(w) ==
  /\ IF shuttingDown
       THEN Goto(w, "loop", "exited") /\ job' = [job EXCEPT ![w] = NoJob]
       ELSE Goto(w, "loop", "getSystem") /\ UNCHANGED job
  /\ UNCHANGED <<jobVars, queueVars, globalVars, sys, scan, idx, waitList, pending>>

\* thread->GetUserdata().System, read under the worker's mutex and used unlocked.
GetSystem(w) ==
  /\ Goto(w, "getSystem", IF job[w] = NoJob THEN "dequeue" ELSE "children")
  /\ sys' = [sys EXCEPT ![w] = userdata[w]]
  /\ idx' = [idx EXCEPT ![w] = IF job[w] = NoJob THEN 0 ELSE 1]
  /\ UNCHANGED <<jobVars, queueVars, globalVars, scan, job, waitList, pending>>

\* One turn of the loop over the children of the job that has been run: the job
\* is Waiting, and the child goes to the queue of the job's priority.
NextChild(w) ==
  /\ Goto(w, "children", "putChild")
  /\ idx[w] <= Len(children[job[w]])
  /\ jobState' = [jobState EXCEPT ![job[w]] = "Waiting"]
  /\ scan' = [scan EXCEPT ![w] = priority[job[w]]]
  /\ UNCHANGED <<created, locked, children, priority, ready, queueVars, globalVars,
                 sys, job, idx, waitList, pending>>

PutChild(w) ==
  /\ Goto(w, "putChild", "countChild")
  /\ Enqueue(sys[w], scan[w], Child(w))
  /\ UNCHANGED <<jobVars, size, globalVars, sys, scan, job, idx, waitList, pending>>

\* The overflow_error that ScheduleJob throws leaves the worker's callback: the
\* process ends in std::terminate.
PutChildFull(w) ==
  /\ pc[w] = "putChild"
  /\ MayAnswerFull(sys[w], scan[w])
  /\ terminated' = TRUE
  /\ UNCHANGED <<jobVars, queueVars, shuttingDown, userdata, threadVars>>

\* Mutant: the loop variable stays, and the child is enqueued again.
CountChildStay(w) ==
  /\ Goto(w, "countChild", "children")
  /\ Count(sys[w], scan[w], 1)
  /\ UNCHANGED <<jobVars, queue, span, globalVars, sys, scan, job, idx, waitList, pending>>

CountChild(w) ==
  /\ Goto(w, "countChild", "children")
  /\ Count(sys[w], scan[w], 1)
  /\ idx' = [idx EXCEPT ![w] = @ + 1]
  /\ UNCHANGED <<jobVars, queue, span, globalVars, sys, scan, job, waitList, pending>>

\* Mutant: the loop over the children ends one child early.
FinishEarly(w) ==
  /\ Goto(w, "children", "unlock")
  /\ idx[w] >= Len(children[job[w]])
  /\ jobState' = [jobState EXCEPT ![job[w]] = "Finished"]
  /\ UNCHANGED <<created, locked, children, priority, ready, queueVars, globalVars,
                 sys, scan, job, idx, waitList, pending>>

Finish(w) ==
  /\ Goto(w, "children", "unlock")
  /\ idx[w] > Len(children[job[w]])
  /\ jobState' = [jobState EXCEPT ![job[w]] = "Finished"]
  /\ UNCHANGED <<created, locked, children, priority, ready, queueVars, globalVars,
                 sys, scan, job, idx, waitList, pending>>

\* Mutants: the worker does not let go of the job; the job stays locked.
ReleaseLockAndKeep(w) ==
  /\ Goto(w, "unlock", "dequeue")
  /\ locked' = [locked EXCEPT ![job[w]] = FALSE]
  /\ idx' = [idx EXCEPT ![w] = 0]
  /\ scan' = [scan EXCEPT ![w] = "High"]
  /\ UNCHANGED <<created, jobState, children, priority, ready, queueVars, globalVars,
                 sys, job, waitList, pending>>

KeepLock(w) ==
  /\ Goto(w, "unlock", "dequeue")
  /\ job' = [job EXCEPT ![w] = NoJob]
  /\ idx' = [idx EXCEPT ![w] = 0]
  /\ scan' = [scan EXCEPT ![w] = "High"]
  /\ UNCHANGED <<created, jobState, locked, children, priority, ready, queueVars, globalVars,
                 sys, waitList, pending>>

\* ReleaseLock, after which the worker lets go of the job and looks for another.
ReleaseLock(w) ==
  /\ Goto(w, "unlock", "dequeue")
  /\ locked' = [locked EXCEPT ![job[w]] = FALSE]
  /\ job' = [job EXCEPT ![w] = NoJob]
  /\ idx' = [idx EXCEPT ![w] = 0]
  /\ scan' = [scan EXCEPT ![w] = "High"]
  /\ UNCHANGED <<created, jobState, children, priority, ready, queueVars, globalVars,
                 sys, waitList, pending>>

\* The three dequeue calls, one after the other until one answers true.
TakeJob(w) ==
  /\ Goto(w, "dequeue", "countTake")
  /\ Dequeue(w, sys[w], scan[w])
  /\ UNCHANGED <<jobVars, size, globalVars, sys, scan, idx, waitList, pending>>

TryNextQueue(w) ==
  /\ pc[w] = "dequeue"
  /\ scan[w] # "Low"
  /\ MayAnswerEmpty(sys[w], scan[w])
  /\ scan' = [scan EXCEPT ![w] = NextPriority[@]]
  /\ UNCHANGED <<jobVars, queueVars, globalVars, pc, sys, job, idx, waitList, pending>>

\* Nothing to do: the worker sleeps a millisecond and tests the loop again.
FindNothing(w) ==
  /\ Goto(w, "dequeue", "loop")
  /\ scan[w] = "Low"
  /\ MayAnswerEmpty(sys[w], scan[w])
  /\ scan' = [scan EXCEPT ![w] = "High"]
  /\ UNCHANGED <<jobVars, queueVars, globalVars, sys, job, idx, waitList, pending>>

\* Mutant: a job just taken is treated as one that has been run.
CountTakeNoCall(w) ==
  /\ Goto(w, "countTake", "getSystem")
  /\ Count(sys[w], scan[w], -1)
  /\ span' = [span EXCEPT ![w] = 0]
  /\ scan' = [scan EXCEPT ![w] = "High"]
  /\ UNCHANGED <<jobVars, queue, globalVars, sys, job, idx, waitList, pending>>

CountTake(w) ==
  /\ Goto(w, "countTake", "call")
  /\ Count(sys[w], scan[w], -1)
  /\ span' = [span EXCEPT ![w] = 0]
  /\ scan' = [scan EXCEPT ![w] = "High"]
  /\ UNCHANGED <<jobVars, queue, globalVars, sys, job, idx, waitList, pending>>

\* Mutant: the job is unlocked when its function starts.
CallUnlocks(w) ==
  /\ Goto(w, "call", "running")
  /\ jobState' = [jobState EXCEPT ![job[w]] = "Running"]
  /\ locked' = [locked EXCEPT ![job[w]] = FALSE]
  /\ UNCHANGED <<created, children, priority, ready, queueVars, globalVars,
                 sys, scan, job, idx, waitList, pending>>

\* IJob::Call: the job is Running, then its function runs; the function may wait
\* for another job (IJob::Wait spins until that job is unlocked), and its result
\* is stored when it returns.
Call(w) ==
  /\ Goto(w, "call", "running")
  /\ jobState' = [jobState EXCEPT ![job[w]] = "Running"]
  /\ UNCHANGED <<created, locked, children, priority, ready, queueVars, globalVars,
                 sys, scan, job, idx, waitList, pending>>

FunctionReturns(w) ==
  /\ Goto(w, "running", "loop")
  /\ WaitsOn[job[w]] # NoJob => ~locked[WaitsOn[job[w]]]
  /\ ready' = [ready EXCEPT ![job[w]] = TRUE]
  /\ UNCHANGED <<created, jobState, locked, children, priority, queueVars, globalVars,
                 sys, scan, job, idx, waitList, pending>>

WorkerStep(w) ==
  \/ LoopTest(w) \/ GetSystem(w)
  \/ NextChild(w) \/ PutChild(w) \/ PutChildFull(w) \/ CountChild(w)
  \/ Finish(w) \/ ReleaseLock(w)
  \/ TakeJob(w) \/ TryNextQueue(w) \/ FindNothing(w) \/ CountTake(w)
  \/ Call(w) \/ FunctionReturns(w)

------------------------------------------------------------------------------
\* The clients

\* CreateJob: a new job, Queued and locked, with the priority it is given.
CreateJob(c, j, p) ==
  /\ pc[c] = "idle"
  /\ j \notin created
  /\ created' = created \cup {j}
  /\ priority' = [priority EXCEPT ![j] = p]
  /\ UNCHANGED <<jobState, locked, children, ready, queueVars, globalVars, threadVars>>

\* IJob::Then creates a job of the same priority and appends it to the children.
\* Nothing protects m_childrenJobs: the clients keep away while a worker goes
\* through it.  They may come too late, when the job has finished.
Then(c, parent, j) ==
  /\ pc[c] = "idle"
  /\ parent \in created
  /\ j \notin created
  /\ \A w \in Workers : job[w] = parent => pc[w] \notin {"children", "putChild", "countChild"}
  /\ created' = created \cup {j}
  /\ priority' = [priority EXCEPT ![j] = priority[parent]]
  /\ children' = [children EXCEPT ![parent] = Append(@, j)]
  /\ UNCHANGED <<jobState, locked, ready, queueVars, globalVars, threadVars>>

InQueue(j) == \E s \in Systems, p \in Priorities : j \in ToSet(queue[s][p])
IsChild(j) == \E k \in Jobs : j \in ToSet(children[k])

\* A job a client may schedule: the clients schedule a job once, and leave the
\* children to the workers.
Unscheduled(j) ==
  /\ j \in created
  /\ jobState[j] = "Queued"
  /\ ~IsChild(j)
  /\ ~InQueue(j)
  /\ \A t \in Threads : job[t] # j

\* JobSystem::ScheduleJob, of the priority given or of the job's own.
ScheduleJob(c, s, j, p) ==
  /\ Goto(c, "idle", "put")
  /\ Unscheduled(j)
  /\ job' = [job EXCEPT ![c] = j]
  /\ sys' = [sys EXCEPT ![c] = s]
  /\ scan' = [scan EXCEPT ![c] = p]
  /\ UNCHANGED <<jobVars, queueVars, globalVars, idx, waitList, pending>>

PutJob(c) ==
  /\ Goto(c, "put", "countPut")
  /\ Enqueue(sys[c], scan[c], job[c])
  /\ UNCHANGED <<jobVars, size, globalVars, sys, scan, job, idx, waitList, pending>>

\* The client catches the overflow_error; it may schedule the job again.
PutJobFull(c) ==
  /\ Goto(c, "put", "idle")
  /\ MayAnswerFull(sys[c], scan[c])
  /\ job' = [job EXCEPT ![c] = NoJob]
  /\ scan' = [scan EXCEPT ![c] = "High"]
  /\ UNCHANGED <<jobVars, queueVars, globalVars, sys, idx, waitList, pending>>

CountPut(c) ==
  /\ Goto(c, "countPut", "idle")
  /\ Count(sys[c], scan[c], 1)
  /\ job' = [job EXCEPT ![c] = NoJob]
  /\ scan' = [scan EXCEPT ![c] = "High"]
  /\ UNCHANGED <<jobVars, queue, span, globalVars, sys, idx, waitList, pending>>

\* JobWaitList::Wait, and IJob::Wait for a list of one job: the list is scanned
\* from the start until a scan meets no locked job.
Wait(c, js) ==
  /\ Goto(c, "idle", "waiting")
  /\ ToSet(js) \subseteq created
  /\ waitList' = [waitList EXCEPT ![c] = js]
  /\ idx' = [idx EXCEPT ![c] = 1]
  /\ UNCHANGED <<jobVars, queueVars, globalVars, sys, scan, job, pending>>

\* Mutant: one unlocked job ends the scan.
CheckLockAny(c) ==
  /\ pc[c] = "waiting"
  /\ idx[c] <= Len(waitList[c])
  /\ idx' = [idx EXCEPT ![c] = IF locked[waitList[c][@]] THEN 1 ELSE Len(waitList[c]) + 1]
  /\ UNCHANGED <<jobVars, queueVars, globalVars, pc, sys, scan, job, waitList, pending>>

CheckLock(c) ==
  /\ pc[c] = "waiting"
  /\ idx[c] <= Len(waitList[c])
  /\ idx' = [idx EXCEPT ![c] = IF locked[waitList[c][@]] THEN 1 ELSE @ + 1]
  /\ UNCHANGED <<jobVars, queueVars, globalVars, pc, sys, scan, job, waitList, pending>>

WaitReturns(c) ==
  /\ Goto(c, "waiting", "idle")
  /\ idx[c] > Len(waitList[c])
  /\ waitList' = [waitList EXCEPT ![c] = << >>]
  /\ idx' = [idx EXCEPT ![c] = 0]
  /\ UNCHANGED <<jobVars, queueVars, globalVars, sys, scan, job, pending>>

\* No job is ever put into m_jobRunningQueue.
GetRunningJobsCount(s) == 0

\* JobSystem::WaitForAll adds up the three sizes, one load after the other, and
\* starts again after a millisecond while the sum is not zero.
WaitForAll(c, s) ==
  /\ Goto(c, "idle", "waitAll")
  /\ sys' = [sys EXCEPT ![c] = s]
  /\ UNCHANGED <<jobVars, queueVars, globalVars, scan, job, idx, waitList, pending>>

\* Mutant: a size replaces the sum.
ReadSizeAlone(c) ==
  /\ pc[c] = "waitAll"
  /\ scan[c] # "Low"
  /\ pending' = [pending EXCEPT ![c] = size[sys[c]][scan[c]]]
  /\ scan' = [scan EXCEPT ![c] = NextPriority[@]]
  /\ UNCHANGED <<jobVars, queueVars, globalVars, pc, sys, job, idx, waitList>>

ReadSize(c) ==
  /\ pc[c] = "waitAll"
  /\ scan[c] # "Low"
  /\ pending' = [pending EXCEPT ![c] = (@ + size[sys[c]][scan[c]]) % SizeMod]
  /\ scan' = [scan EXCEPT ![c] = NextPriority[@]]
  /\ UNCHANGED <<jobVars, queueVars, globalVars, pc, sys, job, idx, waitList>>

ReadLastSize(c) ==
  /\ scan[c] = "Low"
  /\ LET sum == (pending[c] + size[sys[c]]["Low"]) % SizeMod
     IN  Goto(c, "waitAll",
              IF sum > 0 \/ GetRunningJobsCount(sys[c]) > 0 THEN "waitAll" ELSE "idle")
  /\ pending' = [pending EXCEPT ![c] = 0]
  /\ scan' = [scan EXCEPT ![c] = "High"]
  /\ UNCHANGED <<jobVars, queueVars, globalVars, sys, job, idx, waitList>>

\* JobSystemManager::Shutdown, by the main thread: the workers are told to leave
\* their loops, and a blocking call joins them all.
Shutdown(blocking) ==
  /\ Goto(Main, "idle", IF blocking THEN "joining" ELSE "idle")
  /\ shuttingDown' = TRUE
  /\ UNCHANGED <<jobVars, queueVars, terminated, userdata, sys, scan, job, idx,
                 waitList, pending>>

JoinReturns ==
  /\ Goto(Main, "joining", "idle")
  /\ \A w \in Workers : pc[w] = "exited"
  /\ UNCHANGED <<jobVars, queueVars, globalVars, sys, scan, job, idx, waitList, pending>>

WaitLists == UNION {[1 .. n -> Jobs] : n \in 1 .. MaxWaitList}

ClientCall(c) ==
  \/ \E j \in Jobs, p \in JobPriorities : CreateJob(c, j, p)
  \/ \E parent, j \in Jobs : Then(c, parent, j)
  \/ \E s \in Systems, j \in Jobs, p \in JobPriorities : ScheduleJob(c, s, j, p)
  \/ \E js \in WaitLists : Wait(c, js)
  \/ \E s \in Systems : WaitForAll(c, s)
  \/ c = Main /\ \E blocking \in BOOLEAN : Shutdown(blocking)

\* The steps by which a call that has been made goes on.
ClientStep(c) ==
  \/ PutJob(c) \/ PutJobFull(c) \/ CountPut(c)
  \/ CheckLock(c) \/ WaitReturns(c)
  \/ ReadSize(c) \/ ReadLastSize(c)
  \/ c = Main /\ JoinReturns

Next ==
  /\ ~terminated
  /\ \/ \E w \in Workers : WorkerStep(w)
     \/ \E c \in Clients : ClientCall(c) \/ ClientStep(c)

Spec == Init /\ [][Next]_vars

\* The operating system runs every thread.  Clients need not make any call, but
\* a call they have made goes on.
Fairness ==
  /\ \A w \in Workers : WF_vars(~terminated /\ WorkerStep(w))
  /\ \A c \in Clients : WF_vars(~terminated /\ ClientStep(c))

FairSpec == Spec /\ Fairness

------------------------------------------------------------------------------
\* Safety

\* A job nobody has started.
Fresh(j) == jobState[j] = "Queued" /\ locked[j] /\ ~ready[j]

\* What is true of the job a worker holds, by the statement the worker is at.
WorkerHolds(w) ==
  /\ pc[w] \in {"dequeue", "exited"} => job[w] = NoJob
  /\ pc[w] \notin {"dequeue", "exited", "loop", "getSystem"} => job[w] \in Jobs
  /\ pc[w] \in {"countTake", "call"} => Fresh(job[w])
  /\ pc[w] = "running" =>
       jobState[job[w]] = "Running" /\ locked[job[w]] /\ ~ready[job[w]]
  /\ pc[w] \in {"loop", "getSystem"} /\ job[w] # NoJob =>
       jobState[job[w]] = "Running" /\ locked[job[w]] /\ ready[job[w]]
  /\ pc[w] \in {"children", "putChild", "countChild"} =>
       /\ jobState[job[w]] \in {"Running", "Waiting"}
       /\ locked[job[w]] /\ ready[job[w]]
       /\ idx[w] >= 1
  /\ pc[w] \in {"putChild", "countChild"} => idx[w] <= Len(children[job[w]])
  /\ pc[w] = "unlock" =>
       jobState[job[w]] = "Finished" /\ locked[job[w]] /\ ready[job[w]]

WorkerInv == \A w \in Workers : WorkerHolds(w)

\* A job is with one worker at most.
OneWorker ==
  \A w, v \in Workers : job[w] = job[v] /\ job[w] # NoJob => w = v

\* A job in a queue is at one position, with no worker, and has not been started.
QueuedInv ==
  \A s \in Systems, p \in Priorities : \A i \in 1 .. Len(queue[s][p]) :
    /\ Fresh(queue[s][p][i])
    /\ \A w \in Workers : job[w] # queue[s][p][i]
    /\ \A r \in Systems, q \in Priorities : \A k \in 1 .. Len(queue[r][q]) :
         queue[s][p][i] = queue[r][q][k] => s = r /\ p = q /\ i = k

\* A job in no queue and with no worker, which nobody has started.
Free(j) ==
  /\ Fresh(j)
  /\ \A w \in Workers : job[w] # j
  /\ \A s \in Systems, p \in Priorities : \A i \in 1 .. Len(queue[s][p]) :
       queue[s][p][i] # j

\* A client about to enqueue a job is the only one to do so.
ClientInv ==
  \A c \in Clients :
    /\ pc[c] \in {"put", "countPut"} => job[c] \in created /\ ~IsChild(job[c])
    /\ pc[c] = "put" => Free(job[c])
    /\ pc[c] = "put" => \A d \in Clients : pc[d] = "put" /\ job[d] = job[c] => d = c
    /\ pc[c] = "waiting" => idx[c] >= 1

\* The i-th child of a job has not been enqueued: its parent's function has not
\* returned, or the worker that has run the parent has not come to it.
Unsent(parent, i) ==
  \/ ~ready[parent]
  \/ \E w \in Workers :
       /\ job[w] = parent
       /\ \/ pc[w] \in {"loop", "getSystem"}
          \/ pc[w] \in {"children", "putChild"} /\ idx[w] <= i
          \/ pc[w] = "countChild" /\ idx[w] < i

\* A job is the child of one parent at most, and free until the parent sends it.
ChildInv ==
  \A parent \in Jobs : \A i \in 1 .. Len(children[parent]) :
    /\ children[parent][i] \in created
    /\ Unsent(parent, i) => Free(children[parent][i])
    /\ \A other \in Jobs : \A k \in 1 .. Len(children[other]) :
         children[parent][i] = children[other][k] => parent = other /\ i = k

\* Nobody knows a job before it is created.
NotCreatedInv ==
  \A j \in Jobs \ created : Free(j) /\ \A c \in Clients : pc[c] = "put" => job[c] # j

\* A job that has a result has been started.
StartedInv == \A j \in Jobs : ready[j] => jobState[j] # "Queued"

\* Once a job is unlocked (and IJob::Wait lets its callers go) the function has
\* returned, the result is stored and the job is Finished.
UnlockedMeansDone ==
  \A j \in Jobs : ~locked[j] => jobState[j] = "Finished" /\ ready[j]

\* The jobs that a waiter's scan has passed are unlocked.
WaitInv ==
  \A c \in Clients : pc[c] = "waiting" =>
    \A i \in 1 .. Len(waitList[c]) : i < idx[c] => ~locked[waitList[c][i]]

\* The inductive invariant of the jobs.
JobInv ==
  /\ TypeOK
  /\ WorkerInv /\ OneWorker /\ QueuedInv /\ ClientInv
  /\ ChildInv /\ NotCreatedInv /\ StartedInv /\ UnlockedMeansDone
  /\ WaitInv

Scheduled(j) == InQueue(j) \/ \E w \in Workers : job[w] = j

\* A job that clients schedule once is run once: no two workers ever call its
\* function, together or one after the other.
RunsOnce ==
  [][\A w \in Workers :
       pc[w] = "call" /\ pc'[w] = "running" => jobState[job[w]] = "Queued"]_vars

\* A job made by Then is neither enqueued nor run before its parent's function
\* has returned.
ChildrenAfterParent ==
  \A parent \in Jobs : ~ready[parent] =>
    \A j \in ToSet(children[parent]) :
      jobState[j] = "Queued" /\ ~Scheduled(j)

\* m_size counts the jobs of its queue, up to the calls that have taken effect
\* and have not updated it: GetPendingJobsCount is exact when no call is under way.
SizesCountJobs ==
  \A s \in Systems, p \in Priorities :
    size[s][p] = (Len(queue[s][p]) - Cardinality(Enqueued(s, p))
                    + Cardinality(Taken(s, p))) % SizeMod

\* The life of a job: Queued, Running once, Waiting while its children are
\* enqueued, Finished for good.
Successors == [Queued |-> {"Running"}, Running |-> {"Waiting", "Finished"},
               Waiting |-> {"Finished"}, Finished |-> {}, Canceled |-> {}]
JobLifecycle ==
  [][\A j \in Jobs :
       jobState'[j] # jobState[j] => jobState'[j] \in Successors[jobState[j]]]_vars

\* A job that becomes Finished leaves no child behind: each has been enqueued.
FinishLeavesNoChild ==
  [][\A parent \in Jobs :
       jobState[parent] # "Finished" /\ jobState'[parent] = "Finished" =>
         \A j \in ToSet(children[parent]) : Scheduled(j) \/ jobState[j] # "Queued"]_vars

\* JobWaitList::Wait and IJob::Wait return when every job they were given is done.
WaitMeansDone ==
  [][\A c \in Clients :
       pc[c] = "waiting" /\ pc'[c] = "idle" =>
         \A j \in ToSet(waitList[c]) : jobState[j] = "Finished" /\ ready[j]]_vars

\* WaitForAll returns with the system's queues empty, if the caller is the only
\* thread that schedules jobs (there is one client and no job has children).
WaitForAllDrains ==
  [][\A c \in Clients :
       pc[c] = "waitAll" /\ pc'[c] = "idle"
         /\ Clients = {c} /\ (\A j \in Jobs : children[j] = << >>) =>
           \A p \in Priorities : queue[sys[c]][p] = << >>]_vars

------------------------------------------------------------------------------
\* Liveness, under FairSpec, for functions fewer of which wait than there are workers.

Stopped == shuttingDown \/ terminated

FewWait == Cardinality({j \in Jobs : WaitsOn[j] # NoJob}) < Cardinality(Workers)

\* The job that the function of j waits for, if any (Job.cpp:48), has been scheduled.
CanReturn(j) ==
  WaitsOn[j] # NoJob => Scheduled(WaitsOn[j]) \/ ~locked[WaitsOn[j]]

CanReturnNow(j) == WaitsOn[j] # NoJob => ~locked[WaitsOn[j]]

\* A job in a queue of a system that has a worker is eventually done; even one that waits
\* for another job, and so keeps its worker busy all the time.
JobsComplete ==
  FewWait => \A j \in Jobs, s \in Systems :
    (/\ \E p \in Priorities : j \in ToSet(queue[s][p])
     /\ \E w \in Workers : userdata[w] = s
     /\ CanReturn(j))
      ~> ~locked[j] \/ Stopped

\* So is a job attached by Then before its parent has run.
ChildrenComplete ==
  FewWait => \A parent, j \in Jobs :
    (/\ j \in ToSet(children[parent]) /\ Scheduled(parent) /\ ~ready[parent]
     /\ CanReturn(parent) /\ (CanReturn(j) \/ WaitsOn[j] = parent))
      ~> ~locked[j] \/ Stopped

\* So is a job that a worker has begun to run when the job it waits for is scheduled: the
\* other workers come to that one.
NestedWaitsComplete ==
  FewWait => \A j \in Jobs :
    WaitsOn[j] # NoJob /\ Scheduled(j) /\ Scheduled(WaitsOn[j]) ~> ~locked[j] \/ Stopped

\* Waiting for jobs that have all been scheduled comes to an end.
WaitsReturn ==
  FewWait => \A c \in Clients :
    (/\ pc[c] = "waiting"
     /\ \A j \in ToSet(waitList[c]) : (Scheduled(j) /\ CanReturn(j)) \/ ~locked[j])
      ~> pc[c] = "idle" \/ Stopped

\* WaitForAll comes to an end.
WaitForAllReturns ==
  \A c \in Clients : pc[c] = "waitAll" ~> pc[c] = "idle" \/ Stopped

\* A blocking Shutdown returns, as every worker leaves its loop; unless a function waits
\* for a job that stays in a queue now.
ShutdownReturns ==
  pc[Main] = "joining" ~>
    \/ pc[Main] = "idle" \/ terminated
    \/ \E w \in Workers : pc[w] = "running" /\ ~CanReturnNow(job[w])

------------------------------------------------------------------------------
\* What the repository says and the code does not do

\* WaitForAll returns when no job of the system is running any more (it tests
\* GetRunningJobsCount, and main.cpp lets the jobs use a local variable of the
\* caller that goes out of scope after the call).
WaitForAllFinishesJobs ==
  [][\A c \in Clients :
       pc[c] = "waitAll" /\ pc'[c] = "idle" =>
         \A w \in Workers : sys[w] = sys[c] => pc[w] \notin {"call", "running"}]_vars

\* "Shutdown all Jobs/Threads/Fibers": no job that was scheduled keeps its waiters
\* waiting after a blocking Shutdown.
ShutdownReleasesJobs ==
  [][pc[Main] = "joining" /\ pc'[Main] = "idle" =>
       \A j \in Jobs : InQueue(j) \/ jobState[j] # "Queued" => ~locked[j]]_vars
==============================================================================
