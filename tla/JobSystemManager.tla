--------------------------- MODULE JobSystemManager ---------------------------
(***************************************************************************)
(* The life cycle of the manager, its job systems and its threads           *)
(* (JobSystemManager.cpp, JobSystemManager.h, Thread.cpp, Thread.h, TLS.h): *)
(* threads are spawned, move between systems, and are joined; systems are   *)
(* created, released and destroyed while workers use them.                  *)
(*                                                                         *)
(* All calls of the manager are made by one thread, the main thread; `call` *)
(* is the call it is in.  A step is one access to what workers share with   *)
(* it: the user data of a thread, m_shuttingDown, a queue, a job.  The      *)
(* vectors of threads and of systems belong to the main thread and change   *)
(* along with the step next to them.  The three priorities are one set of   *)
(* jobs here and are never full: JobSystem has the queues in detail.        *)
(***************************************************************************)
EXTENDS Integers, Sequences, FiniteSets, SequencesExt

CONSTANTS
  Hardware,       \* std::thread::hardware_concurrency()
  Locals,         \* the local job systems clients create
  Main,           \* m_mainJobSystem
  NoSystem,       \* the null pointer
  Jobs,
  NoJob,
  ChildrenOf,     \* m_childrenJobs of each job
  ThreadAffinity, \* m_current_options.ThreadAffinity
  SpawnMayFail,   \* whether std::thread may throw std::system_error
  Debug,          \* whether assert is compiled
  Calls           \* the calls the client makes, see Client

Threads == 1 .. Hardware
Systems == Locals \cup {Main}
NoThread == 0   \* what lies behind the end of m_threads

ASSUME ManagerAssumption ==
  /\ Hardware \in Nat
  /\ Main \notin Locals /\ NoSystem \notin Systems
  /\ NoJob \notin Jobs
  /\ ChildrenOf \in [Jobs -> Seq(Jobs)]
     \* Then makes each child, for one parent (Job.h:80-90).
  /\ \A p, q \in Jobs : \A m \in DOMAIN ChildrenOf[p], n \in DOMAIN ChildrenOf[q] :
       ChildrenOf[p][m] = ChildrenOf[q][n] => p = q /\ m = n
  /\ {ThreadAffinity, SpawnMayFail, Debug} \subseteq BOOLEAN

Roots == Jobs \ UNION {ToSet(ChildrenOf[j]) : j \in Jobs}

VARIABLES
  phase,         \* of m_allThreads: null, being spawned, in use, left by an
                 \* exception, deleted
  returned,      \* what the last Init returned
  handle,        \* m_handle of each thread
  hasId,         \* whether m_id is stored (HasSpawned)
  affinity,      \* whether the OS thread is bound to a core
  userdata,      \* m_userData.System
  threads,       \* m_threads of each system
  numThreads,    \* m_numThreads of each system
  mainIds,       \* the systems whose m_mainThreadId is the main thread's
  jobSystems,    \* m_jobSystems
  life,          \* of the local systems: none, alive, destroyed
  held,          \* the local systems the client holds a shared_ptr to
  shuttingDown,  \* m_shuttingDown
  call,          \* the call the main thread is in
  queue,         \* the jobs queued in each system
  sent,          \* the jobs that have been scheduled
  jobState, locked,
  pc, sys, job, idx, \* the workers: place, local `system`, `job`, `i`
  fault          \* undefined behaviour or an abort; the process ends

threadVars == <<handle, hasId, affinity, userdata>>
systemVars == <<threads, numThreads, mainIds, jobSystems, life, held>>
jobVars    == <<queue, sent, jobState, locked>>
workerVars == <<pc, sys, job, idx>>
vars == <<phase, returned, threadVars, systemVars, shuttingDown, call, jobVars,
          workerVars, fault>>

Faults == {"none", "eraseEnd", "emptySlot", "outOfRange", "assertion",
           "useAfterFree", "terminate"}

\* The main thread outside any call.  In a call: `at` is its place, `target` the
\* system that gets the threads `todo`, `then` what follows AddThreads, `local` the
\* system created or released, `ret` what follows the call, `slot` and `end` the
\* loop over m_allThreads or m_jobSystems, `rest` the systems still to be shut down.
Idle == [at |-> "idle", target |-> Main, todo |-> << >>, then |-> "idle",
         local |-> Main, ret |-> "idle", job |-> NoJob, slot |-> 1, end |-> 0,
         rest |-> << >>, blocking |-> FALSE]

ReturnCodes == {"Succes", "AlreadyInitialized", "InvalidNumThreads", "OSError"}

Places == {"idle", "spawn", "storeId", "setData", "cancel", "unlock", "erase",
           "nextSlot", "shutdown", "join", "delete"}

TypeOK ==
  /\ phase \in {"null", "spawning", "up", "failed", "deleted"}
  /\ returned \in ReturnCodes \cup {"none", "exception"}
  /\ handle \in [Threads -> {"none", "joinable", "joined"}]
  /\ hasId \in [Threads -> BOOLEAN] /\ affinity \in [Threads -> BOOLEAN]
  /\ userdata \in [Threads -> Systems \cup {NoSystem}]
  /\ threads \in [Systems -> Seq(Threads)]
  /\ numThreads \in [Systems -> 0 .. Hardware]
  /\ mainIds \subseteq Systems
  /\ jobSystems \in Seq(Locals)
  /\ life \in [Locals -> {"none", "alive", "destroyed"}]
  /\ held \subseteq Locals
  /\ shuttingDown \in BOOLEAN
  /\ DOMAIN call = DOMAIN Idle /\ call.at \in Places
  /\ queue \in [Systems -> SUBSET Jobs] /\ sent \subseteq Jobs
  /\ jobState \in [Jobs -> {"Queued", "Running", "Waiting", "Finished", "Canceled"}]
  /\ locked \in [Jobs -> BOOLEAN]
  /\ pc \in [Threads -> {"none", "start", "affinity", "loop", "getSystem", "children",
                         "unlock", "dequeue", "call", "running", "exited"}]
  /\ sys \in [Threads -> Systems \cup {NoSystem}]
  /\ job \in [Threads -> Jobs \cup {NoJob}] /\ idx \in [Threads -> Nat]
  /\ fault \in Faults

Init ==
  /\ phase = "null" /\ returned = "none"
  /\ handle = [t \in Threads |-> "none"]
  /\ hasId = [t \in Threads |-> FALSE] /\ affinity = [t \in Threads |-> FALSE]
  /\ userdata = [t \in Threads |-> NoSystem]
  /\ threads = [s \in Systems |-> << >>] /\ numThreads = [s \in Systems |-> 0]
  /\ mainIds = {} /\ jobSystems = << >>
  /\ life = [s \in Locals |-> "none"] /\ held = {}
  /\ shuttingDown = FALSE /\ call = Idle
  /\ queue = [s \in Systems |-> {}] /\ sent = {}
  /\ jobState = [j \in Jobs |-> "Queued"] /\ locked = [j \in Jobs |-> TRUE]
  /\ pc = [t \in Threads |-> "none"] /\ sys = [t \in Threads |-> NoSystem]
  /\ job = [t \in Threads |-> NoJob] /\ idx = [t \in Threads |-> 1]
  /\ fault = "none"

At(place) == call.at = place

\* The process ends, and nothing else changes.
Fault(f) ==
  /\ fault' = f
  /\ UNCHANGED <<phase, returned, threadVars, systemVars, shuttingDown, call, jobVars,
                 workerVars>>

Registered(s) == s \in ToSet(jobSystems)
HasSpawned(t) == hasId[t]
GetUserdata(t) == userdata[t]

------------------------------------------------------------------------------
\* JobSystemManager::Init.

InitReturns(code) ==
  /\ returned' = code
  /\ UNCHANGED <<phase, threadVars, systemVars, shuttingDown, call, jobVars, workerVars,
                 fault>>

InitManager(n) ==
  /\ At("idle")
  /\ CASE phase # "null" -> InitReturns("AlreadyInitialized")
       [] phase = "null" /\ n \notin Threads -> InitReturns("InvalidNumThreads")
       [] OTHER ->
            /\ phase' = "spawning"
            /\ call' = [Idle EXCEPT !.at = "spawn", !.end = n]
            /\ UNCHANGED <<returned, threadVars, systemVars, shuttingDown, jobVars,
                           workerVars, fault>>

\* The new thread runs the callback.
LaunchThread(t) == [pc EXCEPT ![t] = "start"]

\* SetThreadData and the construction of the std::thread, which runs from here on.
Spawn ==
  /\ At("spawn")
  /\ userdata' = [userdata EXCEPT ![call.slot] = Main]
  /\ pc' = LaunchThread(call.slot)
  /\ handle' = [handle EXCEPT ![call.slot] = "joinable"]
  /\ call' = [call EXCEPT !.at = "storeId"]
  /\ UNCHANGED <<phase, returned, hasId, affinity, systemVars, shuttingDown, jobVars, sys,
                 job, idx, fault>>

\* The constructor of std::thread throws, and the exception leaves Init.
SpawnThrows ==
  /\ At("spawn")
  /\ userdata' = [userdata EXCEPT ![call.slot] = Main]
  /\ phase' = "failed" /\ returned' = "exception" /\ call' = Idle
  /\ UNCHANGED <<handle, hasId, affinity, systemVars, shuttingDown, jobVars, workerVars,
                 fault>>

\* m_id = m_handle.get_id(), and the next thread; after the last one they are all
\* added to the main system.
StoreId ==
  /\ At("storeId")
  /\ hasId' = [hasId EXCEPT ![call.slot] = TRUE]
  /\ IF call.slot < call.end
     THEN /\ call' = [call EXCEPT !.at = "spawn", !.slot = @ + 1]
          /\ UNCHANGED <<threads, mainIds>>
     ELSE /\ LET all == [i \in 1 .. call.end |-> i] IN
               /\ threads' = [threads EXCEPT ![Main] = @ \o all]
               /\ call' = [Idle EXCEPT !.at = "setData", !.todo = all, !.then = "up"]
          /\ mainIds' = mainIds \cup {Main}
  /\ UNCHANGED <<phase, returned, handle, affinity, userdata, numThreads, jobSystems, life,
                 held, shuttingDown, jobVars, workerVars, fault>>

------------------------------------------------------------------------------
\* JobSystem::AddThreads: the list has grown, the threads are told one by one.

SetThreadData ==
  /\ At("setData") /\ call.todo # << >>
  /\ userdata' = [userdata EXCEPT ![Head(call.todo)] = call.target]
  /\ call' = [call EXCEPT !.todo = Tail(@)]
  /\ UNCHANGED <<phase, returned, handle, hasId, affinity, systemVars, shuttingDown,
                 jobVars, workerVars, fault>>

\* Mutant: m_numThreads is left as it was.
ThreadsAddedUncounted ==
  /\ At("setData") /\ call.todo = << >>
  /\ phase' = IF call.then = "up" THEN "up" ELSE phase
  /\ returned' = IF call.then = "up" THEN "Succes" ELSE returned
  /\ jobSystems' = IF call.then = "register" THEN Append(jobSystems, call.local)
                                             ELSE jobSystems
  /\ IF call.then = "remove"
     THEN /\ threads' = [threads EXCEPT ![call.local] = << >>]
          /\ call' = [call EXCEPT !.at = "cancel", !.then = "idle"]
     ELSE call' = Idle /\ UNCHANGED threads
  /\ UNCHANGED <<threadVars, numThreads, mainIds, life, held, shuttingDown, jobVars,
                 workerVars, fault>>

\* The count, and the end of Init, ReseveThreads or CreateLocalJobSystem (push_back), or
\* the RemoveThreads of ReleaseJobSystem.
ThreadsAdded ==
  /\ At("setData") /\ call.todo = << >>
  /\ numThreads' = [numThreads EXCEPT ![call.target] = Len(threads[call.target])]
  /\ phase' = IF call.then = "up" THEN "up" ELSE phase
  /\ returned' = IF call.then = "up" THEN "Succes" ELSE returned
  /\ jobSystems' = IF call.then = "register" THEN Append(jobSystems, call.local)
                                             ELSE jobSystems
  /\ IF call.then = "remove"
     THEN /\ threads' = [threads EXCEPT ![call.local] = << >>]
          /\ call' = [call EXCEPT !.at = "cancel", !.then = "idle"]
     ELSE call' = Idle /\ UNCHANGED threads
  /\ UNCHANGED <<threadVars, mainIds, life, held, shuttingDown, jobVars, workerVars, fault>>

------------------------------------------------------------------------------
\* ReseveThreads and CreateLocalJobSystem.

MayReserve(n) == ~ numThreads[Main] < n /\ numThreads[Main] - n > 0

\* Mutant: the threads stay in the main system's list.
MoveThreadsCopy(s, n, then) ==
  LET first == SubSeq(threads[Main], 1, n) IN
  /\ threads' = [threads EXCEPT ![s] = @ \o first]
  /\ numThreads' = [numThreads EXCEPT ![Main] = @ - n]
  /\ call' = [Idle EXCEPT !.at = "setData", !.target = s, !.todo = first,
                          !.then = then, !.local = s]

\* The first n threads of the main system go to s; `then` follows.
MoveThreads(s, n, then) ==
  LET first == SubSeq(threads[Main], 1, n)
      main  == [threads EXCEPT ![Main] = SubSeq(@, n + 1, Len(@))] IN
  /\ threads' = [main EXCEPT ![s] = @ \o first]
  /\ numThreads' = [numThreads EXCEPT ![Main] = @ - n]
  /\ call' = [Idle EXCEPT !.at = "setData", !.target = s, !.todo = first,
                          !.then = then, !.local = s]

\* Main stands for JobSystemManager::ReseveThreads(numThreads), which takes threads
\* from the main system for the main system.
ReseveThreads(s, n) ==
  /\ At("idle") /\ s \in held \cup {Main}
  /\ IF MayReserve(n) THEN MoveThreads(s, n, "idle")
                      ELSE UNCHANGED <<threads, numThreads, call>>
  /\ UNCHANGED <<phase, returned, threadVars, mainIds, jobSystems, life, held,
                 shuttingDown, jobVars, workerVars, fault>>

\* A failed reservation is ignored.
CreateLocalJobSystem(s, n) ==
  /\ At("idle") /\ life[s] = "none"
  /\ life' = [life EXCEPT ![s] = "alive"] /\ held' = held \cup {s}
  /\ mainIds' = IF phase = "null" THEN mainIds ELSE mainIds \cup {s}
  /\ IF MayReserve(n)
     THEN MoveThreads(s, n, "register") /\ UNCHANGED jobSystems
     ELSE /\ jobSystems' = Append(jobSystems, s)
          /\ UNCHANGED <<threads, numThreads, call>>
  /\ UNCHANGED <<phase, returned, threadVars, shuttingDown, jobVars, workerVars, fault>>

------------------------------------------------------------------------------
\* ReleaseJobSystem.

BeginRelease(s, frame) ==
  /\ threads' = [threads EXCEPT ![Main] = @ \o threads[s]]
  /\ call' = [frame EXCEPT !.at = "setData", !.target = Main, !.todo = threads[s],
                           !.then = "remove", !.local = s]

ReleaseJobSystem(s) ==
  /\ At("idle") /\ s \in held
  /\ BeginRelease(s, Idle)
  /\ UNCHANGED <<phase, returned, threadVars, numThreads, mainIds, jobSystems, life, held,
                 shuttingDown, jobVars, workerVars, fault>>

\* Mutant: the job is cancelled where it is.
CancelJobInPlace(j) ==
  /\ At("cancel") /\ j \in queue[call.local]
  /\ jobState' = [jobState EXCEPT ![j] = "Canceled"]
  /\ call' = [call EXCEPT !.at = "unlock", !.job = j]
  /\ UNCHANGED <<phase, returned, threadVars, systemVars, shuttingDown, queue, sent, locked,
                 workerVars, fault>>

\* JobQueue::Release: dequeue, SetState; ReleaseLock is the step after it.
CancelJob(j) ==
  /\ At("cancel") /\ j \in queue[call.local]
  /\ queue' = [queue EXCEPT ![call.local] = @ \ {j}]
  /\ jobState' = [jobState EXCEPT ![j] = "Canceled"]
  /\ call' = [call EXCEPT !.at = "unlock", !.job = j]
  /\ UNCHANGED <<phase, returned, threadVars, systemVars, shuttingDown, sent, locked,
                 workerVars, fault>>

UnlockCanceled ==
  /\ At("unlock")
  /\ locked' = [locked EXCEPT ![call.job] = FALSE]
  /\ call' = [call EXCEPT !.at = "cancel", !.job = NoJob]
  /\ UNCHANGED <<phase, returned, threadVars, systemVars, shuttingDown, queue, sent,
                 jobState, workerVars, fault>>

\* Mutant: an `if` instead of the `while`.
QueueClearedOnce ==
  /\ At("cancel")
  /\ call' = [call EXCEPT !.at = "erase"]
  /\ UNCHANGED <<phase, returned, threadVars, systemVars, shuttingDown, jobVars,
                 workerVars, fault>>

QueueCleared ==
  /\ At("cancel") /\ queue[call.local] = {}
  /\ call' = [call EXCEPT !.at = "erase"]
  /\ UNCHANGED <<phase, returned, threadVars, systemVars, shuttingDown, jobVars,
                 workerVars, fault>>

\* The last shared_ptr to a system destroys it.
Destroyed(lost) == [s \in Locals |-> IF s \in lost THEN "destroyed" ELSE life[s]]

EraseSystem ==
  /\ At("erase") /\ Registered(call.local)
  /\ jobSystems' = RemoveFirst(jobSystems, call.local)
  /\ life' = Destroyed({call.local} \ held)
  /\ call' = IF call.ret = "idle" THEN Idle ELSE [call EXCEPT !.at = call.ret]
  /\ UNCHANGED <<phase, returned, threadVars, threads, numThreads, mainIds, held,
                 shuttingDown, jobVars, workerVars, fault>>

\* find_if has found nothing: erase(end()).
EraseEnd == At("erase") /\ ~ Registered(call.local) /\ Fault("eraseEnd")

------------------------------------------------------------------------------
\* Shutdown and the destructor.

\* Mutant: the main system is forgotten.
BeginShutdownLocals(blocking, frame) ==
  /\ shuttingDown' = TRUE
  /\ call' = [frame EXCEPT !.at = "shutdown", !.blocking = blocking, !.rest = jobSystems]

BeginShutdown(blocking, frame) ==
  /\ shuttingDown' = TRUE
  /\ call' = [frame EXCEPT !.at = "shutdown", !.blocking = blocking,
                           !.rest = Append(jobSystems, Main)]

Shutdown(blocking) ==
  /\ At("idle")
  /\ BeginShutdown(blocking, Idle)
  /\ UNCHANGED <<phase, returned, threadVars, systemVars, jobVars, workerVars, fault>>

\* JobSystem::Shutdown of the next system: m_numThreads elements of m_threads.
ShutdownSystem ==
  /\ At("shutdown") /\ call.rest # << >>
  /\ LET s == Head(call.rest)
         element(i) == IF i <= Len(threads[s]) THEN threads[s][i] ELSE NoThread IN
     IF Debug /\ s \notin mainIds THEN Fault("assertion")
     ELSE /\ call' = [call EXCEPT !.at = "join", !.rest = Tail(@),
                        !.todo = IF call.blocking
                                 THEN [i \in 1 .. numThreads[s] |-> element(i)]
                                 ELSE << >>]
          /\ UNCHANGED <<phase, returned, threadVars, systemVars, shuttingDown, jobVars,
                         workerVars, fault>>

\* Thread::Join waits for the worker to leave its loop.
Join ==
  /\ At("join") /\ call.todo # << >>
  /\ LET t == Head(call.todo) IN
     IF t = NoThread THEN Fault("outOfRange")
     ELSE /\ HasSpawned(t) /\ handle[t] = "joinable" => pc[t] = "exited"
          /\ handle' = IF HasSpawned(t) THEN [handle EXCEPT ![t] = "joined"] ELSE handle
          /\ call' = [call EXCEPT !.todo = Tail(@)]
          /\ UNCHANGED <<phase, returned, hasId, affinity, userdata, systemVars,
                         shuttingDown, jobVars, workerVars, fault>>

SystemIsDown ==
  /\ At("join") /\ call.todo = << >>
  /\ call' = [call EXCEPT !.at = "shutdown"]
  /\ UNCHANGED <<phase, returned, threadVars, systemVars, shuttingDown, jobVars,
                 workerVars, fault>>

ShutdownReturns ==
  /\ At("shutdown") /\ call.rest = << >>
  /\ call' = IF call.ret = "idle" THEN Idle ELSE [call EXCEPT !.at = "delete"]
  /\ UNCHANGED <<phase, returned, threadVars, systemVars, shuttingDown, jobVars,
                 workerVars, fault>>

\* ~JobSystemManager: a range-based for over m_jobSystems, whose end is read once.
DestroyManager ==
  /\ At("idle") /\ phase # "deleted"
  /\ call' = [Idle EXCEPT !.at = "nextSlot", !.end = Len(jobSystems), !.ret = "nextSlot"]
  /\ UNCHANGED <<phase, returned, threadVars, systemVars, shuttingDown, jobVars,
                 workerVars, fault>>

\* A slot that Release has erased holds no system any more: its use_count is not 1, and
\* Release is called through a null pointer.
ReleaseSlot ==
  /\ At("nextSlot") /\ call.slot <= call.end
  /\ CASE call.slot > Len(jobSystems) -> Fault("emptySlot")
       [] call.slot <= Len(jobSystems) /\ Debug /\ jobSystems[call.slot] \in held ->
            Fault("assertion")
       [] OTHER ->
            /\ BeginRelease(jobSystems[call.slot], [call EXCEPT !.slot = @ + 1])
            /\ UNCHANGED <<phase, returned, threadVars, numThreads, mainIds, jobSystems,
                           life, held, shuttingDown, jobVars, workerVars, fault>>

SlotsReleased ==
  /\ At("nextSlot") /\ call.slot > call.end
  /\ BeginShutdown(TRUE, [call EXCEPT !.ret = "delete"])
  /\ UNCHANGED <<phase, returned, threadVars, systemVars, jobVars, workerVars, fault>>

\* delete[] m_allThreads: the destructor of a joinable std::thread ends the process.
DeleteThreads ==
  /\ At("delete")
  /\ IF \E t \in Threads : handle[t] = "joinable" THEN Fault("terminate")
     ELSE /\ phase' = "deleted" /\ call' = Idle
          /\ UNCHANGED <<returned, threadVars, systemVars, shuttingDown, jobVars,
                         workerVars, fault>>

------------------------------------------------------------------------------
\* What else the client does with systems and jobs.

\* A shared_ptr goes out of scope.
Drop(s) ==
  /\ At("idle") /\ s \in held
  /\ held' = held \ {s}
  /\ life' = Destroyed(IF Registered(s) THEN {} ELSE {s})
  /\ UNCHANGED <<phase, returned, threadVars, threads, numThreads, mainIds, jobSystems,
                 shuttingDown, call, jobVars, workerVars, fault>>

ScheduleJob(s, j) ==
  /\ At("idle") /\ s \in held \cup {Main} /\ j \in Roots \ sent
  /\ queue' = [queue EXCEPT ![s] = @ \cup {j}] /\ sent' = sent \cup {j}
  /\ UNCHANGED <<phase, returned, threadVars, systemVars, shuttingDown, call, jobState,
                 locked, workerVars, fault>>

------------------------------------------------------------------------------
\* ThreadCallback_Worker.

Goto(t, from, to) == pc[t] = from /\ pc' = [pc EXCEPT ![t] = to]

Quiet == UNCHANGED <<phase, returned, handle, hasId, userdata, systemVars, shuttingDown,
                     call, fault>>

\* LaunchThread, and the callback's check of the user data.
Start(t) ==
  IF GetUserdata(t) = NoSystem THEN pc[t] = "start" /\ Fault("terminate")
  ELSE /\ Goto(t, "start", IF ThreadAffinity THEN "affinity" ELSE "loop")
       /\ Quiet /\ UNCHANGED <<affinity, jobVars, sys, job, idx>>

\* SetAffinity does nothing when m_id is not stored yet.
SetAffinity(t) ==
  /\ Goto(t, "affinity", "loop")
  /\ affinity' = [affinity EXCEPT ![t] = HasSpawned(t)]
  /\ Quiet /\ UNCHANGED <<jobVars, sys, job, idx>>

\* Mutant: m_shuttingDown is not tested.
LoopTestForever(t) ==
  /\ Goto(t, "loop", "getSystem")
  /\ Quiet /\ UNCHANGED <<affinity, jobVars, sys, job, idx>>

LoopTest(t) ==
  /\ Goto(t, "loop", IF shuttingDown THEN "exited" ELSE "getSystem")
  /\ Quiet /\ UNCHANGED <<affinity, jobVars, sys, job, idx>>

\* Mutant: the system is read once, before the loop.
GetSystemOnce(t) ==
  /\ Goto(t, "getSystem", IF job[t] = NoJob THEN "dequeue" ELSE "children")
  /\ sys' = [sys EXCEPT ![t] = IF @ = NoSystem THEN GetUserdata(t) ELSE @]
  /\ idx' = [idx EXCEPT ![t] = 1]
  /\ Quiet /\ UNCHANGED <<affinity, jobVars, job>>

GetSystem(t) ==
  /\ Goto(t, "getSystem", IF job[t] = NoJob THEN "dequeue" ELSE "children")
  /\ sys' = [sys EXCEPT ![t] = GetUserdata(t)]
  /\ idx' = [idx EXCEPT ![t] = 1]
  /\ Quiet /\ UNCHANGED <<affinity, jobVars, job>>

\* `system` may be gone by now.
Usable(s) == s \notin {l \in Locals : life[l] # "alive"}

UseAfterFree(t) ==
  /\ pc[t] \in {"children", "dequeue"} /\ ~ Usable(sys[t])
  /\ Fault("useAfterFree")

SendChild(t) ==
  /\ pc[t] = "children" /\ Usable(sys[t]) /\ idx[t] <= Len(ChildrenOf[job[t]])
  /\ LET child == ChildrenOf[job[t]][idx[t]] IN
       /\ queue' = [queue EXCEPT ![sys[t]] = @ \cup {child}]
       /\ sent' = sent \cup {child}
  /\ jobState' = [jobState EXCEPT ![job[t]] = "Waiting"]
  /\ idx' = [idx EXCEPT ![t] = @ + 1]
  /\ Quiet /\ UNCHANGED <<affinity, locked, pc, sys, job>>

Finish(t) ==
  /\ Goto(t, "children", "unlock")
  /\ idx[t] > Len(ChildrenOf[job[t]])
  /\ jobState' = [jobState EXCEPT ![job[t]] = "Finished"]
  /\ Quiet /\ UNCHANGED <<affinity, queue, sent, locked, sys, job, idx>>

ReleaseLock(t) ==
  /\ Goto(t, "unlock", "dequeue")
  /\ locked' = [locked EXCEPT ![job[t]] = FALSE]
  /\ job' = [job EXCEPT ![t] = NoJob]
  /\ Quiet /\ UNCHANGED <<affinity, queue, sent, jobState, sys, idx>>

TakeJob(t, j) ==
  /\ Goto(t, "dequeue", "call")
  /\ Usable(sys[t]) /\ j \in queue[sys[t]]
  /\ queue' = [queue EXCEPT ![sys[t]] = @ \ {j}]
  /\ job' = [job EXCEPT ![t] = j]
  /\ Quiet /\ UNCHANGED <<affinity, sent, jobState, locked, sys, idx>>

FindNothing(t) ==
  /\ Goto(t, "dequeue", "loop")
  /\ Usable(sys[t]) /\ queue[sys[t]] = {}
  /\ Quiet /\ UNCHANGED <<affinity, jobVars, sys, job, idx>>

Call(t) ==
  /\ Goto(t, "call", "running")
  /\ jobState' = [jobState EXCEPT ![job[t]] = "Running"]
  /\ Quiet /\ UNCHANGED <<affinity, queue, sent, locked, sys, job, idx>>

FunctionReturns(t) ==
  /\ Goto(t, "running", "loop")
  /\ Quiet /\ UNCHANGED <<affinity, jobVars, sys, job, idx>>

WorkerStep(t) ==
  \/ Start(t) \/ SetAffinity(t) \/ LoopTest(t) \/ GetSystem(t) \/ UseAfterFree(t)
  \/ SendChild(t) \/ Finish(t) \/ ReleaseLock(t)
  \/ \E j \in Jobs : TakeJob(t, j)
  \/ FindNothing(t) \/ Call(t) \/ FunctionReturns(t)

------------------------------------------------------------------------------
\* The steps of a call after its first.
MainStep(spawnMayFail) ==
  \/ Spawn \/ (spawnMayFail /\ SpawnThrows) \/ StoreId \/ SetThreadData \/ ThreadsAdded
  \/ \E j \in Jobs : CancelJob(j)
  \/ UnlockCanceled \/ QueueCleared \/ EraseSystem \/ EraseEnd
  \/ ShutdownSystem \/ Join \/ SystemIsDown \/ ShutdownReturns
  \/ ReleaseSlot \/ SlotsReleased \/ DeleteThreads

\* A client makes these calls in any order.  Unless `calls` says that it does otherwise, it
\* first initialises the manager, gives a local system up with one Release, uses it no
\* more afterwards, keeps its shared_ptr until the workers are shut down, and leaves
\* at most one system to the destructor.
Client(calls) ==
  \/ "init" \in calls /\ \E n \in 0 .. Hardware + 1 : InitManager(n)
  \/ /\ phase = "up" \/ "uninitialised" \in calls
     /\ \/ "create" \in calls /\ \E s \in Locals, n \in 0 .. Hardware :
             CreateLocalJobSystem(s, n)
        \/ "reserve" \in calls /\ \E s \in Systems, n \in 0 .. Hardware :
             /\ s = Main \/ Registered(s) \/ "reserveReleased" \in calls
             /\ ReseveThreads(s, n)
        \/ "release" \in calls /\ \E s \in Locals :
             /\ Registered(s) \/ "releaseAgain" \in calls
             /\ ReleaseJobSystem(s)
        \/ "schedule" \in calls /\ \E s \in Systems, j \in Jobs :
             /\ s = Main \/ Registered(s)
             /\ ScheduleJob(s, j)
        \/ "drop" \in calls /\ \E s \in Locals :
             /\ \A t \in Threads : handle[t] # "joinable" \/ "dropEarly" \in calls
             /\ Drop(s)
        \/ "shutdown" \in calls /\ ~ shuttingDown /\ \E b \in BOOLEAN : Shutdown(b)
        \/ /\ "destroy" \in calls /\ held = {} /\ DestroyManager
           /\ Len(jobSystems) <= 1 \/ "destroyMany" \in calls

NextWith(calls, spawnMayFail) ==
  /\ fault = "none"
  /\ \/ phase # "deleted" /\ (Client(calls) \/ MainStep(spawnMayFail))
     \/ \E t \in Threads : WorkerStep(t)

Next == NextWith(Calls, SpawnMayFail)

\* The OS schedules every thread, and a call once made goes on.
Fairness ==
  /\ WF_vars(fault = "none" /\ MainStep(SpawnMayFail))
  /\ \A t \in Threads : WF_vars(fault = "none" /\ WorkerStep(t))

Spec == Init /\ [][Next]_vars
FairSpec == Spec /\ Fairness
------------------------------------------------------------------------------
\* Properties.

\* The threads a Release has given to the main system and not yet taken from the list
\* of the system that is released.
Leaving == IF call.then = "remove" THEN ToSet(threads[call.local]) ELSE {}

\* Every thread the manager runs is in exactly one place of one m_threads, and its user
\* data names that system, or soon will (JobSystemManager.cpp:210-223, 343-348).
OwnedOnce ==
  phase = "up" =>
    \A t \in Threads :
      LET places == {p \in Systems \X Threads :
                       p[2] \in DOMAIN threads[p[1]] /\ threads[p[1]][p[2]] = t} IN
      /\ handle[t] # "none" =>
           Cardinality(places) = IF t \in Leaving THEN 2 ELSE 1
      /\ \A p \in places :
           \/ userdata[t] = p[1]
           \/ t \in Leaving \cup ToSet(call.todo)

\* However clients reserve and release, the main system keeps a thread, so that what is
\* scheduled there is run (the second test of ReseveThreads, JobSystemManager.cpp:336).
MainKeepsAThread == phase = "up" => threads[Main] # << >>

\* Between calls, m_numThreads of the main system and of every system that Shutdown will
\* go through is the length of its m_threads: Shutdown joins all of them and reads no
\* element that is not there (JobSystemManager.cpp:217, 235, 347).
CountsMatch ==
  At("idle") => \A s \in ToSet(jobSystems) \cup {Main} : numThreads[s] = Len(threads[s])

\* A client that keeps to the rules of Client never meets undefined behaviour, a failed
\* assertion or std::terminate (JobSystemManager.cpp:237, 255, 259, 357, 451).
NoFault == fault = "none"

\* What clients have scheduled in a system is not left in it by Release: when a system
\* has been released, its queue holds at most children that a worker has sent after
\* reading its user data before the system changed (JobSystemManager.cpp:106, 450).
OnlyLateChildrenAreLeft ==
  \A s \in Locals :
    /\ life[s] = "alive" /\ ~ Registered(s)
    /\ ~ (call.local = s /\ ~ At("idle"))
    => queue[s] \cap Roots = {}

\* A job that has been cancelled is never run, and is let go (JobSystemManager.cpp:109).
CanceledForGood ==
  [][\A j \in Jobs : jobState[j] = "Canceled" =>
       /\ jobState'[j] = "Canceled"
       /\ \A t \in Threads : job'[t] # j]_vars

\* "blocking => wait for threads to exit" (JobSystemManager.h:191): when a blocking
\* Shutdown returns, every thread that was spawned has been joined.
BlockingShutdownJoins ==
  [][ShutdownReturns /\ call.blocking => \A t \in Threads : handle[t] # "joinable"]_vars

\* "Lock each Thread to a processor core" (JobSystemManager.h:136): with ThreadAffinity,
\* a worker in its loop is bound to its core.
LoopsAreBound ==
  ThreadAffinity =>
    \A t \in Threads : pc[t] \notin {"none", "start", "affinity"} => affinity[t]

\* "OSError, // OS-API call failed" (JobSystemManager.h:150): an Init that cannot spawn a
\* thread says so.
SpawnFailureIsReported == phase = "failed" => returned = "OSError"

\* "Shutdown must be called on the 'MainThread'" (JobSystemManager.cpp:232): the main
\* thread, which makes all calls here, passes the assertion.
ShutdownOnMainThread == [][ShutdownSystem => fault' # "assertion"]_vars

\* "Not all job systems have been released before manager is destroyed"
\* (JobSystemManager.cpp:255): when nobody else holds a system, the destructor finds
\* every one that it looks at.
DestructorFindsSystems == [][ReleaseSlot => fault' # "emptySlot"]_vars

\* "Get the user data as the system this thread is assigned to could change"
\* (JobSystemManager.cpp:449): with that, a worker never works on a system that is gone.
SystemsInUseExist == fault # "useAfterFree"

\* What is scheduled in a system that has a thread is run or cancelled, and its waiters
\* are let go, unless the manager is shut down (JobSystemManager.cpp:95, 110, 447-457).
JobsSettle ==
  \A s \in Systems, j \in Jobs :
    (j \in queue[s] /\ threads[s] # << >>)
      ~> (~ locked[j] \/ shuttingDown \/ fault # "none")

\* Every thread of a released system comes back to work for the main system, unless it
\* is reserved again or shut down (JobSystemManager.cpp:354, 450).
ReleasedThreadsReturn ==
  \A t \in Threads, s \in Locals :
    (sys[t] = s /\ userdata[t] = Main)
      ~> (sys[t] # s \/ userdata[t] # Main \/ shuttingDown \/ fault # "none")

\* Every call returns (the joins of JobSystemManager.cpp:237, the loop at line 107).
CallsReturn == call.at # "idle" ~> (At("idle") \/ fault # "none")
==============================================================================
