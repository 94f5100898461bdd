# A formal model of JobSystem

TLA+ modules that model this repository's job system, TLC runs that check them on
small instances, and theorems about them that TLAPS checks for all instances.
`JobSystem/...` below stands for `src/JobSystem/...`.

## The system

A manager owns a pool of worker threads.  Clients create jobs, attach child jobs to
them (`Then`), schedule them in one of three priority queues of a *job system* (the
manager's main one, or a local one with workers of its own), and wait for a job, for
a list of jobs or for a system's queues to drain.  Every worker runs one loop: ask
its system for the next job, call it, ask again.

### Inventory

| Component | State | Operations | Talks to |
|---|---|---|---|
| `LockFreeQueue` (`inc/LockFreeQueue.h`) | cells (`sequence_`, `data_`), `enqueue_pos_`, `dequeue_pos_`, `m_size` | constructor, `enqueue`, `dequeue`, `size` | called by `JobQueue` from any thread, no locks |
| `JobQueue` (`JobSystemManager.h/.cpp`) | three priority queues, a "running" queue nobody fills | `ScheduleJob`, `GetNextJob`, `GetPendingJobsCount`, `GetRunningJobsCount`, `Release` | jobs (state, children, lock), the queues |
| `IJob`, `JobWaitList` (`Job.h/.cpp`) | `m_state`, `m_locked`, `m_childrenJobs`, `m_priority`, `m_parentJob` | constructors, `Then`, `Call`, `SetState`, `ReleaseLock`, `Wait`, `JobWaitList::Wait` | waiters spin on `m_locked`, which a worker clears |
| `JobFuncWrapper`, `JobResult` | result, `m_isReady` | `Call`, `SetResult`, `IsReady`, `GetResult` | called by `IJob::Call` |
| worker loop (`ThreadCallback_Worker`) | the local `job` | test of `m_shuttingDown`, `GetUserdata`, `GetNextJob`, `Call` | the queues of its current system |
| `JobSystem` | queue, `m_threads`, `m_numThreads` | `ScheduleJob`, `WaitForAll`, `ReserveThreads`, `Release`, `AddThreads`, `RemoveThreads`, `ClearQueue`, `Shutdown` | manager, threads |
| `JobSystemManager` | `m_allThreads`, `m_mainJobSystem`, `m_jobSystems`, `m_shuttingDown` | `Init`, `CreateLocalJobSystem`, `ReseveThreads`, `ReleaseJobSystem`, `Shutdown`, destructor | systems, threads |
| `Thread`, `TLS` | `m_handle`, `m_id`, `m_userData` under a mutex | `Spawn`, `Join`, `SetThreadData`, `GetUserdata`, `SetAffinity` | the OS |
| sub-queues of `concurrentqueue.h` (`ExplicitProducer`, `ImplicitProducer`) | four counters, a ring or list of blocks, an index from positions to blocks | `enqueue`, `enqueue_bulk`, `dequeue`, `dequeue_bulk`, constructor, destructor | one producer, any number of consumers, no locks |
| its pool of blocks (`FreeList`, `requisition_block`) | the initial pool, a free list with reference counts | `add`, `try_get`, `create_block` | sub-queues of all threads |
| its producers, hash and thread exits | list of producers, chain of hash tables, per-thread list of listeners | `recycle_or_create_producer`, `get_or_add_implicit_producer`, producer tokens, `~ThreadExitNotifier` and its callbacks | threads that come and go, tokens |
| its choice of a sub-queue | rotation counter, the state of every consumer token | `try_dequeue`, `try_dequeue_bulk`, with and without a token, `update_current_producer_after_rotation` | sub-queues, other tokens |
| `JobSystemTest` (`main.cpp`) | the line `main()` is at | calls the manager as keys are pressed | the API |

`concurrentqueue.h` is moodycamel's queue, kept in the repository's `inc/` and included
by no source file at this commit.  It is by far the largest file of the repository, and
the alternative to `LockFreeQueue`; its comments state what it promises.

### What is hard

* The queue is lock-free; its correctness is an argument about stale positions and
  sequence numbers, and its answers "full" and "empty" and its size are only
  approximate while calls are under way.
* A job goes through several hands: a client, a queue, the worker that runs it, the
  same worker's next turn (which sends the children, finishes and unlocks it), and
  waiters that spin on a flag.  No lock covers any two of these steps.
* `WaitForAll` and `Shutdown` look at state other threads are changing.
* A full queue is an exception: in a client it can be caught, in a worker it ends
  the process.
* Systems come and go while workers use them, and threads move between systems while
  they run.
* `concurrentqueue.h` has indices that wrap around, block indices that are replaced under
  the hands of consumers, a free list with an ABA problem to avoid, a hash that grows
  while it is searched, threads that exit, and allocations that fail halfway.

`PROJECT.json` lists these hazards one by one, each at its line, with the properties
that would catch it or the reason why none does.

### What makes each component correct

* Queue: no two threads in one cell; first in, first out, each item to one caller; no
  reference to an item that has left; a size that counts the items.
* Jobs: run once; no child before its parent; a state that only moves forward; nobody
  is let go by a job that is not done; every scheduled job is done eventually.
* Waiting: it ends, and when it ends what was awaited has happened.
* Shutdown: it ends, and leaves no waiter behind (it does leave some, see below).
* Manager: every thread is in exactly one system's list and the counts agree; the main
  system keeps a thread; nothing undefined happens; a released system's jobs are run or
  cancelled; every thread is joined.
* Test program: it ends, its batch of jobs is run, it releases what it has.
* Sub-queues: what is enqueued leaves once and in order; a consumer finds its item where
  the index says, whatever the producer does meanwhile; the destructor destroys exactly
  what is left.
* Pool: a block is in one place at a time, and none is lost.
* Producers: one owner for each sub-queue; a thread finds its own again in every table;
  there is always room in the hash; a thread that exits is forgotten.
* Consumers: a call that returns empty-handed has asked every sub-queue; tokens share the
  sub-queues out.

## The modules

| Module | Models |
|---|---|
| `BoundedFIFO` | what the queue promises: an atomic FIFO with two soft edges |
| `LockFreeQueue` | `inc/LockFreeQueue.h`, one shared access per step; its refinement of `BoundedFIFO` |
| `LockFreeQueueHistory` | the same, remembering for each enqueue whether the queue was ever full |
| `JobSystem` | jobs, queues, workers, clients, waiting, shutdown |
| `JobSystemQueues` | the queue calls of `JobSystem` as behaviours of `BoundedFIFO` |
| `JobSystemManager` | `Init`, local systems, reserving and releasing threads, `Shutdown`, the destructor, and the workers meanwhile |
| `TestProgram` | `main.cpp` as a client of `JobSystemManager` |
| `SubQueueFIFO`, `BlockPool` | what a sub-queue and the pool promise |
| `ProducerBase` | the counters of a sub-queue and how consumers claim items; extended by the two kinds |
| `ExplicitProducer`, `ImplicitProducer` | a producer token's sub-queue, a thread's sub-queue; their refinement of `SubQueueFIFO` |
| `FreeList` | the pool of blocks; its refinement of `BlockPool` |
| `Producers`, `ThreadExit` | producers, hash and tokens of one queue; the listeners of exiting threads over several queues |
| `ConsumerTokens` | which sub-queues a consumer asks, and the rotation |
| `LockFreeQueueProofs`, `JobSystemProofs`, `JobSystemManagerProofs`, `FreeListProofs`, `ProducersProofs`, `ThreadExitProofs`, `SubQueueProofs`, `ConsumerTokensProofs` | the theorems |
| `MC*` | constants and symmetry for TLC; `MCJobSystemManager` puts two kinds of client, and `MCConcurrentQueue` the parts of `concurrentqueue.h`, side by side |

### LockFreeQueue

`enqueue_pos`, `dequeue_pos`, `sequence`, `data` and `m_size` are the fields; `pc`,
`pos` and `item` are each thread's place in the code, its local `pos` and its
argument.  There is one action per load, compare-and-swap, copy and store:
`EnqLoad` is line 44, `EnqCheckFree/Full/Stale` the three outcomes of lines 47-60,
`EnqCas` and `EnqCasFail` lines 53-55 (the weak compare-and-swap may fail for no
reason), `EnqWrite`, `EnqPublish`, `EnqCount` lines 62-64, and likewise for
`dequeue`.  `ZeroedStorage` says whether the uninitialised `m_size` starts at zero.

`BoundedFIFO` says what callers get.  A call takes effect in one step.  Two answers
are softer than those of an ideal queue, and `JobSystem` has to live with them:
*full* may be answered when a dequeue that has not returned has been lapped, and
*empty* when the head is the item of an enqueue that has not returned.

### JobSystem

`jobState`, `locked`, `children`, `priority`, `ready` are the fields of the jobs;
`queue[s][p]` holds the jobs of a priority queue of a system, `size[s][p]` its
`m_size`; `pc`, `sys`, `scan`, `job`, `idx` are each thread's place in the code and
its local variables.  The loop of a worker is

    loop -> getSystem -> [children -> putChild -> countChild -> children]* -> unlock
         -> dequeue (High, Normal, Low) -> countTake -> call -> running -> loop
                                        -> loop (nothing found)

with `exited` when `m_shuttingDown` is set.  A worker comes back to `loop` with the
job it has just run still in its hands: finishing it is the business of the next
`GetNextJob`, as in the code.  Clients make the calls of `ClientCall` in any order;
`ClientStep` has the steps by which a call goes on.  A queue call is one step plus
one for the update of `m_size`; `MayAnswerFull` and `MayAnswerEmpty` are the soft
edges of `BoundedFIFO`, and `JobSystemQueues` shows that the model's queues are
behaviours of it, as `LockFreeQueue` is.

Assumptions about clients and functions, each a hazard of `PROJECT.json` too:
a client schedules a job once and leaves children to the workers (`Unscheduled`);
no client calls `Then` on a job while a worker goes through its children, and two
calls of `Then` do not overlap (nothing protects the vector); a client catches the
`overflow_error`; the job functions only wait for other jobs (`WaitsOn`).  The sizes
start at zero here (static storage); `LockFreeQueue` has the other case.  A worker
stays in its system here; `JobSystemManager` lets it move.

### JobSystemManager and TestProgram

All calls of the manager come from one thread, as the assertions of the code demand;
`call` is the call it is in, and where.  `threads`, `numThreads`, `jobSystems`, `userdata`,
`handle`, `hasId` are the fields of systems, manager and threads; `held` says which local
systems the client still has a `shared_ptr` to, `life` whether the object exists.  A step
is one access to what workers share with the main thread: a thread's user data, the flag
`m_shuttingDown`, a queue, a job.  So `ReleaseJobSystem` is `BeginRelease` (threads to the
main system), a `SetThreadData` per thread, `CancelJob` and `UnlockCanceled` per queued job,
`QueueCleared`, `EraseSystem` or `EraseEnd`; and the workers take steps in between, with the
system they have read in `GetSystem` and may hold on to.  Undefined behaviour, a failed
assertion and `std::terminate` set `fault`, and nothing happens after.  The three priorities
are one set of jobs: `JobSystem` has the queues.

`Calls` says what a client does.  Without the special names in it (`uninitialised`,
`reserveReleased`, `releaseAgain`, `dropEarly`, `destroyMany`) it keeps to the rules:
initialise first, release once, use no released system, keep the `shared_ptr` until workers
are down, leave at most one system to the destructor.  `MCJobSystemManager` lets the initial
state choose between this client and one that calls anything at any time while
`std::thread` may fail.

`TestProgram` is `main()`: `line` is its statement, the keys are choices, and a thousand jobs
are two.  Its `PressReturn`, `PressShift`, `PressSpace` make the calls of lines 90-121,
161-183 and 201-203.

### The parts of concurrentqueue.h

`ProducerBase` has the four counters and the first half of `dequeue`: read the overcommit
and the tail, raise the optimistic count, look at the tail again, claim an index or give back.
`ExplicitProducer` adds the ring of blocks, the flags that tell that a block is empty, and
the circular index, as a sequence of index headers (old ones are kept, as consumers may still
read them); `ImplicitProducer` adds blocks that come from the pool and go back to it, and an
index searched by position.  An object is known by its index, an empty slot holds `Raw`, so
that moving the wrong object, constructing over one, or destroying one twice is seen.
Indices have `IndexValues` values and wrap around.  Parameters say whether memory may run
out (`MemoryMayRunOut`), a bulk call may fail halfway (`BulkMayFailHalfway`) and constructors
may throw (`CtorMayThrow`).  Steps are accesses to shared atomic variables; what the producer
alone can see goes along with the next of them.

`FreeList` has one step per access of `add`, `try_get` and `add_knowing_refcount_is_zero`,
with the count and the flag in one number as in the code.  `Producers` models the hash with
one step per probe of a table, counting, locking, growing, and inserting; threads exit and
their ids come back; tokens are made, moved, swapped and destroyed.  `ThreadExit` is the
notifier: the lists of listeners of several threads and queues, and the callbacks one by one.
In `ConsumerTokens` a sub-queue is its number of items, and calls with and without a token
score, ask, go around the list and rotate.

The parts meet only in what they promise each other, and the modules say what that is: a
sub-queue assumes one producer (`OneOwner` of `Producers`, `ThreadExit`) and a pool that gives
a block to one user at a time (`BlockPool`, implemented by `FreeList`); `ConsumerTokens` assumes
sub-queues that deliver (`SubQueueFIFO`).  This is why `MCConcurrentQueue` explores them
one at a time: `part`, chosen in the initial state, is the part that moves.

## The runs

| Run | Instance | Question |
|---|---|---|
| `queue` | 3 threads, 2 cells, 2 items, 3 tickets | the inductive invariant, exclusive cells, no stale reference, `m_size` exact up to calls under way; the ring buffer implements `BoundedFIFO` |
| `jobs` | 2 workers, 1 client, 3 jobs, priorities High and Low, one place in High | the invariant of the jobs, run once, parents first, unlocked means done, life cycle, no child left behind, `WaitForAll` drains; the queues are FIFOs |
| `two_clients` | 2 workers, 2 clients, 2 jobs, one waiting for the other in its function | sizes count jobs, waits are right |
| `liveness` | 2 workers, 1 client, 2 jobs, one waiting for the other in its function | jobs, children and waiting functions complete, waits and `Shutdown` return |
| `manager` | 2 threads, 1 local system, a job with a child; two kinds of client | threads in one list and counted; no fault, no job left by `Release`, cancelled for good, everything joined, for a client that keeps to the rules |
| `test_program` | 2 hardware threads, all keys, a batch of 2 jobs | no fault but the second `Release`; the batch is run; the program ends; threads come back |
| `concurrent_queue` | 8 parts, see `MCConcurrentQueue` | sub-queues find their items, destroy what is left, and are FIFOs; the free list is a pool; producers and exits have one owner |
| `tokens` | 2 consumers, one with a token, 2 producers | everybody is asked, no division by zero |
| `false_full` | 3 threads, 2 cells, 1 item, 4 tickets | violated: "full" means full |
| `size_uninitialised` | 2 threads, `m_size` arbitrary | violated: the size of an idle queue is its length |
| `wait_for_all` | 2 workers, 1 client, 2 jobs | violated: `WaitForAll` waits for running jobs |
| `shutdown` | 2 workers, 1 client, 2 jobs | violated: no waiter is left behind by `Shutdown(true)` |

Bounds.  `MaxTickets` stops enqueues after three or four tickets: with two cells that
is a whole lap and the start of the next, so producers meet cells that are
full, cells that are being emptied and cells given back, and every thread can hold a
stale position while the others go round once.  The theorems have no such bound.  The
number of jobs bounds `JobSystem`: three jobs are a parent with two children, a chain
of three generations, and a queue that overflows; two workers are enough for a job to
be in two hands.  `MaxWaitList` bounds the lists waited for, `SizeMod = 8` stands for
2^32 and is larger than any number of jobs, so that wrapped sizes are told from real
ones.  In `manager`, two threads are enough for one to move while the other stays; one local
system is created, released, reserved for and dropped in every order.

In `concurrent_queue`, blocks have two slots and there are two or three of them, so that
blocks are reused while the last items of the one before are still being moved, and the
indices, of two entries at first, grow.  `MaxItems` is one to three items more than all blocks
hold.  Two consumers race in single operations; bulk operations, failing memory and throwing
constructors are explored with one consumer, which can still be overtaken by the producer at
every step.  `MaxLag` bounds how far the tail and the overcommit count run ahead of a consumer
that holds an old value.  A consumer that sleeps through half a turn of the counter would be fooled,
which 2^64 values, or 2^32, exclude in practice; `ProducerBaseAssumption` says what is enough:
`MaxLag` and the most that all consumers can want together are at most half of the index values.
In the run the bound never takes effect: the instances have 16 or 32 index values, and the number of
states is the same with a larger `MaxLag`.  Two of three thread ids collide in every hash table, and the
first table has one slot, so that it grows at once.

Deadlock is not checked in the runs of `JobSystem`, `JobSystemManager` and `TestProgram`:
`std::terminate` (`terminated`, `fault`) stops the process, and the test program ends.  It is
checked in the others; `MCConcurrentQueue` adds a step for threads that have all gone.

Symmetry is used only where no liveness is checked and for values the module and the
constants treat alike: threads and items of the queue, workers, jobs whose functions do
the same, and consumers, threads and tokens of `concurrentqueue.h`.

Fairness (`liveness`).  Each worker, and each client inside a call, takes steps as
long as it can (weak fairness): the operating system schedules every thread, nothing
in the code blocks but the spinning waits, whose steps are always possible.  Clients
are not obliged to call anything.  A dequeue that is answered *empty* for ever because
of an unpublished head is excluded by the fairness of the thread that publishes it.
Liveness is stated up to `Shutdown` and `std::terminate`, and for functions that wait for at
most one job, as long as fewer functions wait than there are workers (`FewWait`); with as many,
all workers can be taken by waiting functions.

Fairness (`test_program`).  `main()` goes on with its calls and statements, workers are
scheduled, and nobody is obliged to press a key.  `ProgramEnds` is conditional: once `SPACE`
has been pressed and the local system is still there.

### What the violated runs show

* `m_size` is never initialised (`LockFreeQueue.h:113`), although the count it feeds is
  printed by the test program (`main.cpp:203`) and decides when `WaitForAll` returns.
* "Job Queue is full!" (`JobSystemManager.cpp:46`) is thrown when the queue is not full,
  even when it is empty: one stalled consumer is enough.
* `WaitForAll` returns while jobs are running.  The queue of running jobs it consults is
  never filled.  The test program's jobs use a local variable of the caller
  (`main.cpp:172`) that goes out of scope after `WaitForAll` (`main.cpp:183`).
* "Shutdown all Jobs/Threads/Fibers" (`JobSystemManager.h:190`): after a blocking
  `Shutdown`, jobs that were queued and jobs that had just run stay locked for ever.

### Other instances

More constants were tried than the runs above have.  The configurations beside them
reproduce what is violated elsewhere; each names one property (for instance
`tlc -config MCManagerDrop.cfg MCJobSystemManager`).

| Configuration | Module | Property | What TLC finds |
|---|---|---|---|
| `MCManagerDrop` | `MCJobSystemManager` | `SystemsInUseExist` | The client drops its `shared_ptr` after `Release`; a worker that has read the system before (`JobSystemManager.cpp:450`) takes its next job from a destroyed object. |
| `MCManagerAffinity` | `MCJobSystemManager` | `LoopsAreBound` | `Spawn` stores `m_id` after the thread has started (`Thread.cpp:28-29`); a fast thread finds none in `SetAffinity` (line 42) and is never bound, against `JobSystemManager.h:136`. |
| `MCManagerSpawn` | `MCJobSystemManager` | `SpawnFailureIsReported` | A thread that cannot be started is an exception that leaves `Init`; the `OSError` of `JobSystemManager.h:150` is never returned. |
| `MCManagerInitFails` | `MCJobSystemManager` | `ShutdownOnMainThread` | After an `Init` that failed, `Shutdown` on the main thread fails its assertion (`JobSystemManager.cpp:232`). |
| `MCManagerDestructor` | `MCJobSystemManager` | `DestructorFindsSystems` | With two systems left to it, the destructor's range-based `for` runs past the end (lines 253-257). |
| `MCManagerReserve` | `MCJobSystemManager` | `BlockingShutdownJoins` | Threads reserved by a released system are in no list that `Shutdown` goes through. |
| `MCTestProgramWait` | `MCTestProgram` | `BatchIsAwaited` | `CreateLocalJobSystem(8)` ignores that it got no threads (line 317), with eight hardware threads or fewer, or `RETURN` has released the system: `WaitForAll` (`main.cpp:183`) never returns. |
| `MCTestProgram` | `MCTestProgram` | `ReleasesWhatIsThere`, in place of those it lists | `main.cpp:201` releases again what line 93 released: `erase(end())`. |
| `MCExplicitLimit` | `ExplicitProducer` | `SizeIsLimited` | `MAX_SUBQUEUE_SIZE` is tested only where a block is added (`concurrentqueue.h:1859`); blocks used again take the sub-queue past it, against line 370. |
| `MCExplicitBulkFails` | `ExplicitProducer` | `FindsItsItem` | A failing `enqueue_bulk` keeps the blocks it has injected (2087) but not their index entries; with the reuse of line 1847 an entry still needed is overwritten.  With bulks of 4 and no bound on items, `DestructorFindsItems` is violated too. |
| `MCExplicitThrow` | `ExplicitProducer` | `SpareBlocksAreEmpty` | The block of an element whose constructor throws is left with flags no consumer will set (1907); `DestructorFindsItems` is violated in this instance as well. |
| `MCProducersFull` | `MCProducers` | `SomeSlotIsFree` | With thread exit tracking, threads that come and go fill a table (3550) whose count stays low (3488): the search of line 3398 never ends. |
| `MCProducersListener` | `MCProducers` | `NoListenerIsLeft` | A queue destroyed by another thread leaves its listener in the first one's list (579-590). |
| `MCThreadExitTwo` | `MCThreadExit` | `OneOwner` | With two queues, `ptr->next` is read after the producer has been given away (600); the exiting thread walks into the other's list. |
| `MCTokensMixed` | `MCConsumerTokens` | `EverybodyIsServed` | A consumer that uses `try_dequeue_bulk` and `try_dequeue` passes the quota that line 1179 compares for equality: no more rotation. |

Thread exit tracking (`MOODYCAMEL_CPP11_THREAD_LOCAL_SUPPORTED`) is off by default
(`concurrentqueue.h:221`).

What holds elsewhere: `AllIsDequeued` of `ExplicitProducer` under `FairSpec` (a consumer that the
others leave alone gets what is there; two consumers, three items); `EverybodyIsServed` and `CallsEnd` of `ConsumerTokens` under
`FairSpec` (one consumer with a token, `try_dequeue` alone, three producers from the start, two
items each); `SubQueueInv` with 8 index values, one block and `MaxLag` 1 (all
counters wrap around); `TokensAreSpread` (three producers, two tokens); `EverybodyIsAsked` without
tokens and four producers; `SomeCallReturns` of the free list with one fair thread;
`CallsReturn` of `Producers` where allocation succeeds; `JobsSettle` and `CallsReturn` of
`JobSystemManager` under `FairSpec`; `ThreadsInv` with three threads.

Two behaviours are legal and worth knowing.  Two consumers that read the overcommit count at
the wrong moments can give back for each other for ever, and neither gets the last item.
An `ImplicitProducer` whose constructor could not allocate its index never enqueues anything.

## What is proved

The theorems hold for any finite or infinite sets of threads, jobs, items and systems,
under the named assumptions on the constants (`CapacityAssumption`,
`ConstantsAssumption`, `JobSystemAssumption`, `ManagerAssumption`, `ConsumerTokensAssumption`), which
TLC evaluates in every run.
Three of them (`SizeIsExact`, `SizesAreExact`, `WaitForAllReturnsDrained`) need finitely many
threads, to have a number of them; those about the free list, the producers and the sub-queues
state what they need as a hypothesis (`FreeListAssumption`; `ProducersAssumption` and
`ProducerBaseAssumption`, which ask for finitely many threads and consumers).

`LockFreeQueueProofs`.  `QueueInvariant`: `Spec => []QueueInv`.  The positions are at
most a lap apart; every ticket of the last lap is in one of four conditions, told by
its cell's sequence number and by the positions (being filled, ready, being emptied,
given back); a thread between its compare-and-swap and its store owns its ticket
alone; and a thread about to compare-and-swap may trust what it has read *if* the
position is still the one it has loaded.  This last part (`CasInv`) is what makes the
invariant inductive: it is the argument that a stale `pos` cannot succeed.
`NoDataRace`: two owners of the same cell have the same ticket (tickets less than a
lap apart are in different cells, `CellInjective`), hence are the same thread.
`NoReferenceIsKept` strengthens `NoStaleReference` by one fact: a dequeue between its
clearing store and its release still finds its cell empty, as all other owners are in other
cells.  `SizeIsExact`: whoever takes a ticket enters the set of those who have still to
count, whoever counts leaves it, and a remainder that is counted up or down is the remainder of
the number counted up or down (`CountReduced`).  It needs
storage that starts as zeros, which the code does not provide.

`QueueImplementsFIFO`, in the same module: both calls take effect at their
compare-and-swap.  The contents of the FIFO are the items of the tickets between the two
positions; a ticket's item is still with its thread until it is written, and in the cell from then on
(`WrittenInv` says that it is there when the cell is published).  `EnqueueMaps` and `DequeueMaps` are the
two effects: the item taken has been written, and no other ticket's item changes.  A call that finds its cell
not ready answers "full" or "empty" only in the circumstances `BoundedFIFO` names
(`FailEnqueueMaps`, `FailDequeueMaps`): a lapped dequeue, or the head's enqueue, is still under way.
Everything else is a stuttering step.

`JobSystemProofs`.  `JobInvariant`: `Spec => []JobInv`.  None of the interesting
properties is inductive alone.  That a job runs once needs that a job which is taken
from a queue is fresh and at one position only (`QueuedInv`); that needs that what is
put in is free: the job of a client about to enqueue (`ClientInv`), or a child that its
parent has not sent (`ChildInv`, `Unsent`), which in turn needs that a job is the child
of one parent at one position, that no client enqueues a child, and that one worker at
most holds the parent (`OneWorker`), with what its place in the code says of it
(`WorkerInv`).  `NotCreatedInv` starts all of this when a job comes into being.

The proof goes by frame lemmas (`WorkerLocal`, `WorkerMoves`, `ClientLocal`: what a step
leaves alone, and which steps move jobs), position lemmas for the queues
(`EnqueuePositions`, `DequeuePositions`), `FreeKept` and `UnsentKept`, and then one
lemma per conjunct and kind of thread.  From the invariant follow `TypeCorrect`,
`UnlockedJobsAreDone`, `ParentsFirst`, and the action properties `JobsRunOnce`,
`WaitsForDone` and `JobsGoForward`.

Four theorems need more.  `SizesAreExact`: the jobs of a queue
less the enqueues plus the dequeues that have still to count are what its `m_size` says; one
lemma for each way a step can touch the three (`PutCounted`, `TakeCounted`, `PutCounts`,
`TakeCounts`, `NothingCounted`).  `NoChildIsForgotten` needs that a job once in a queue or with
a worker stays so until it is started (`WorkerBegun`, `ClientBegun`), and hence that the
children which the loop has passed are not lost while it goes on (`SentInv`).
`QueuesImplementFIFO`: which call of which queue a thread is in follows from its place in the
code (`CallOf`); one lemma for each way a step can change that (`CallBegins`, `EnqueueEffect`,
`DequeueEffect`, `CallEnds`, `OthersCalls`), and one for each kind of thread that says
which of them its steps are.  `WaitForAllReturnsDrained`: a client that is alone, and whose jobs
have no children, only ever sees its queues drain, so what it has added up is never less than
what is outstanding in the queues it has read (`DrainInv`): jobs, and dequeues that have still to
count.  A sum of zero then means that there is neither.  The sizes must fit their width
(`SizesFit`): otherwise a sum of 2^16 would pass for zero.

`JobSystemManagerProofs`, about both clients of `MCJobSystemManager` at once: any number of threads, systems and
jobs, and any sets of calls.  The theorems rest on three invariants, each on the one before.

* `ManagerInv` (`ManagerIsRight`) holds whatever the client does.  `OwnedOnce` is not inductive: between
  the growing of a list and the last `SetThreadData`, and between the two halves of a
  Release, lists and user data disagree.  `ListInv` says when they may: a listed thread's user
  data names the system, *or* the thread is among those the call has still to tell, *or* its
  system is being released; two lists share a thread only while a Release hands it from one to the
  other; and a count differs from its list's length only where a call is about to set it.
  `CallInv` ties the locals of every call to the state (`AddingOK`: what has still to be told is
  in the list of the target; `SpawningOK`: which threads have been spawned so far), and `LifeInv`
  says that systems that do not exist yet have nothing.  One lemma per action; the lemmas on
  sequences (`Concatenation`, `Splitting`, `Removing`, ...) carry the lists.  `ThreadsAreOwned`
  follows by counting places.
* `JobsInv` (`JobsAreRight`): a job is in one queue or with one worker, what is cancelled is
  nowhere (`CanceledInv`), and a child that has been sent was sent by the worker that is at its
  parent (`ChildInv`), so it cannot be sent again after it was cancelled.  `CancelledForGood`
  follows.  It needs that a child has one parent, which `ManagerAssumption` says because `Then`
  creates each child for the job it is called on.
* `RulesInv` (`RulesHold`) is for the client that keeps to the rules (`RulesOnly`: it makes no
  other calls than those eight; `Client` has the conditions).  While a worker can be joined,
  every system that exists is held, and a worker's `system` and user data name systems that exist
  (`UseInv`): so no worker uses a destroyed one.  Systems with threads are those Shutdown goes
  through (`SystemsInv`); a thread that can still be joined is in a list that a blocking Shutdown
  has not come to, or among those it is joining (`JoinInv`); the destructor's slot holds a
  system (`DestructorInv`).  That a Release finds its own system, and that nothing the client
  has scheduled is left in a system that is gone, is a part of its own (`QueuesInv`): the rest
  (`SafeInv`) does not need it, so its lemmas serve clients that release a system twice.
  `RulesPreventFaults`, `ReleaseCancelsWhatIsQueued` and `BlockingShutdownWaits` are read off.

The end of `JobSystemManagerProofs` is about `main()`, which is such a client.  `ManagerInv` and `JobsInv` hold for its calls as for
any other's, and `SafeInv` until a second Release ends the process (`TestInv`).  What a lemma asks of a call is what
the line `main()` is at says (`ProgramInv`): it has one local system (`OneSystem`), `Init` is over before the
next call (`PhaseInv`), the `shared_ptr` is dropped and the destructor runs when the blocking `Shutdown` has joined
every thread (`EndInv`), and only while `main()` schedules the batch or waits for it is a job of the batch
in a queue (`BatchInv`), so that no cancelling loop meets one.  The hypothesis of both theorems,
`InitSucceeds`, is that there is a processor and that threads can be spawned: when `Init` fails, `main()` prints a
line and goes on (`main.cpp:72-75`), and its `Shutdown` then fails the assertion of `JobSystemManager.cpp:232`.

`FreeListProofs`.  `FreeListIsRight` and `FreeListImplementsPool`, from one invariant (`IInv`): a
block is with one thread at most, which holds it or is on the way from the list or to it, and is not
on the list then (`PlaceInv`); its count is the number of threads that refer to it, plus one for the
list, plus the mark (`CountInv`); and it is marked exactly if it has been given out, nobody holds
it and the list does not have it: while it is marked, somebody refers to it who will find the
mark and put it back, or is about to (`MarkInv`).  What a `try_get` has
read of `next` may be used if the head is still the node it refers to, as a block that is referred to is not put
back (`LocalInv`).  The list is given by reachability (`Reach`), so that
no induction along it is needed: an added block reaches what the old head did, and the head
taken off leaves what its successor reaches.

`ProducersProofs`.  `ProducersAreRight`: `Spec => []ProducersInv`, for any number of threads, tokens and
ids that come back, any hash function, any initial capacity, and with or without thread exit
tracking.  `HashInv` is what makes it inductive.

* Owners: a producer that somebody has is not inactive (`OwnersInv`), so `Recycle`, which takes
  an inactive one, takes nobody's; and one that is entered for an id is the producer of the thread with that
  id or of nobody, with one id for each producer in all tables (`EntriesInv`).  A listener's
  producer is the one its thread is entered with (`ThreadListener`), so that when the thread's
  entries are gone, nobody can find the producer that `Retire` gives away.
* Searches: linear probing finds an id because every slot between its hash and its entry is in use (`TableInv`;
  `Offset` measures the way round the end of the table), and `ThreadSearch` says what a search has
  passed: the main table and those before it back to `table`, and in that the slots before `index`.
  A slot that is reached with `invalid_thread_id` in it therefore means that the id is not in this table,
  which is the comment of `concurrentqueue.h:3380`.  A slot that was left is not empty but
  `invalid_thread_id2`: the way to what is behind it stays in use.
* Room: the comment of line 3405 is a matter of counting.  `Reserved(n)`: the ids in tables three
  quarters of which are at most n + 1, and those of calls that counted at most n and are still on the way
  there, are never more than n (`RoomInv`).  A call that has just counted n is one of n at most
  that may be entered anywhere, as the count is never less than those (`ClaimantsAreCounted`, from
  `CountsProducers`); one that is entered had counted less than three quarters of its table; and a
  chained table is larger than those before it.  Hence a table has fewer ids than slots, and a slot that is empty or, with tracking, left
  (`SomeSlotIsTakable`).
* Without tracking no slot is ever left, and `SearchesMeetAFreeSlot` is the comment of line 3398;
  with tracking `MCProducersFull` refutes it.

`SlotWritten` and `TableChained` say how a step changes the tables, `TablesStep` what other ids
see of it, `ThreadRests` and `TokenLocalStep` that who takes no part goes on as before; then there is one
lemma per action.  The growth of the hash is written as the choice of a capacity that is not half full with
the count and whose half is: there is one such doubling, the loop's, and that it is the only one plays no part.

`ThreadExitProofs`.  `ExitsAreRight`: `Spec => []ExitInv` for one queue (`OneQueue`), which is what the run
`concurrent_queue` explores, and any number of threads and producers.  `Has` is the producer of a thread from the call
that obtains it up to the store to `inactive`: no two threads have the same one, it is not inactive, and one that
nobody has is (`OwnersInv`).  With one queue, a thread has one listener at most, in its list from `subscribe` to its
own callback, and `ThreadInv` says at each place that the list, the entry and what the destructor's loop is at agree.
Hence every `next` is null (`IInv`), and reading it late is harmless; with two queues it is not
(`MCThreadExitTwo`).

`SubQueueProofs`.  `CountersAreRight` is about the four counters of a thread's sub-queue, for any
number of consumers that take one item or many, any block size, and indices of any width that `ProducerBaseAssumption`
admits.  The difficulty is that all counters wrap around.  The invariant (`IInv`) says that there are integers
(`Unwrapped`) of which the counters are the remainders, and speaks of those; a step that adds
to a counter adds to its integer, and what the code does with the remainders is then what it would do with the integers, as they are never too far apart.

* Balance: the optimistic integer less the overcommit is the head and what consumers have announced (`Announced`),
  which each step of a consumer changes on both sides (`CountsInv`).
* Claims: a consumer that has raised the optimistic count may still be told that it came too late, and two of them may look at
  the tail in either order, so what has been granted (`ClaimsAreCovered`) says too little.
  `NotTooMany` is about every place x where the tail may be by then: what the consumers that have been
  granted something have, and what the undecided would be granted if they found the tail at x
  (min(`want`, x - `mine`)), fit between the head and x.  A consumer that raises the count does so from a value
  that is the head and all that was announced before it, less what was overcommitted and will be given
  back; so it takes from x what the others leave (`IncrementStep`), and its second look at the tail, which is one such
  x, changes nothing (`RecheckStep`).
* `Recheck` compares by `circular_less_than`.  That is right while the two are not more than half of the values
  apart the wrong way (`Ahead`), and here `Reach` comes in: how far an announcement can be
  beyond the tail is `MaxLag` and `MaxBulk` for each consumer.
* Limit: the end of the last block stays within the limit, and within half of the indices, of the head (`ProducerInv`):
  the test of line 2480 where a block is added keeps it so, and blocks that a call gives back were never counted.  The
  sub-queue of a token has no such invariant (`MCExplicitLimit`): it uses blocks again without the test.

The counters and the steps of consumers up to the claim are the same in both kinds (`SameStep`), so
`CountersOfTokensAreRight` carries the balance over.  That consumers of a token's sub-queue are not granted too much is only model-checked:
that its items fit the indices rests on its ring of blocks.

`ConsumerTokensProofs`.  `TokensInvariant`: a producer is counted before it is listed
(`QueueInv`), which is why the count read after the list is not zero (`NoDivisionByZero`);
and for every place in the code of a call, which producers it has asked.  The hard case
is the round with a token (`RoundInv`): the list is circular for it, it starts at the token's
producer, whose place is known only from the token, and all that lies between that and `ptr`
has been asked; when a bulk call moves its token, the round starts again, and the invariant
is re-established from the one producer just asked.  `CallsAskEverybody` follows: at
`fails`, every producer that was listed when the call began has been asked.

Only model-checked: what else `SubQueuesInv` says of the sub-queues (that a consumer finds the block and the object of the index it has
claimed, that constructors find empty slots, that the destructor finds what is left) and their refinement of
`SubQueueFIFO`: a proof would have to carry the block indexes, which grow, wrap around and are searched by
a signed offset, through every bulk operation; thread exits with several queues, where `OneOwner` is violated; and all liveness, which
TLAPS cannot prove (it has no ENABLED or fairness reasoning here).

## What is not modelled, and why

* Memory orders: steps interleave sequentially consistently.  The queue's acquire and
  release pairs are on `sequence_`, `m_locked` and `m_shuttingDown`.
* Positions modulo 2^64.
* The data race of `Then` with a worker that iterates over the same vector, and the
  16-bit loop variable with 65536 children: outside what clients may do here.
* A job scheduled twice; functions that schedule jobs or wait for several; exceptions thrown
  by functions; starvation of the low priorities by an endless stream of jobs.
* Destruction of jobs, queues and of the free list.
* Calls of the manager from several threads: the assertions forbid them.  Loops over
  threads with a `uint8_t` and 256 threads.
* `concurrentqueue.h`: moving and swapping queues (nothing may run meanwhile), `size_approx` (a
  sum without a promise), the debugging variants, custom traits and allocators.  The signed
  division of block offsets is modelled as the code has it, unsigned: its comment says that
  the sign is preserved, and for power-of-two sizes the result is the same after the mask.
* The build scripts.

## Plan

1. `LockFreeQueue`, `BoundedFIFO`, `JobSystem` with their runs and first theorems.  Done.
2. The manager, its composition with systems that are released under their workers, and the
   test program.  Done.
3. The parts of `concurrentqueue.h`, and the theorems about its tokens.  Done.
4. Proofs: the free list, the refinements of `BoundedFIFO`, `WaitForAllDrains`, the manager.  Done.
5. Proofs: the test program, the producers and their hash, thread exits, the counters of the
   sub-queues.  Done.
6. Left: a proof of the rest of `SubQueuesInv`, about blocks and block indexes.
