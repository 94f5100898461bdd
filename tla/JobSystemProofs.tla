--------------------------- MODULE JobSystemProofs ---------------------------
(***************************************************************************)
(* Theorems about JobSystem, for any number of workers, clients, jobs and   *)
(* systems, any capacities and any functions that wait for each other.      *)
(***************************************************************************)
EXTENDS JobSystemQueues, FiniteSetTheorems, TLAPS

------------------------------------------------------------------------------
(* Counters that wrap around, and numbers of threads                        *)

\* A number is a multiple and a remainder.
LEMMA Division ==
  ASSUME NEW m \in Nat \ {0}, NEW x \in Int
  PROVE  /\ x \div m \in Int
         /\ x % m \in 0 .. m - 1
         /\ x = m * (x \div m) + (x % m)
OBVIOUS

\* Numbers less than m apart that differ by a multiple of m are equal.
LEMMA EqualRemainders ==
  ASSUME NEW m \in Nat \ {0}, NEW a \in Int,
         NEW x \in 0 .. m - 1, NEW y \in 0 .. m - 1, x - y = m * a
  PROVE  x = y
<1>1. CASE a > 0
  <2>1. m * a >= m
    BY <1>1, SMT
  <2> QED
    BY <2>1
<1>2. CASE a < 0
  <2>1. m * a <= - m
    BY <1>2, SMT
  <2> QED
    BY <2>1
<1>3. CASE a = 0
  BY <1>3
<1> QED
  BY <1>1, <1>2, <1>3

\* A counter that is reduced before it counts one up or down is the one that is not.
LEMMA CountReduced ==
  ASSUME NEW m \in Nat \ {0}, NEW x \in Int, NEW n \in {1, -1}
  PROVE  ((x % m) + n) % m = (x + n) % m
<1> DEFINE r == x % m
           a == x \div m
           b == (r + n) \div m
           c == (x + n) \div m
           y == (r + n) % m
           z == (x + n) % m
<1>1. a \in Int /\ r \in 0 .. m - 1 /\ x = m * a + r
  BY Division
<1>2. r + n \in Int /\ x + n \in Int
  BY <1>1
<1>3. b \in Int /\ y \in 0 .. m - 1 /\ r + n = m * b + y
  BY <1>2, Division
<1>4. c \in Int /\ z \in 0 .. m - 1 /\ x + n = m * c + z
  BY <1>2, Division
<1> HIDE DEF r, a, b, c, y, z
<1>5. z - y = m * (a + b - c)
  <2> DEFINE A == m * a
             B == m * b
             C == m * c
  <2>1. A \in Int /\ B \in Int /\ C \in Int /\ m * (a + b - c) = A + B - C
    BY <1>1, <1>3, <1>4, SMT
  <2>2. x = A + r /\ r + n = B + y /\ x + n = C + z
    BY <1>1, <1>3, <1>4
  <2> HIDE DEF A, B, C
  <2> QED
    BY <1>1, <1>3, <1>4, <2>1, <2>2
<1>6. a + b - c \in Int
  BY <1>1, <1>3, <1>4
<1>7. z = y
  BY <1>3, <1>4, <1>5, <1>6, EqualRemainders
<1> QED
  BY <1>7 DEF r, y, z

\* A finite set of threads with one more, or one less.
LEMMA ThreadEnters ==
  ASSUME NEW All, IsFiniteSet(All), NEW S \in SUBSET All, NEW t \in All, t \notin S
  PROVE  Cardinality(S) \in Nat /\ Cardinality(S \cup {t}) = Cardinality(S) + 1
BY FS_Subset, FS_CardinalityType, FS_AddElement

LEMMA ThreadLeaves ==
  ASSUME NEW All, IsFiniteSet(All), NEW S \in SUBSET All, NEW t \in S
  PROVE  Cardinality(S) \in Nat /\ Cardinality(S \ {t}) = Cardinality(S) - 1
BY FS_Subset, FS_CardinalityType, FS_RemoveElement

------------------------------------------------------------------------------
(* The queues                                                               *)

\* A size stays a uint32_t when it is counted up or down.
LEMMA CountType ==
  ASSUME NEW s \in Systems, NEW p \in Priorities, NEW n \in Int,
         size \in [Systems -> [Priorities -> 0 .. SizeMod - 1]], Count(s, p, n)
  PROVE  size' \in [Systems -> [Priorities -> 0 .. SizeMod - 1]]
<1>1. SizeMod \in Nat /\ SizeMod > 0
  BY JobSystemAssumption
<1>2. (size[s][p] + n) % SizeMod \in 0 .. SizeMod - 1
  BY <1>1
<1> QED
  BY <1>2 DEF Count

\* An enqueue keeps the types of the queues and the spans.
LEMMA EnqueueType ==
  ASSUME NEW s \in Systems, NEW p \in Priorities, NEW j \in Jobs,
         TypeOK, Enqueue(s, p, j)
  PROVE  /\ queue' \in [Systems -> [Priorities -> Seq(Jobs)]]
         /\ span' \in [Threads -> Nat]
<1>1. Append(queue[s][p], j) \in Seq(Jobs)
  BY DEF TypeOK
<1> QED
  BY <1>1 DEF Enqueue, TypeOK

\* A dequeue keeps the types of the queues, the spans and the threads' jobs.
LEMMA DequeueType ==
  ASSUME NEW s \in Systems, NEW p \in Priorities, NEW t \in Threads,
         TypeOK, Dequeue(t, s, p)
  PROVE  /\ queue' \in [Systems -> [Priorities -> Seq(Jobs)]]
         /\ span' \in [Threads -> Nat]
         /\ job' \in [Threads -> Jobs \cup {NoJob}]
<1>1. /\ queue[s][p] \in Seq(Jobs)
      /\ queue[s][p] # << >>
  BY DEF Dequeue, TypeOK
<1>2. /\ Head(queue[s][p]) \in Jobs
      /\ Tail(queue[s][p]) \in Seq(Jobs)
      /\ Len(queue[s][p]) \in Nat
  BY <1>1
<1> QED
  BY <1>2 DEF Dequeue, TypeOK

------------------------------------------------------------------------------
(* Type correctness                                                         *)

\* Initially every variable has its type.
LEMMA TypeInit == Init => TypeOK
<1> SUFFICES ASSUME Init PROVE TypeOK
  OBVIOUS
<1>1. 0 \in 0 .. SizeMod - 1
  BY JobSystemAssumption
<1>2. << >> \in Seq(Jobs)
  OBVIOUS
<1> QED
  BY <1>1, <1>2, JobSystemAssumption
  DEF Init, TypeOK, Threads, Priorities, JobStates, WorkerPCs, ClientPCs

\* After High comes Normal, after Normal Low.
LEMMA NextPriorityType ==
  ASSUME NEW p \in Priorities, p # "Low"
  PROVE  NextPriority[p] \in Priorities
<1>1. CASE p = "High"
  BY <1>1 DEF NextPriority, Priorities
<1>2. CASE p = "Normal"
  BY <1>2 DEF NextPriority, Priorities
<1> QED
  BY <1>1, <1>2 DEF Priorities

\* A thread is a worker or a client, never both.
LEMMA ThreadKinds ==
  /\ \A w \in Workers : w \in Threads
  /\ \A c \in Clients : c \in Threads
  /\ \A w \in Workers, c \in Clients : w # c
BY JobSystemAssumption DEF Threads

\* A worker that goes through the children of a job has the child it is at.
LEMMA ChildType ==
  ASSUME TypeOK, WorkerInv, NEW w \in Workers, pc[w] \in {"putChild", "countChild"}
  PROVE  Child(w) \in Jobs /\ job[w] \in Jobs /\ idx[w] \in 1 .. Len(children[job[w]])
<1>1. /\ job[w] \in Jobs
      /\ idx[w] >= 1
      /\ idx[w] <= Len(children[job[w]])
  BY DEF WorkerInv, WorkerHolds
<1>2. children[job[w]] \in Seq(Jobs) /\ idx[w] \in Nat
  BY <1>1 DEF TypeOK, Threads
<1> QED
  BY <1>1, <1>2 DEF Child

\* A worker's step keeps the types, if workers hold what WorkerInv says.
LEMMA WorkerTypeStep ==
  ASSUME TypeOK, WorkerInv, NEW w \in Workers, WorkerStep(w)
  PROVE  TypeOK'
<1> USE ThreadKinds DEF TypeOK, Goto, WorkerPCs, JobStates, jobVars, queueVars, globalVars, threadVars
<1>2. CASE LoopTest(w)
  BY <1>2 DEF LoopTest
<1>3. CASE GetSystem(w)
  BY <1>3 DEF GetSystem
<1>4. CASE NextChild(w)
  <2>1. job[w] \in Jobs
    BY <1>4 DEF NextChild, WorkerInv, WorkerHolds
  <2> QED
    BY <1>4, <2>1 DEF NextChild
<1>5. CASE PutChild(w)
  <2>1. Child(w) \in Jobs
    BY <1>5, ChildType DEF PutChild
  <2>2. queue' \in [Systems -> [Priorities -> Seq(Jobs)]] /\ span' \in [Threads -> Nat]
    BY <1>5, <2>1, EnqueueType DEF PutChild
  <2> QED
    BY <1>5, <2>2 DEF PutChild
<1>6. CASE PutChildFull(w)
  BY <1>6 DEF PutChildFull
<1>7. CASE CountChild(w)
  <2>1. size' \in [Systems -> [Priorities -> 0 .. SizeMod - 1]]
    BY <1>7, CountType DEF CountChild
  <2>2. idx[w] + 1 \in Nat
    OBVIOUS
  <2> QED
    BY <1>7, <2>1, <2>2 DEF CountChild
<1>8. CASE Finish(w)
  BY <1>8 DEF Finish
<1>9. CASE ReleaseLock(w)
  BY <1>9 DEF ReleaseLock, Priorities
<1>10. CASE TakeJob(w)
  <2>1. /\ queue' \in [Systems -> [Priorities -> Seq(Jobs)]]
        /\ span' \in [Threads -> Nat]
        /\ job' \in [Threads -> Jobs \cup {NoJob}]
    BY <1>10, DequeueType DEF TakeJob
  <2> QED
    BY <1>10, <2>1 DEF TakeJob
<1>11. CASE TryNextQueue(w)
  <2>1. NextPriority[scan[w]] \in Priorities
    BY <1>11, NextPriorityType DEF TryNextQueue
  <2> QED
    BY <1>11, <2>1 DEF TryNextQueue
<1>14. CASE FindNothing(w)
  BY <1>14 DEF FindNothing, Priorities
<1>12. CASE CountTake(w)
  <2>1. size' \in [Systems -> [Priorities -> 0 .. SizeMod - 1]]
    BY <1>12, CountType DEF CountTake
  <2> QED
    BY <1>12, <2>1 DEF CountTake, Priorities
<1>13. CASE Call(w) \/ FunctionReturns(w)
  BY <1>13 DEF Call, FunctionReturns
<1> QED
  BY <1>2, <1>3, <1>4, <1>5, <1>6, <1>7, <1>8, <1>9, <1>10, <1>11, <1>12, <1>13, <1>14
  DEF WorkerStep

\* A client's step keeps the types, if clients hold what ClientInv says.
LEMMA ClientTypeStep ==
  ASSUME TypeOK, ClientInv, NEW c \in Clients, ClientCall(c) \/ ClientStep(c)
  PROVE  TypeOK'
<1> USE ThreadKinds DEF TypeOK, Goto, ClientPCs, JobStates, jobVars, queueVars, globalVars, threadVars
<1>2. JobPriorities \subseteq Priorities
  BY JobSystemAssumption
<1>3. ASSUME NEW j \in Jobs, NEW p \in JobPriorities, CreateJob(c, j, p) PROVE TypeOK'
  BY <1>2, <1>3 DEF CreateJob
<1>4. ASSUME NEW parent \in Jobs, NEW j \in Jobs, Then(c, parent, j) PROVE TypeOK'
  <2>1. Append(children[parent], j) \in Seq(Jobs)
    OBVIOUS
  <2> QED
    BY <1>4, <2>1 DEF Then
<1>5. ASSUME NEW s \in Systems, NEW j \in Jobs, NEW p \in JobPriorities,
             ScheduleJob(c, s, j, p)
      PROVE  TypeOK'
  BY <1>2, <1>5 DEF ScheduleJob
<1>6. ASSUME NEW js \in WaitLists, Wait(c, js) PROVE TypeOK'
  <2>1. js \in Seq(Jobs)
    <3>1. PICK n \in 1 .. MaxWaitList : js \in [1 .. n -> Jobs]
      BY DEF WaitLists
    <3>2. n \in Nat
      BY JobSystemAssumption
    <3> QED
      BY <3>1, <3>2
  <2> QED
    BY <1>6, <2>1 DEF Wait
<1>7. ASSUME NEW s \in Systems, WaitForAll(c, s) PROVE TypeOK'
  BY <1>7 DEF WaitForAll
<1>8. ASSUME c = Main, NEW blocking \in BOOLEAN, Shutdown(blocking) PROVE TypeOK'
  BY <1>8 DEF Shutdown
<1>9. CASE PutJob(c)
  <2>1. job[c] \in Jobs
    BY <1>9 DEF PutJob, ClientInv
  <2>2. queue' \in [Systems -> [Priorities -> Seq(Jobs)]] /\ span' \in [Threads -> Nat]
    BY <1>9, <2>1, EnqueueType DEF PutJob
  <2> QED
    BY <1>9, <2>2 DEF PutJob
<1>10. CASE PutJobFull(c)
  BY <1>10 DEF PutJobFull, Priorities
<1>11. CASE CountPut(c)
  <2>1. size' \in [Systems -> [Priorities -> 0 .. SizeMod - 1]]
    BY <1>11, CountType DEF CountPut
  <2> QED
    BY <1>11, <2>1 DEF CountPut, Priorities
<1>12. CASE CheckLock(c)
  <2>1. CASE locked[waitList[c][idx[c]]]
    BY <1>12, <2>1 DEF CheckLock
  <2>2. CASE ~locked[waitList[c][idx[c]]]
    <3>1. idx[c] + 1 \in Nat
      OBVIOUS
    <3> QED
      BY <1>12, <2>2, <3>1 DEF CheckLock
  <2> QED
    BY <2>1, <2>2
<1>16. CASE WaitReturns(c)
  BY <1>16 DEF WaitReturns
<1>13. CASE ReadSize(c)
  <2>1. SizeMod \in Nat /\ SizeMod > 0
    BY JobSystemAssumption
  <2>2. (pending[c] + size[sys[c]][scan[c]]) % SizeMod \in 0 .. SizeMod - 1
    BY <2>1
  <2> QED
    BY <1>13, <2>2, NextPriorityType DEF ReadSize
<1>14. CASE ReadLastSize(c)
  <2>1. 0 \in 0 .. SizeMod - 1
    BY JobSystemAssumption
  <2> QED
    BY <1>14, <2>1 DEF ReadLastSize, Priorities
<1>15. CASE c = Main /\ JoinReturns
  BY <1>15 DEF JoinReturns
<1> QED
  BY <1>3, <1>4, <1>5, <1>6, <1>7, <1>8, <1>9, <1>10, <1>11, <1>12, <1>13, <1>14, <1>15, <1>16
  DEF ClientCall, ClientStep

------------------------------------------------------------------------------
(* What a step of a worker leaves alone                                     *)

\* After an enqueue every position holds the job it held, and a new position at
\* the end of one queue holds the new one.
LEMMA EnqueuePositions ==
  ASSUME NEW s \in Systems, NEW p \in Priorities, NEW j \in Jobs,
         TypeOK, Enqueue(s, p, j),
         NEW r \in Systems, NEW q \in Priorities, NEW i \in 1 .. Len(queue'[r][q])
  PROVE  \/ i \in 1 .. Len(queue[r][q]) /\ queue'[r][q][i] = queue[r][q][i]
         \/ /\ r = s /\ q = p /\ i = Len(queue[s][p]) + 1
            /\ queue'[r][q][i] = j
<1>1. queue[s][p] \in Seq(Jobs) /\ queue[r][q] \in Seq(Jobs)
  BY DEF TypeOK
<1>2. CASE r = s /\ q = p
  <2>1. queue'[r][q] = Append(queue[s][p], j)
    BY <1>2 DEF Enqueue, TypeOK
  <2> QED
    BY <1>1, <1>2, <2>1
<1>3. CASE ~(r = s /\ q = p)
  <2>1. queue'[r][q] = queue[r][q]
    BY <1>3 DEF Enqueue, TypeOK
  <2> QED
    BY <2>1
<1> QED
  BY <1>2, <1>3

\* After a dequeue the jobs of one queue have moved up by one position, and the
\* thread has the one that was first.
LEMMA DequeuePositions ==
  ASSUME NEW s \in Systems, NEW p \in Priorities, NEW t \in Threads,
         TypeOK, Dequeue(t, s, p)
  PROVE  /\ 1 \in 1 .. Len(queue[s][p])
         /\ job' = [job EXCEPT ![t] = queue[s][p][1]]
         /\ \A r \in Systems, q \in Priorities : \A i \in 1 .. Len(queue'[r][q]) :
              IF r = s /\ q = p
                THEN i + 1 \in 1 .. Len(queue[r][q]) /\ queue'[r][q][i] = queue[r][q][i + 1]
                ELSE i \in 1 .. Len(queue[r][q]) /\ queue'[r][q][i] = queue[r][q][i]
<1>1. queue[s][p] \in Seq(Jobs) /\ queue[s][p] # << >>
  BY DEF TypeOK, Dequeue
<1>2. 1 \in 1 .. Len(queue[s][p]) /\ Head(queue[s][p]) = queue[s][p][1]
  BY <1>1
<1>3. ASSUME NEW r \in Systems, NEW q \in Priorities, NEW i \in 1 .. Len(queue'[r][q]),
             r = s /\ q = p
      PROVE  i + 1 \in 1 .. Len(queue[r][q]) /\ queue'[r][q][i] = queue[r][q][i + 1]
  <2>1. queue'[r][q] = Tail(queue[s][p])
    BY <1>3 DEF Dequeue, TypeOK
  <2> QED
    BY <1>1, <1>3, <2>1
<1>4. ASSUME NEW r \in Systems, NEW q \in Priorities, ~(r = s /\ q = p)
      PROVE  queue'[r][q] = queue[r][q]
  BY <1>4 DEF Dequeue, TypeOK
<1> QED
  BY <1>2, <1>3, <1>4 DEF Dequeue

\* A step of a worker touches no other thread and no job but the worker's, and
\* never locks a job or takes a result back.
LEMMA WorkerLocal ==
  ASSUME TypeOK, WorkerInv, NEW w \in Workers, WorkerStep(w)
  PROVE  /\ UNCHANGED <<created, children, waitList>>
         /\ \A t \in Threads : t # w =>
              pc'[t] = pc[t] /\ job'[t] = job[t] /\ idx'[t] = idx[t]
         /\ \A j \in Jobs : j # job[w] =>
              jobState'[j] = jobState[j] /\ locked'[j] = locked[j] /\ ready'[j] = ready[j]
         /\ \A j \in Jobs : (ready[j] => ready'[j]) /\ (locked'[j] => locked[j])
<1> USE ThreadKinds DEF TypeOK, Goto, jobVars, queueVars, globalVars, threadVars
<1>1. CASE LoopTest(w)
  BY <1>1 DEF LoopTest
<1>2. CASE GetSystem(w)
  BY <1>2 DEF GetSystem
<1>3. CASE NextChild(w)
  BY <1>3 DEF NextChild
<1>4. CASE PutChild(w) \/ PutChildFull(w)
  BY <1>4 DEF PutChild, PutChildFull
<1>5. CASE CountChild(w)
  BY <1>5 DEF CountChild
<1>6. CASE Finish(w)
  BY <1>6 DEF Finish
<1>7. CASE ReleaseLock(w)
  BY <1>7 DEF ReleaseLock
<1>8. CASE TakeJob(w)
  BY <1>8 DEF TakeJob, Dequeue
<1>9. CASE TryNextQueue(w) \/ FindNothing(w)
  BY <1>9 DEF TryNextQueue, FindNothing
<1>10. CASE CountTake(w)
  BY <1>10 DEF CountTake
<1>11. CASE Call(w)
  BY <1>11 DEF Call
<1>12. CASE FunctionReturns(w)
  BY <1>12 DEF FunctionReturns
<1> QED
  BY <1>1, <1>2, <1>3, <1>4, <1>5, <1>6, <1>7, <1>8, <1>9, <1>10, <1>11, <1>12
  DEF WorkerStep

\* Only PutChild and TakeJob move jobs between queues and workers.
LEMMA WorkerMoves ==
  ASSUME TypeOK, WorkerInv, NEW w \in Workers, WorkerStep(w)
  PROVE  \/ PutChild(w) /\ UNCHANGED job
         \/ TakeJob(w) /\ job[w] = NoJob
         \/ UNCHANGED queue /\ job'[w] \in {job[w], NoJob}
<1> USE ThreadKinds DEF TypeOK, Goto, jobVars, queueVars, globalVars, threadVars
<1>1. CASE LoopTest(w) \/ GetSystem(w) \/ NextChild(w) \/ PutChildFull(w) \/ CountChild(w)
  BY <1>1 DEF LoopTest, GetSystem, NextChild, PutChildFull, CountChild
<1>2. CASE PutChild(w)
  BY <1>2 DEF PutChild
<1>3. CASE Finish(w) \/ ReleaseLock(w)
  BY <1>3 DEF Finish, ReleaseLock
<1>4. CASE TakeJob(w)
  BY <1>4 DEF TakeJob, WorkerInv, WorkerHolds
<1>5. CASE TryNextQueue(w) \/ FindNothing(w) \/ CountTake(w) \/ Call(w) \/ FunctionReturns(w)
  BY <1>5 DEF TryNextQueue, FindNothing, CountTake, Call, FunctionReturns
<1> QED
  BY <1>1, <1>2, <1>3, <1>4, <1>5 DEF WorkerStep

------------------------------------------------------------------------------
(* A step of a worker preserves the invariant                               *)

\* A free job stays free, unless it is the child that the step enqueues.
LEMMA FreeKept ==
  ASSUME TypeOK, WorkerInv, QueuedInv, NEW w \in Workers, WorkerStep(w),
         NEW j \in Jobs, Free(j), PutChild(w) => j # Child(w)
  PROVE  Free(j)'
<1>1. /\ Fresh(j)
      /\ \A v \in Workers : job[v] # j
      /\ \A s \in Systems, p \in Priorities : \A i \in 1 .. Len(queue[s][p]) :
           queue[s][p][i] # j
  BY DEF Free
<1>2. Fresh(j)'
  BY <1>1, WorkerLocal DEF Fresh
<1>3. NoJob # j /\ w \in Threads
  BY JobSystemAssumption, ThreadKinds
<1>4. CASE PutChild(w) /\ UNCHANGED job
  <2>1. Child(w) \in Jobs /\ sys[w] \in Systems /\ scan[w] \in Priorities
    BY <1>3, <1>4, ChildType DEF PutChild, Goto, TypeOK
  <2>2. Enqueue(sys[w], scan[w], Child(w))
    BY <1>4 DEF PutChild
  <2>3. ASSUME NEW s \in Systems, NEW p \in Priorities, NEW i \in 1 .. Len(queue'[s][p])
        PROVE  queue'[s][p][i] # j
    BY <1>1, <1>4, <2>1, <2>2, EnqueuePositions
  <2> QED
    BY <1>1, <1>2, <1>4, <2>3 DEF Free
<1>5. CASE TakeJob(w) /\ job[w] = NoJob
  <2>1. sys[w] \in Systems /\ scan[w] \in Priorities /\ Dequeue(w, sys[w], scan[w])
    BY <1>3, <1>5 DEF TakeJob, TypeOK
  <2>2. ASSUME NEW s \in Systems, NEW p \in Priorities, NEW i \in 1 .. Len(queue'[s][p])
        PROVE  queue'[s][p][i] # j
    <3>1. CASE s = sys[w] /\ p = scan[w]
      <4>1. i + 1 \in 1 .. Len(queue[s][p]) /\ queue'[s][p][i] = queue[s][p][i + 1]
        BY <1>3, <2>1, <3>1, DequeuePositions
      <4> QED
        BY <1>1, <4>1
    <3>2. CASE ~(s = sys[w] /\ p = scan[w])
      <4>1. i \in 1 .. Len(queue[s][p]) /\ queue'[s][p][i] = queue[s][p][i]
        BY <1>3, <2>1, <3>2, DequeuePositions
      <4> QED
        BY <1>1, <4>1
    <3> QED
      BY <3>1, <3>2
  <2>3. /\ job' = [job EXCEPT ![w] = queue[sys[w]][scan[w]][1]]
        /\ queue[sys[w]][scan[w]][1] # j
    BY <1>1, <1>3, <2>1, DequeuePositions
  <2>4. \A v \in Workers : job'[v] # j
    BY <1>1, <2>3, ThreadKinds DEF TypeOK
  <2> QED
    BY <1>2, <2>2, <2>4 DEF Free
<1>6. CASE UNCHANGED queue /\ job'[w] \in {job[w], NoJob}
  <2>1. \A v \in Workers : job'[v] # j
    BY <1>1, <1>3, <1>6, WorkerLocal, ThreadKinds
  <2> QED
    BY <1>1, <1>2, <1>6, <2>1 DEF Free
<1> QED
  BY <1>4, <1>5, <1>6, WorkerMoves

\* A child that is unsent after a step was unsent before, and is not the one that
\* the step sends.
LEMMA UnsentKept ==
  ASSUME TypeOK, WorkerInv, OneWorker, NEW w \in Workers, WorkerStep(w),
         NEW parent \in Jobs, NEW i \in 1 .. Len(children[parent]), Unsent(parent, i)'
  PROVE  /\ Unsent(parent, i)
         /\ PutChild(w) => ~(parent = job[w] /\ i = idx[w])
<1>0. i \in Nat /\ i >= 1 /\ w \in Threads /\ idx[w] \in Nat /\ parent # NoJob
  BY ThreadKinds, JobSystemAssumption DEF TypeOK
<1>1. CASE ~ready'[parent]
  <2>1. ~ready[parent]
    BY <1>1, WorkerLocal
  <2>2. PutChild(w) => parent # job[w]
    BY <2>1 DEF PutChild, Goto, WorkerInv, WorkerHolds
  <2> QED
    BY <2>1, <2>2 DEF Unsent
<1>2. CASE ready'[parent] /\ ~ready[parent]
  <2>1. PutChild(w) => parent # job[w]
    BY <1>2 DEF PutChild, Goto, WorkerInv, WorkerHolds
  <2> QED
    BY <1>2, <2>1 DEF Unsent
<1>3. ASSUME NEW v \in Workers, v # w, job'[v] = parent,
             \/ pc'[v] \in {"loop", "getSystem"}
             \/ pc'[v] \in {"children", "putChild"} /\ idx'[v] <= i
             \/ pc'[v] = "countChild" /\ idx'[v] < i
      PROVE  Unsent(parent, i) /\ (PutChild(w) => ~(parent = job[w] /\ i = idx[w]))
  <2>1. pc'[v] = pc[v] /\ job'[v] = job[v] /\ idx'[v] = idx[v]
    BY <1>3, WorkerLocal, ThreadKinds
  <2>2. job[w] # parent
    BY <1>0, <1>3, <2>1 DEF OneWorker
  <2> QED
    BY <1>3, <2>1, <2>2 DEF Unsent
<1>4. idx[w] < i => idx[w] <= i /\ i # idx[w]
  BY <1>0
<1>5. ASSUME ready[parent], job'[w] = parent,
             \/ pc'[w] \in {"loop", "getSystem"}
             \/ pc'[w] \in {"children", "putChild"} /\ idx'[w] <= i
             \/ pc'[w] = "countChild" /\ idx'[w] < i
      PROVE  Unsent(parent, i) /\ (PutChild(w) => ~(parent = job[w] /\ i = idx[w]))
  <2> USE <1>0, <1>5, ThreadKinds
      DEF TypeOK, Goto, Unsent, jobVars, queueVars, globalVars, threadVars
  <2>1. CASE LoopTest(w)
    BY <2>1 DEF LoopTest, PutChild
  <2>2. CASE GetSystem(w)
    BY <2>2 DEF GetSystem, PutChild
  <2>3. CASE NextChild(w)
    BY <2>3 DEF NextChild, PutChild
  <2>4. CASE PutChild(w)
    <3>1. pc[w] = "putChild" /\ job[w] = parent /\ idx[w] < i
      BY <2>4 DEF PutChild
    <3>2. idx[w] <= i /\ i # idx[w]
      BY <1>4, <3>1
    <3>3. Unsent(parent, i)
      BY <3>1, <3>2
    <3> QED
      BY <3>2, <3>3
  <2>5. CASE PutChildFull(w)
    BY <2>5 DEF PutChildFull, PutChild
  <2>6. CASE CountChild(w)
    BY <2>6 DEF CountChild, PutChild
  <2>7. CASE Finish(w) \/ ReleaseLock(w)
    BY <2>7 DEF Finish, ReleaseLock, PutChild
  <2>8. CASE TakeJob(w) \/ TryNextQueue(w) \/ CountTake(w) \/ Call(w)
    BY <2>8 DEF TakeJob, TryNextQueue, CountTake, Call, PutChild
  <2>9. CASE FindNothing(w)
    BY <2>9 DEF FindNothing, PutChild, WorkerInv, WorkerHolds
  <2>10. CASE FunctionReturns(w)
    BY <2>10 DEF FunctionReturns, PutChild, WorkerInv, WorkerHolds
  <2> QED
    BY <2>1, <2>2, <2>3, <2>4, <2>5, <2>6, <2>7, <2>8, <2>9, <2>10 DEF WorkerStep
<1> QED
  BY <1>1, <1>2, <1>3, <1>5 DEF Unsent

\* Only TakeJob gives a worker a job, one that no worker holds.
LEMMA WorkerOneWorker ==
  ASSUME TypeOK, WorkerInv, OneWorker, QueuedInv, NEW w \in Workers, WorkerStep(w)
  PROVE  OneWorker'
<1>1. w \in Threads
  BY ThreadKinds
<1>2. \A v \in Workers : v # w => job'[v] = job[v]
  BY WorkerLocal, ThreadKinds
<1>3. CASE PutChild(w) /\ UNCHANGED job
  BY <1>3 DEF OneWorker
<1>4. CASE TakeJob(w) /\ job[w] = NoJob
  <2>1. sys[w] \in Systems /\ scan[w] \in Priorities /\ Dequeue(w, sys[w], scan[w])
    BY <1>1, <1>4 DEF TakeJob, TypeOK
  <2>2. /\ 1 \in 1 .. Len(queue[sys[w]][scan[w]])
        /\ job' = [job EXCEPT ![w] = queue[sys[w]][scan[w]][1]]
    BY <1>1, <2>1, DequeuePositions
  <2>3. \A v \in Workers : job[v] # queue[sys[w]][scan[w]][1]
    BY <2>1, <2>2 DEF QueuedInv
  <2>4. job'[w] = queue[sys[w]][scan[w]][1]
    BY <1>1, <2>2 DEF TypeOK
  <2> QED
    BY <1>2, <2>3, <2>4 DEF OneWorker
<1>5. CASE UNCHANGED queue /\ job'[w] \in {job[w], NoJob}
  BY <1>2, <1>5 DEF OneWorker
<1> QED
  BY <1>3, <1>4, <1>5, WorkerMoves

\* What a worker enqueues is an unsent child, in no queue; what it dequeues leaves.
LEMMA WorkerQueued ==
  ASSUME TypeOK, WorkerInv, OneWorker, QueuedInv, ChildInv,
         NEW w \in Workers, WorkerStep(w)
  PROVE  QueuedInv'
<1> DEFINE FreshNext(j) == jobState'[j] = "Queued" /\ locked'[j] /\ ~ready'[j]
<1>1. w \in Threads
  BY ThreadKinds
<1>2. ASSUME NEW s \in Systems, NEW p \in Priorities, NEW i \in 1 .. Len(queue[s][p])
      PROVE  /\ queue[s][p][i] \in Jobs
             /\ FreshNext(queue[s][p][i])
             /\ \A v \in Workers : v # w => job'[v] # queue[s][p][i]
  <2>1. queue[s][p][i] \in Jobs
    BY DEF TypeOK
  <2>2. Fresh(queue[s][p][i]) /\ \A v \in Workers : job[v] # queue[s][p][i]
    BY DEF QueuedInv
  <2> QED
    BY <2>1, <2>2, WorkerLocal, ThreadKinds DEF Fresh
<1>3. CASE PutChild(w) /\ UNCHANGED job
  <2>1. /\ Child(w) \in Jobs /\ job[w] \in Jobs
        /\ idx[w] \in 1 .. Len(children[job[w]])
        /\ sys[w] \in Systems /\ scan[w] \in Priorities
        /\ Enqueue(sys[w], scan[w], Child(w))
    BY <1>1, <1>3, ChildType DEF PutChild, Goto, TypeOK
  <2>2. Unsent(job[w], idx[w])
    BY <1>3, <2>1 DEF Unsent, PutChild, Goto
  <2>3. Free(Child(w))
    BY <2>1, <2>2 DEF ChildInv, Child
  <2>4. FreshNext(Child(w)) /\ \A v \in Workers : job'[v] # Child(w)
    BY <1>3, <2>1, <2>3, WorkerLocal DEF Free, Fresh
  <2>5. ASSUME NEW s \in Systems, NEW p \in Priorities, NEW i \in 1 .. Len(queue'[s][p]),
               NEW r \in Systems, NEW q \in Priorities, NEW k \in 1 .. Len(queue'[r][q]),
               queue'[s][p][i] = queue'[r][q][k]
        PROVE  s = r /\ p = q /\ i = k
    <3>1. \/ i \in 1 .. Len(queue[s][p]) /\ queue'[s][p][i] = queue[s][p][i]
          \/ /\ s = sys[w] /\ p = scan[w] /\ i = Len(queue[sys[w]][scan[w]]) + 1
             /\ queue'[s][p][i] = Child(w)
      BY <2>1, EnqueuePositions
    <3>2. \/ k \in 1 .. Len(queue[r][q]) /\ queue'[r][q][k] = queue[r][q][k]
          \/ /\ r = sys[w] /\ q = scan[w] /\ k = Len(queue[sys[w]][scan[w]]) + 1
             /\ queue'[r][q][k] = Child(w)
      BY <2>1, EnqueuePositions
    <3> QED
      BY <2>3, <2>5, <3>1, <3>2 DEF QueuedInv, Free
  <2>6. ASSUME NEW s \in Systems, NEW p \in Priorities, NEW i \in 1 .. Len(queue'[s][p])
        PROVE  FreshNext(queue'[s][p][i]) /\ \A v \in Workers : job'[v] # queue'[s][p][i]
    <3>1. CASE i \in 1 .. Len(queue[s][p]) /\ queue'[s][p][i] = queue[s][p][i]
      <4>1. FreshNext(queue[s][p][i]) /\ \A v \in Workers : job[v] # queue[s][p][i]
        BY <1>2, <3>1 DEF QueuedInv
      <4> QED
        BY <1>3, <3>1, <4>1
    <3>2. CASE queue'[s][p][i] = Child(w)
      BY <2>4, <3>2 DEF Fresh
    <3> QED
      BY <2>1, <3>1, <3>2, EnqueuePositions
  <2> QED
    BY <2>5, <2>6 DEF QueuedInv, Fresh
<1>4. CASE TakeJob(w) /\ job[w] = NoJob
  <2>1. sys[w] \in Systems /\ scan[w] \in Priorities /\ Dequeue(w, sys[w], scan[w])
    BY <1>1, <1>4 DEF TakeJob, TypeOK
  <2> DEFINE old(s, p, i) == IF s = sys[w] /\ p = scan[w] THEN i + 1 ELSE i
  <2>2. \A s \in Systems, p \in Priorities : \A i \in 1 .. Len(queue'[s][p]) :
          /\ i \in Nat /\ i >= 1
          /\ old(s, p, i) \in 1 .. Len(queue[s][p])
          /\ queue'[s][p][i] = queue[s][p][old(s, p, i)]
    BY <1>1, <2>1, DequeuePositions
  <2> HIDE DEF old
  <2>3. /\ 1 \in 1 .. Len(queue[sys[w]][scan[w]])
        /\ job' = [job EXCEPT ![w] = queue[sys[w]][scan[w]][1]]
    BY <1>1, <2>1, DequeuePositions
  <2>4. job'[w] = queue[sys[w]][scan[w]][1]
    BY <1>1, <2>3 DEF TypeOK
  <2>5. ASSUME NEW s \in Systems, NEW p \in Priorities, NEW i \in 1 .. Len(queue'[s][p]),
               NEW r \in Systems, NEW q \in Priorities, NEW k \in 1 .. Len(queue'[r][q]),
               queue'[s][p][i] = queue'[r][q][k]
        PROVE  s = r /\ p = q /\ i = k
    <3>1. s = r /\ p = q /\ old(s, p, i) = old(r, q, k)
      <4>1. /\ old(s, p, i) \in 1 .. Len(queue[s][p])
            /\ old(r, q, k) \in 1 .. Len(queue[r][q])
        BY <2>2
      <4>2. queue[s][p][old(s, p, i)] = queue[r][q][old(r, q, k)]
        BY <2>2, <2>5
      <4> QED
        BY <4>1, <4>2 DEF QueuedInv
    <3> QED
      BY <2>2, <3>1 DEF old
  <2>6. ASSUME NEW s \in Systems, NEW p \in Priorities, NEW i \in 1 .. Len(queue'[s][p])
        PROVE  FreshNext(queue'[s][p][i]) /\ \A v \in Workers : job'[v] # queue'[s][p][i]
    <3>1. /\ FreshNext(queue[s][p][old(s, p, i)])
          /\ \A v \in Workers : v # w => job'[v] # queue[s][p][old(s, p, i)]
      BY <1>2, <2>2
    <3>2. queue[s][p][old(s, p, i)] = queue[sys[w]][scan[w]][1]
            => s = sys[w] /\ p = scan[w] /\ old(s, p, i) = 1
      BY <2>1, <2>2, <2>3 DEF QueuedInv
    <3>3. job'[w] # queue[s][p][old(s, p, i)]
      BY <2>2, <2>4, <3>2 DEF old
    <3> QED
      BY <2>2, <3>1, <3>3
  <2> QED
    BY <2>5, <2>6 DEF QueuedInv, Fresh
<1>5. CASE UNCHANGED queue /\ job'[w] \in {job[w], NoJob}
  <2>1. ASSUME NEW s \in Systems, NEW p \in Priorities, NEW i \in 1 .. Len(queue[s][p])
        PROVE  FreshNext(queue[s][p][i]) /\ \A v \in Workers : job'[v] # queue[s][p][i]
    <3>1. job[w] # queue[s][p][i] /\ NoJob # queue[s][p][i]
      BY <1>2, JobSystemAssumption DEF QueuedInv
    <3> QED
      BY <1>2, <1>5, <3>1
  <2> QED
    BY <1>5, <2>1 DEF QueuedInv, Fresh
<1> QED
  BY <1>3, <1>4, <1>5, WorkerMoves

\* A worker enqueues children, which are created: the other jobs stay free.
LEMMA WorkerNotCreated ==
  ASSUME JobInv, NEW w \in Workers, WorkerStep(w)
  PROVE  NotCreatedInv'
<1> USE DEF JobInv
<1> SUFFICES ASSUME NEW j \in Jobs, j \notin created
             PROVE  Free(j)' /\ \A c \in Clients : pc'[c] = "put" => job'[c] # j
  BY WorkerLocal DEF NotCreatedInv
<1>1. Free(j) /\ \A c \in Clients : pc[c] = "put" => job[c] # j
  BY DEF NotCreatedInv
<1>2. PutChild(w) => j # Child(w)
  BY ChildType DEF PutChild, Goto, ChildInv, Child
<1>3. Free(j)'
  BY <1>1, <1>2, FreeKept
<1> QED
  BY <1>1, <1>3, WorkerLocal, ThreadKinds

\* A worker never enqueues the job a client is about to enqueue.
LEMMA WorkerClients ==
  ASSUME JobInv, NEW w \in Workers, WorkerStep(w)
  PROVE  ClientInv'
<1> USE DEF JobInv
<1>1. UNCHANGED <<created, children>>
  BY WorkerLocal
<1>2. \A c \in Clients : pc'[c] = pc[c] /\ job'[c] = job[c] /\ idx'[c] = idx[c]
  BY WorkerLocal, ThreadKinds
<1>3. ASSUME NEW c \in Clients, pc[c] = "put"
      PROVE  Free(job[c])'
  <2>1. PICK j \in Jobs : j = job[c]
    BY <1>3 DEF ClientInv, TypeOK
  <2>2. Free(j) /\ ~IsChild(j)
    BY <1>3, <2>1 DEF ClientInv
  <2>3. ASSUME PutChild(w) PROVE j # Child(w)
    <3>1. job[w] \in Jobs /\ idx[w] \in 1 .. Len(children[job[w]])
      BY <2>3, ChildType DEF PutChild, Goto
    <3>2. children[job[w]] \in Seq(Jobs)
      BY <3>1 DEF TypeOK
    <3>3. DOMAIN children[job[w]] = 1 .. Len(children[job[w]])
      BY <3>2
    <3>4. Child(w) \in ToSet(children[job[w]])
      BY <3>1, <3>3 DEF Child, ToSet
    <3> QED
      BY <2>2, <3>1, <3>4 DEF IsChild
  <2>4. Free(j)'
    BY <2>2, <2>3, FreeKept
  <2> QED
    BY <1>2, <2>1, <2>4 DEF Free, Fresh
<1> QED
  BY <1>1, <1>2, <1>3 DEF ClientInv, IsChild

\* Children that are unsent after a worker's step are free after it.
LEMMA WorkerChildren ==
  ASSUME JobInv, NEW w \in Workers, WorkerStep(w)
  PROVE  ChildInv'
<1> USE DEF JobInv
<1>1. UNCHANGED <<created, children>>
  BY WorkerLocal
<1>2. ASSUME NEW parent \in Jobs, NEW i \in 1 .. Len(children[parent]), Unsent(parent, i)'
      PROVE  Free(children[parent][i])'
  <2>1. PICK j \in Jobs : j = children[parent][i]
    BY DEF TypeOK
  <2>2. Unsent(parent, i) /\ (PutChild(w) => ~(parent = job[w] /\ i = idx[w]))
    BY <1>2, UnsentKept
  <2>3. Free(j)
    BY <2>1, <2>2 DEF ChildInv
  <2>4. PutChild(w) => j # Child(w)
    BY <2>1, <2>2, ChildType DEF PutChild, Goto, Child, ChildInv
  <2>5. Free(j)'
    BY <2>3, <2>4, FreeKept
  <2> QED
    BY <1>1, <2>1, <2>5 DEF Free, Fresh
<1> QED
  BY <1>1, <1>2 DEF ChildInv

\* Workers never lock a job: what a waiter's scan has passed stays unlocked.
LEMMA WorkerWaiters ==
  ASSUME JobInv, NEW w \in Workers, WorkerStep(w)
  PROVE  WaitInv'
<1> USE DEF JobInv
<1>1. UNCHANGED waitList /\ \A c \in Clients : pc'[c] = pc[c] /\ idx'[c] = idx[c]
  BY WorkerLocal, ThreadKinds
<1>2. \A j \in Jobs : locked'[j] => locked[j]
  BY WorkerLocal
<1>3. \A c \in Clients : \A i \in 1 .. Len(waitList[c]) : waitList[c][i] \in Jobs
  BY DEF TypeOK
<1> QED
  BY <1>1, <1>2, <1>3 DEF WaitInv

\* What a worker takes out of a queue has not been started.
LEMMA TakenFresh ==
  ASSUME JobInv, NEW w \in Workers, TakeJob(w)
  PROVE  \E j \in Jobs : Fresh(j) /\ job' = [job EXCEPT ![w] = j]
<1>1. sys[w] \in Systems /\ scan[w] \in Priorities /\ Dequeue(w, sys[w], scan[w])
  BY ThreadKinds DEF TakeJob, JobInv, TypeOK
<1> DEFINE q == queue[sys[w]][scan[w]]
<1>2. /\ 1 \in 1 .. Len(q)
      /\ job' = [job EXCEPT ![w] = q[1]]
  BY <1>1, ThreadKinds, DequeuePositions DEF JobInv
<1>3. q[1] \in Jobs
  BY <1>1, <1>2 DEF JobInv, TypeOK
<1>4. Fresh(q[1])
  BY <1>1, <1>2 DEF JobInv, QueuedInv
<1> QED
  BY <1>2, <1>3, <1>4

\* What a step makes of the job its worker holds.
LEMMA WorkerHoldsKept ==
  ASSUME JobInv, NEW w \in Workers, WorkerStep(w)
  PROVE  /\ WorkerHolds(w)'
         /\ \A j \in Jobs : j = job[w] =>
              /\ ready'[j] => jobState'[j] # "Queued"
              /\ ~locked'[j] => jobState'[j] = "Finished" /\ ready'[j]
<1>1. /\ pc \in [Threads -> WorkerPCs \cup ClientPCs] /\ w \in Threads
      /\ jobState \in [Jobs -> JobStates]
      /\ locked \in [Jobs -> BOOLEAN] /\ ready \in [Jobs -> BOOLEAN]
      /\ children \in [Jobs -> Seq(Jobs)]
      /\ job \in [Threads -> Jobs \cup {NoJob}]
      /\ idx \in [Threads -> Nat]
      /\ NoJob \notin Jobs
  BY ThreadKinds, JobSystemAssumption DEF JobInv, TypeOK
<1>2. /\ WorkerHolds(w)
      /\ \A j \in Jobs : ready[j] => jobState[j] # "Queued"
      /\ \A j \in Jobs : ~locked[j] => jobState[j] = "Finished" /\ ready[j]
  BY DEF JobInv, WorkerInv, StartedInv, UnlockedMeansDone
<1> USE DEF Goto, Fresh, WorkerHolds, jobVars, queueVars, globalVars, threadVars
<1>3. CASE LoopTest(w)
  BY <1>1, <1>2, <1>3 DEF LoopTest
<1>4. CASE GetSystem(w)
  BY <1>1, <1>2, <1>4 DEF GetSystem
<1>5. CASE NextChild(w)
  BY <1>1, <1>2, <1>5 DEF NextChild
<1>6. CASE PutChild(w)
  BY <1>1, <1>2, <1>6 DEF PutChild
<1>7. CASE PutChildFull(w)
  BY <1>1, <1>2, <1>7 DEF PutChildFull
<1>8. CASE CountChild(w)
  BY <1>1, <1>2, <1>8 DEF CountChild
<1>9. CASE Finish(w)
  BY <1>1, <1>2, <1>9 DEF Finish
<1>10. CASE ReleaseLock(w)
  BY <1>1, <1>2, <1>10 DEF ReleaseLock
<1>11. CASE TakeJob(w)
  <2>1. PICK j \in Jobs : Fresh(j) /\ job' = [job EXCEPT ![w] = j]
    BY <1>11, TakenFresh
  <2> QED
    BY <1>1, <1>2, <1>11, <2>1 DEF TakeJob
<1>12. CASE TryNextQueue(w)
  BY <1>1, <1>2, <1>12 DEF TryNextQueue
<1>13. CASE FindNothing(w)
  BY <1>1, <1>2, <1>13 DEF FindNothing
<1>14. CASE CountTake(w)
  BY <1>1, <1>2, <1>14 DEF CountTake
<1>15. CASE Call(w)
  BY <1>1, <1>2, <1>15 DEF Call
<1>16. CASE FunctionReturns(w)
  BY <1>1, <1>2, <1>16 DEF FunctionReturns
<1> QED
  BY <1>3, <1>4, <1>5, <1>6, <1>7, <1>8, <1>9, <1>10,
     <1>11, <1>12, <1>13, <1>14, <1>15, <1>16 DEF WorkerStep

\* The steps of workers preserve the invariant.
LEMMA WorkerJobInv ==
  ASSUME JobInv, NEW w \in Workers, WorkerStep(w)
  PROVE  JobInv'
<1> USE DEF JobInv
<1>1. TypeOK'
  BY WorkerTypeStep
<1>2. ASSUME NEW v \in Workers, v # w PROVE WorkerHolds(v)'
  <2>1. /\ pc'[v] = pc[v] /\ job'[v] = job[v] /\ idx'[v] = idx[v]
        /\ UNCHANGED children
    BY <1>2, WorkerLocal, ThreadKinds
  <2>2. WorkerHolds(v)
    BY DEF WorkerInv
  <2>3. CASE job[v] \in Jobs
    <3>1. job[v] # job[w]
      BY <1>2, <2>3, JobSystemAssumption DEF OneWorker
    <3>2. /\ jobState'[job[v]] = jobState[job[v]]
          /\ locked'[job[v]] = locked[job[v]]
          /\ ready'[job[v]] = ready[job[v]]
      BY <2>3, <3>1, WorkerLocal
    <3> QED
      BY <2>1, <2>2, <3>2 DEF WorkerHolds, Fresh
  <2>4. CASE job[v] = NoJob
    BY <2>1, <2>2, <2>4, JobSystemAssumption DEF WorkerHolds
  <2> QED
    BY <2>3, <2>4, ThreadKinds DEF TypeOK
<1>3. WorkerInv'
  BY <1>2, WorkerHoldsKept DEF WorkerInv
<1>4. StartedInv' /\ UnlockedMeansDone'
  BY WorkerHoldsKept, WorkerLocal DEF StartedInv, UnlockedMeansDone
<1> QED
  BY <1>1, <1>3, <1>4, WorkerOneWorker, WorkerQueued, WorkerClients, WorkerChildren,
     WorkerNotCreated, WorkerWaiters

------------------------------------------------------------------------------
(* A step of a client preserves the invariant                               *)

\* What a step of a client leaves alone, and which steps touch the rest.
LEMMA ClientLocal ==
  ASSUME TypeOK, NEW c \in Clients, ClientCall(c) \/ ClientStep(c)
  PROVE  /\ UNCHANGED <<jobState, locked, ready>>
         /\ created \subseteq created'
         /\ \A t \in Threads : t # c =>
              pc'[t] = pc[t] /\ job'[t] = job[t] /\ idx'[t] = idx[t]
         /\ \A d \in Clients : d # c => waitList'[d] = waitList[d]
         /\ UNCHANGED queue \/ PutJob(c)
         /\ UNCHANGED children \/ \E parent, j \in Jobs : Then(c, parent, j)
         /\ pc'[c] = "put" =>
              \E s \in Systems, j \in Jobs, p \in JobPriorities : ScheduleJob(c, s, j, p)
         /\ pc'[c] = "countPut" => PutJob(c)
         /\ pc'[c] = "waiting" => CheckLock(c) \/ \E js \in WaitLists : Wait(c, js)
<1> USE ThreadKinds DEF TypeOK, Goto, jobVars, queueVars, globalVars, threadVars
<1>1. ASSUME NEW j \in Jobs, NEW p \in JobPriorities, CreateJob(c, j, p)
      PROVE  /\ UNCHANGED <<jobState, locked, ready, pc, job, idx, waitList, queue, children>>
             /\ created \subseteq created' /\ pc[c] = "idle"
  BY <1>1 DEF CreateJob
<1>2. ASSUME NEW parent \in Jobs, NEW j \in Jobs, Then(c, parent, j)
      PROVE  /\ UNCHANGED <<jobState, locked, ready, pc, job, idx, waitList, queue>>
             /\ created \subseteq created' /\ pc[c] = "idle"
  BY <1>2 DEF Then
<1>3. ASSUME NEW s \in Systems, NEW j \in Jobs, NEW p \in JobPriorities,
             ScheduleJob(c, s, j, p)
      PROVE  /\ UNCHANGED <<jobState, locked, ready, created, queue, children, waitList, idx>>
             /\ \A t \in Threads : t # c => pc'[t] = pc[t] /\ job'[t] = job[t]
             /\ pc'[c] = "put"
  BY <1>3 DEF ScheduleJob
<1>4. ASSUME NEW js \in WaitLists, Wait(c, js)
      PROVE  /\ UNCHANGED <<jobState, locked, ready, created, queue, children, job>>
             /\ \A t \in Threads : t # c => pc'[t] = pc[t] /\ idx'[t] = idx[t]
             /\ \A d \in Clients : d # c => waitList'[d] = waitList[d]
             /\ pc'[c] = "waiting"
  BY <1>4 DEF Wait
<1>5. ASSUME NEW s \in Systems, WaitForAll(c, s)
      PROVE  /\ UNCHANGED <<jobState, locked, ready, created, queue, children, job, waitList, idx>>
             /\ \A t \in Threads : t # c => pc'[t] = pc[t]
             /\ pc'[c] = "waitAll"
  BY <1>5 DEF WaitForAll
<1>6. ASSUME c = Main, NEW blocking \in BOOLEAN, Shutdown(blocking)
      PROVE  /\ UNCHANGED <<jobState, locked, ready, created, queue, children, job, waitList, idx>>
             /\ \A t \in Threads : t # c => pc'[t] = pc[t]
             /\ pc'[c] \in {"joining", "idle"}
  BY <1>6 DEF Shutdown
<1>7. ASSUME ClientStep(c)
      PROVE  /\ UNCHANGED <<jobState, locked, ready, created, children>>
             /\ \A t \in Threads : t # c =>
                  pc'[t] = pc[t] /\ job'[t] = job[t] /\ idx'[t] = idx[t]
             /\ \A d \in Clients : d # c => waitList'[d] = waitList[d]
             /\ UNCHANGED queue \/ PutJob(c)
             /\ pc'[c] # "put"
             /\ pc'[c] = "countPut" => PutJob(c)
             /\ pc'[c] = "waiting" => CheckLock(c)
  <2>1. CASE PutJob(c)
    BY <2>1 DEF PutJob
  <2>2. CASE PutJobFull(c) \/ CountPut(c)
    BY <2>2 DEF PutJobFull, CountPut
  <2>3. CASE CheckLock(c)
    BY <2>3 DEF CheckLock
  <2>4. CASE WaitReturns(c)
    BY <2>4 DEF WaitReturns
  <2>5. CASE ReadSize(c)
    BY <2>5 DEF ReadSize
  <2>6. CASE ReadLastSize(c)
    BY <2>6 DEF ReadLastSize
  <2>7. CASE c = Main /\ JoinReturns
    BY <2>7 DEF JoinReturns
  <2> QED
    BY <1>7, <2>1, <2>2, <2>3, <2>4, <2>5, <2>6, <2>7 DEF ClientStep
<1> QED
  BY <1>1, <1>2, <1>3, <1>4, <1>5, <1>6, <1>7 DEF ClientCall

\* A free job stays free, unless the client enqueues it.
LEMMA FreeKeptByClient ==
  ASSUME TypeOK, ClientInv, NEW c \in Clients, ClientCall(c) \/ ClientStep(c),
         NEW j \in Jobs, Free(j), PutJob(c) => j # job[c]
  PROVE  Free(j)'
<1>1. Fresh(j)'
  BY ClientLocal DEF Free, Fresh
<1>2. \A w \in Workers : job'[w] # j
  BY ClientLocal, ThreadKinds DEF Free
<1>3. ASSUME NEW s \in Systems, NEW p \in Priorities, NEW i \in 1 .. Len(queue'[s][p])
      PROVE  queue'[s][p][i] # j
  <2>1. CASE UNCHANGED queue
    BY <1>3, <2>1 DEF Free
  <2>2. CASE PutJob(c)
    <3>1. /\ job[c] \in Jobs /\ job[c] # j
          /\ sys[c] \in Systems /\ scan[c] \in Priorities
          /\ Enqueue(sys[c], scan[c], job[c])
      BY <2>2, ThreadKinds DEF PutJob, Goto, ClientInv, TypeOK
    <3>2. \/ i \in 1 .. Len(queue[s][p]) /\ queue'[s][p][i] = queue[s][p][i]
          \/ queue'[s][p][i] = job[c]
      BY <1>3, <3>1, EnqueuePositions
    <3> QED
      BY <3>1, <3>2 DEF Free
  <2> QED
    BY <2>1, <2>2, ClientLocal
<1> QED
  BY <1>1, <1>2, <1>3 DEF Free

\* A job that a client may schedule is free.
LEMMA UnscheduledFree ==
  ASSUME JobInv, NEW j \in Jobs, Unscheduled(j)
  PROVE  Free(j)
<1>1. Fresh(j)
  BY DEF JobInv, StartedInv, UnlockedMeansDone, Unscheduled, Fresh
<1>2. \A w \in Workers : job[w] # j
  BY ThreadKinds DEF Unscheduled
<1>3. ASSUME NEW s \in Systems, NEW p \in Priorities, NEW i \in 1 .. Len(queue[s][p])
      PROVE  queue[s][p][i] # j
  <2>1. queue[s][p] \in Seq(Jobs)
    BY DEF JobInv, TypeOK
  <2>2. DOMAIN queue[s][p] = 1 .. Len(queue[s][p])
    BY <2>1
  <2> QED
    BY <1>3, <2>2 DEF Unscheduled, InQueue, ToSet
<1> QED
  BY <1>1, <1>2, <1>3 DEF Free

\* Clients take nothing from workers: Then only makes lists of children longer.
LEMMA ClientWorkers ==
  ASSUME JobInv, NEW c \in Clients, ClientCall(c) \/ ClientStep(c)
  PROVE  WorkerInv' /\ OneWorker'
<1> USE DEF JobInv
<1>1. /\ \A w \in Workers : pc'[w] = pc[w] /\ job'[w] = job[w] /\ idx'[w] = idx[w]
      /\ UNCHANGED <<jobState, locked, ready>>
  BY ClientLocal, ThreadKinds
<1>2. ASSUME NEW w \in Workers, pc[w] \in {"putChild", "countChild"}
      PROVE  idx[w] <= Len(children'[job[w]])
  <2>1. job[w] \in Jobs /\ idx[w] <= Len(children[job[w]])
    BY <1>2, ChildType
  <2>2. CASE UNCHANGED children
    BY <2>1, <2>2
  <2>3. ASSUME NEW parent \in Jobs, NEW j \in Jobs, Then(c, parent, j)
        PROVE  children'[job[w]] = children[job[w]]
    BY <1>2, <2>1, <2>3 DEF Then, TypeOK
  <2> QED
    BY <2>1, <2>2, <2>3, ClientLocal
<1>3. OneWorker'
  BY <1>1 DEF OneWorker
<1>4. ASSUME NEW w \in Workers PROVE WorkerHolds(w)'
  <2>1. WorkerHolds(w)
    BY DEF WorkerInv
  <2> QED
    BY <1>1, <1>2, <2>1 DEF WorkerHolds, Fresh
<1> QED
  BY <1>3, <1>4 DEF WorkerInv

\* What a client enqueues is free: it was in no queue and with no worker.
LEMMA ClientQueued ==
  ASSUME JobInv, NEW c \in Clients, ClientCall(c) \/ ClientStep(c)
  PROVE  QueuedInv'
<1> USE DEF JobInv
<1>1. /\ \A w \in Workers : job'[w] = job[w]
      /\ UNCHANGED <<jobState, locked, ready>>
  BY ClientLocal, ThreadKinds
<1>2. CASE UNCHANGED queue
  BY <1>1, <1>2 DEF QueuedInv, Fresh
<1>3. CASE PutJob(c)
  <2>1. PICK j \in Jobs : j = job[c]
    BY <1>3 DEF PutJob, Goto, ClientInv, TypeOK
  <2>2. /\ sys[c] \in Systems /\ scan[c] \in Priorities
        /\ Enqueue(sys[c], scan[c], j)
    BY <1>3, <2>1, ThreadKinds DEF PutJob, TypeOK
  <2>3. Free(j)
    BY <1>3, <2>1 DEF PutJob, Goto, ClientInv
  <2>5. ASSUME NEW s \in Systems, NEW p \in Priorities, NEW i \in 1 .. Len(queue'[s][p]),
               NEW r \in Systems, NEW q \in Priorities, NEW k \in 1 .. Len(queue'[r][q]),
               queue'[s][p][i] = queue'[r][q][k]
        PROVE  s = r /\ p = q /\ i = k
    <3>1. \/ i \in 1 .. Len(queue[s][p]) /\ queue'[s][p][i] = queue[s][p][i]
          \/ /\ s = sys[c] /\ p = scan[c] /\ i = Len(queue[sys[c]][scan[c]]) + 1
             /\ queue'[s][p][i] = j
      BY <2>2, EnqueuePositions
    <3>2. \/ k \in 1 .. Len(queue[r][q]) /\ queue'[r][q][k] = queue[r][q][k]
          \/ /\ r = sys[c] /\ q = scan[c] /\ k = Len(queue[sys[c]][scan[c]]) + 1
             /\ queue'[r][q][k] = j
      BY <2>2, EnqueuePositions
    <3>3. i \in 1 .. Len(queue[s][p]) => queue[s][p][i] # j
      BY <2>3 DEF Free
    <3>4. k \in 1 .. Len(queue[r][q]) => queue[r][q][k] # j
      BY <2>3 DEF Free
    <3>5. i \in 1 .. Len(queue[s][p]) /\ k \in 1 .. Len(queue[r][q])
            /\ queue[s][p][i] = queue[r][q][k] => s = r /\ p = q /\ i = k
      BY DEF QueuedInv
    <3> QED
      BY <2>5, <3>1, <3>2, <3>3, <3>4, <3>5
  <2>6. ASSUME NEW s \in Systems, NEW p \in Priorities, NEW i \in 1 .. Len(queue'[s][p])
        PROVE  Fresh(queue'[s][p][i]) /\ \A w \in Workers : job[w] # queue'[s][p][i]
    <3>1. CASE i \in 1 .. Len(queue[s][p]) /\ queue'[s][p][i] = queue[s][p][i]
      <4>1. Fresh(queue[s][p][i]) /\ \A w \in Workers : job[w] # queue[s][p][i]
        BY <3>1 DEF QueuedInv
      <4> QED
        BY <3>1, <4>1
    <3>2. CASE queue'[s][p][i] = j
      BY <2>3, <3>2 DEF Free
    <3> QED
      BY <2>2, <3>1, <3>2, EnqueuePositions
  <2> QED
    <3>1. ASSUME NEW s \in Systems, NEW p \in Priorities, NEW i \in 1 .. Len(queue'[s][p])
          PROVE  /\ jobState'[queue'[s][p][i]] = "Queued"
                 /\ locked'[queue'[s][p][i]] /\ ~ready'[queue'[s][p][i]]
                 /\ \A w \in Workers : job'[w] # queue'[s][p][i]
      BY <1>1, <2>6 DEF Fresh
    <3> QED
      BY <2>5, <3>1 DEF QueuedInv, Fresh
<1> QED
  BY <1>2, <1>3, ClientLocal

\* The jobs that client steps make children are not created before.
LEMMA ClientChildrenGrow ==
  ASSUME JobInv, NEW c \in Clients, ClientCall(c) \/ ClientStep(c),
         NEW parent \in Jobs, NEW i \in 1 .. Len(children'[parent])
  PROVE  \/ i \in 1 .. Len(children[parent]) /\ children'[parent][i] = children[parent][i]
         \/ /\ i = Len(children[parent]) + 1
            /\ children'[parent][i] \in (Jobs \cap created') \ created
            /\ \A other \in Jobs : other # parent => children'[other] = children[other]
<1> USE DEF JobInv
<1>1. children[parent] \in Seq(Jobs)
  BY DEF TypeOK
<1>2. CASE UNCHANGED children
  BY <1>2
<1>3. ASSUME NEW k \in Jobs, NEW j \in Jobs, Then(c, k, j)
      PROVE  \/ i \in 1 .. Len(children[parent]) /\ children'[parent][i] = children[parent][i]
             \/ /\ i = Len(children[parent]) + 1
                /\ children'[parent][i] \in (Jobs \cap created') \ created
                /\ \A other \in Jobs : other # parent => children'[other] = children[other]
  <2>1. /\ children' = [children EXCEPT ![k] = Append(children[k], j)]
        /\ j \notin created /\ j \in created'
    BY <1>3 DEF Then
  <2>2. \A other \in Jobs : other # k => children'[other] = children[other]
    BY <2>1 DEF TypeOK
  <2>3. CASE parent = k
    <3>1. children'[parent] = Append(children[parent], j)
      BY <2>1, <2>3 DEF TypeOK
    <3> QED
      BY <1>1, <2>1, <2>2, <2>3, <3>1
  <2>4. CASE parent # k
    BY <2>2, <2>4
  <2> QED
    BY <2>3, <2>4
<1> QED
  BY <1>2, <1>3, ClientLocal

\* A job that was created and was no child has not become one.
LEMMA ClientChild ==
  ASSUME JobInv, NEW c \in Clients, ClientCall(c) \/ ClientStep(c),
         NEW j \in Jobs, j \in created, ~IsChild(j)
  PROVE  ~IsChild(j)'
<1> USE DEF JobInv
<1>1. \A k \in Jobs : children[k] \in Seq(Jobs) /\ children'[k] \in Seq(Jobs)
  BY ClientTypeStep DEF TypeOK
<1>2. \A k \in Jobs : \A i \in 1 .. Len(children[k]) : children[k][i] # j
  BY <1>1 DEF IsChild, ToSet
<1>3. \A k \in Jobs : \A i \in 1 .. Len(children'[k]) : children'[k][i] # j
  BY <1>2, ClientChildrenGrow
<1> QED
  BY <1>1, <1>3 DEF IsChild, ToSet

\* A client is the only one about to enqueue its job, which stays no child.
LEMMA ClientClients ==
  ASSUME JobInv, NEW c \in Clients, ClientCall(c) \/ ClientStep(c)
  PROVE  ClientInv'
<1> USE DEF JobInv
<1>1. \A d \in Clients : d # c => pc'[d] = pc[d] /\ job'[d] = job[d] /\ idx'[d] = idx[d]
  BY ClientLocal, ThreadKinds
<1>2. created \subseteq created'
  BY ClientLocal
<1>3. ASSUME NEW d \in Clients, d # c, pc[d] \in {"put", "countPut"}
      PROVE  job[d] \in created' /\ ~IsChild(job[d])' /\ (pc[d] = "put" => Free(job[d])')
  <2>1. PICK j \in Jobs : j = job[d]
    BY <1>3 DEF ClientInv, TypeOK
  <2>2. j \in created /\ ~IsChild(j) /\ (pc[d] = "put" => Free(j))
    BY <1>3, <2>1 DEF ClientInv
  <2>3. ~IsChild(j)'
    BY <2>2, ClientChild
  <2>4. pc[d] = "put" => Free(j)'
    <3>1. SUFFICES ASSUME pc[d] = "put" PROVE Free(j)'
      OBVIOUS
    <3>2. PutJob(c) => j # job[c]
      BY <1>3, <2>1, <3>1 DEF PutJob, Goto, ClientInv
    <3> QED
      BY <2>2, <3>1, <3>2, FreeKeptByClient
  <2>5. job'[d] = j
    BY <1>1, <1>3, <2>1
  <2> QED
    BY <1>2, <2>1, <2>2, <2>3, <2>4, <2>5 DEF Free, Fresh, IsChild
<1>4. CASE pc'[c] = "put"
  <2>1. PICK s \in Systems, j \in Jobs, p \in JobPriorities : ScheduleJob(c, s, j, p)
    BY <1>4, ClientLocal
  <2>2. job' = [job EXCEPT ![c] = j] /\ Unscheduled(j) /\ ~PutJob(c)
    BY <1>4, <2>1, ThreadKinds DEF ScheduleJob, PutJob, Goto, TypeOK
  <2>3. job'[c] = j
    BY <2>2, ThreadKinds DEF TypeOK
  <2>4. Free(j)'
    BY <2>2, UnscheduledFree, FreeKeptByClient
  <2>5. j \in created' /\ ~IsChild(j)'
    BY <1>2, <2>2, ClientChild DEF Unscheduled
  <2>6. \A d \in Clients : d # c => job[d] # j
    BY <2>2, ThreadKinds DEF Unscheduled
  <2>7. Free(job[c])'
    BY <2>3, <2>4 DEF Free, Fresh
  <2>8. job'[c] \in created' /\ ~IsChild(job[c])'
    BY <2>3, <2>5 DEF IsChild
  <2> QED
    BY <1>1, <1>3, <1>4, <2>3, <2>6, <2>7, <2>8 DEF ClientInv
<1>5. CASE pc'[c] = "countPut"
  <2>1. PutJob(c)
    BY <1>5, ClientLocal
  <2>2. PICK j \in Jobs : j = job[c] /\ job'[c] = j
    BY <2>1 DEF PutJob, Goto, ClientInv, TypeOK
  <2>3. j \in created /\ ~IsChild(j)
    BY <2>1, <2>2 DEF PutJob, Goto, ClientInv
  <2>4. j \in created' /\ ~IsChild(j)'
    BY <1>2, <2>3, ClientChild
  <2>5. job'[c] \in created' /\ ~IsChild(job[c])'
    BY <2>2, <2>4 DEF IsChild
  <2> QED
    BY <1>1, <1>3, <1>5, <2>5 DEF ClientInv
<1>6. CASE pc'[c] = "waiting"
  <2>1. idx'[c] >= 1
    <3>1. CASE CheckLock(c)
      BY <3>1, ThreadKinds DEF CheckLock, ClientInv, TypeOK
    <3>2. ASSUME NEW js \in WaitLists, Wait(c, js) PROVE idx'[c] >= 1
      BY <3>2, ThreadKinds DEF Wait, TypeOK
    <3> QED
      BY <1>6, <3>1, <3>2, ClientLocal
  <2> QED
    BY <1>1, <1>3, <1>6, <2>1 DEF ClientInv
<1>7. CASE pc'[c] \notin {"put", "countPut", "waiting"}
  BY <1>1, <1>3, <1>7 DEF ClientInv
<1> QED
  BY <1>4, <1>5, <1>6, <1>7

\* A new child is new to everybody; an older one stays free while it is unsent.
LEMMA ClientChildren ==
  ASSUME JobInv, NEW c \in Clients, ClientCall(c) \/ ClientStep(c)
  PROVE  ChildInv'
<1> USE DEF JobInv
<1>1. \A j \in Jobs : j \notin created => Free(j)
  BY DEF NotCreatedInv
<1>2. PutJob(c) => job[c] \in created /\ ~IsChild(job[c])
  BY DEF PutJob, Goto, ClientInv
<1>3. \A k \in Jobs : children[k] \in Seq(Jobs)
  BY DEF TypeOK
<1>4. ASSUME NEW parent \in Jobs, NEW i \in 1 .. Len(children[parent])
      PROVE  /\ children[parent][i] \in Jobs \cap created
             /\ PutJob(c) => children[parent][i] # job[c]
  <2>1. children[parent][i] \in ToSet(children[parent])
    BY <1>3 DEF ToSet
  <2>2. children[parent][i] \in Jobs \cap created
    BY <1>3 DEF ChildInv
  <2> QED
    BY <1>2, <2>1, <2>2 DEF IsChild
<1>5. ASSUME NEW parent \in Jobs, NEW i \in 1 .. Len(children'[parent])
      PROVE  /\ children'[parent][i] \in created'
             /\ Unsent(parent, i)' => Free(children[parent][i])'
  <2>1. CASE i \in 1 .. Len(children[parent]) /\ children'[parent][i] = children[parent][i]
    <3>1. PICK j \in Jobs \cap created : j = children[parent][i]
      BY <1>4, <2>1
    <3>2. PutJob(c) => j # job[c]
      BY <1>4, <2>1, <3>1
    <3>3. Unsent(parent, i)' => Unsent(parent, i)
      BY ClientLocal, ThreadKinds DEF Unsent
    <3>4. Unsent(parent, i)' => Free(j)'
      BY <2>1, <3>1, <3>2, <3>3, FreeKeptByClient DEF ChildInv
    <3>5. j \in created'
      BY <3>1, ClientLocal
    <3> QED
      BY <2>1, <3>1, <3>4, <3>5 DEF Free, Fresh
  <2>2. CASE children'[parent][i] \in (Jobs \cap created') \ created
    <3>1. PICK j \in (Jobs \cap created') \ created : j = children'[parent][i]
      BY <2>2
    <3>2. Free(j)'
      BY <1>1, <1>2, <3>1, FreeKeptByClient
    <3> QED
      BY <2>2, <3>1, <3>2 DEF Free, Fresh
  <2> QED
    BY <2>1, <2>2, ClientChildrenGrow
<1>6. ASSUME NEW parent \in Jobs, NEW i \in 1 .. Len(children'[parent]),
             NEW other \in Jobs, NEW k \in 1 .. Len(children'[other]),
             children'[parent][i] = children'[other][k]
      PROVE  parent = other /\ i = k
  <2>1. \/ i \in 1 .. Len(children[parent]) /\ children'[parent][i] = children[parent][i]
        \/ /\ i = Len(children[parent]) + 1
           /\ children'[parent][i] \notin created
           /\ \A o \in Jobs : o # parent => children'[o] = children[o]
    BY ClientChildrenGrow
  <2>2. \/ k \in 1 .. Len(children[other]) /\ children'[other][k] = children[other][k]
        \/ /\ k = Len(children[other]) + 1
           /\ children'[other][k] \notin created
           /\ \A o \in Jobs : o # other => children'[o] = children[o]
    BY ClientChildrenGrow
  <2>3. i \in 1 .. Len(children[parent]) => children[parent][i] \in created
    BY <1>4
  <2>4. k \in 1 .. Len(children[other]) => children[other][k] \in created
    BY <1>4
  <2>5. CASE i \in 1 .. Len(children[parent]) /\ k \in 1 .. Len(children[other])
    <3>1. children'[parent][i] = children[parent][i] /\ children'[other][k] = children[other][k]
      BY <1>3, <2>1, <2>2, <2>5
    <3>2. children[parent][i] = children[other][k]
      BY <1>6, <3>1
    <3> QED
      BY <2>5, <3>2 DEF ChildInv
  <2>6. CASE ~(i \in 1 .. Len(children[parent])) /\ ~(k \in 1 .. Len(children[other]))
    BY <1>3, <2>1, <2>2, <2>6
  <2> QED
    BY <1>6, <2>1, <2>2, <2>3, <2>4, <2>5, <2>6
<1> QED
  BY <1>5, <1>6 DEF ChildInv

\* The jobs not created after a client's step were not created before.
LEMMA ClientNotCreated ==
  ASSUME JobInv, NEW c \in Clients, ClientCall(c) \/ ClientStep(c)
  PROVE  NotCreatedInv'
<1> USE DEF JobInv
<1>1. SUFFICES ASSUME NEW j \in Jobs, j \notin created'
               PROVE  Free(j)' /\ \A d \in Clients : pc'[d] = "put" => job'[d] # j
  BY DEF NotCreatedInv
<1>2. j \notin created
  BY <1>1, ClientLocal
<1>3. Free(j) /\ \A d \in Clients : pc[d] = "put" => job[d] # j
  BY <1>2 DEF NotCreatedInv
<1>4. PutJob(c) => j # job[c]
  BY <1>3 DEF PutJob, Goto
<1>5. Free(j)'
  BY <1>3, <1>4, FreeKeptByClient
<1>6. \A d \in Clients : pc'[d] = "put" => job'[d] \in created'
  BY ClientClients DEF ClientInv
<1> QED
  BY <1>1, <1>5, <1>6

\* A waiter's scan goes on past unlocked jobs and starts again at a locked one.
LEMMA ClientWaiters ==
  ASSUME JobInv, NEW c \in Clients, ClientCall(c) \/ ClientStep(c)
  PROVE  WaitInv'
<1> USE DEF JobInv
<1>1. \A d \in Clients : d # c =>
        pc'[d] = pc[d] /\ idx'[d] = idx[d] /\ waitList'[d] = waitList[d]
  BY ClientLocal, ThreadKinds
<1>2. UNCHANGED locked
  BY ClientLocal
<1>3. ASSUME pc'[c] = "waiting", NEW i \in 1 .. Len(waitList'[c]), i < idx'[c]
      PROVE  ~locked[waitList'[c][i]]
  <2>1. CASE CheckLock(c)
    <3>1. /\ waitList' = waitList /\ pc[c] = "waiting"
          /\ waitList[c] \in Seq(Jobs) /\ idx[c] \in Nat
      BY <2>1, ThreadKinds DEF CheckLock, TypeOK
    <3>2. idx'[c] = IF locked[waitList[c][idx[c]]] THEN 1 ELSE idx[c] + 1
      BY <2>1, ThreadKinds DEF CheckLock, TypeOK
    <3>3. CASE locked[waitList[c][idx[c]]]
      BY <1>3, <3>1, <3>2, <3>3
    <3>4. CASE ~locked[waitList[c][idx[c]]]
      <4>1. i < idx[c] \/ i = idx[c]
        BY <1>3, <3>1, <3>2, <3>4
      <4> QED
        BY <3>1, <3>4, <4>1 DEF WaitInv
    <3> QED
      BY <3>3, <3>4
  <2>2. ASSUME NEW js \in WaitLists, Wait(c, js) PROVE FALSE
    <3>1. idx'[c] = 1
      BY <2>2, ThreadKinds DEF Wait, TypeOK
    <3>2. i \in Nat /\ i >= 1
      BY <1>3, ClientTypeStep DEF TypeOK
    <3> QED
      BY <1>3, <3>1, <3>2
  <2> QED
    BY <1>3, <2>1, <2>2, ClientLocal
<1> QED
  BY <1>1, <1>2, <1>3 DEF WaitInv

\* The steps of clients preserve the invariant.
LEMMA ClientJobInv ==
  ASSUME JobInv, NEW c \in Clients, ClientCall(c) \/ ClientStep(c)
  PROVE  JobInv'
<1>1. TypeOK'
  BY ClientTypeStep DEF JobInv
<1>2. StartedInv' /\ UnlockedMeansDone'
  BY ClientLocal DEF JobInv, StartedInv, UnlockedMeansDone
<1> QED
  BY <1>1, <1>2, ClientWorkers, ClientQueued, ClientClients, ClientChildren,
     ClientNotCreated, ClientWaiters DEF JobInv

------------------------------------------------------------------------------
(* The theorems                                                             *)

\* The invariant holds initially.
LEMMA JobInvInit == Init => JobInv
<1> SUFFICES ASSUME Init PROVE JobInv
  OBVIOUS
<1>1. TypeOK
  BY TypeInit
<1>2. /\ \A j \in Jobs : Fresh(j) /\ children[j] = << >>
      /\ \A s \in Systems, p \in Priorities : queue[s][p] = << >>
      /\ \A t \in Threads : job[t] = NoJob
      /\ \A c \in Clients : pc[c] = "idle"
      /\ \A w \in Workers : pc[w] = "loop" /\ job[w] = NoJob
  BY ThreadKinds DEF Init, Fresh
<1>3. /\ \A j \in Jobs : Len(children[j]) = 0
      /\ \A s \in Systems, p \in Priorities : Len(queue[s][p]) = 0
  BY <1>2
<1>4. WorkerInv /\ OneWorker
  BY <1>2 DEF WorkerInv, WorkerHolds, OneWorker
<1>5. QueuedInv /\ ChildInv
  BY <1>3 DEF QueuedInv, ChildInv
<1>6. \A j \in Jobs : Free(j)
  BY <1>2, <1>3, JobSystemAssumption DEF Free
<1>7. ClientInv /\ NotCreatedInv /\ WaitInv
  BY <1>2, <1>6 DEF ClientInv, NotCreatedInv, WaitInv
<1>8. StartedInv /\ UnlockedMeansDone
  BY <1>2 DEF StartedInv, UnlockedMeansDone, Fresh
<1> QED
  BY <1>1, <1>4, <1>5, <1>7, <1>8 DEF JobInv

\* The invariant is inductive.
LEMMA JobInvStep == JobInv /\ [Next]_vars => JobInv'
<1> SUFFICES ASSUME JobInv, [Next]_vars PROVE JobInv'
  OBVIOUS
<1>1. CASE Next
  BY <1>1, WorkerJobInv, ClientJobInv DEF Next
<1>2. CASE UNCHANGED vars
  <2> USE <1>2 DEF JobInv, vars, jobVars, queueVars, globalVars, threadVars
  <2>1. TypeOK'
    BY DEF TypeOK
  <2>2. WorkerInv' /\ OneWorker'
    BY DEF WorkerInv, WorkerHolds, Fresh, OneWorker
  <2>3. QueuedInv'
    BY DEF QueuedInv, Fresh
  <2>4. ClientInv' /\ NotCreatedInv'
    BY DEF ClientInv, NotCreatedInv, Free, Fresh, IsChild
  <2>5. ChildInv'
    BY DEF ChildInv, Unsent, Free, Fresh
  <2>6. StartedInv' /\ UnlockedMeansDone' /\ WaitInv'
    BY DEF StartedInv, UnlockedMeansDone, WaitInv
  <2> QED
    BY <2>1, <2>2, <2>3, <2>4, <2>5, <2>6
<1> QED
  BY <1>1, <1>2

\* The invariant of the jobs holds in every reachable state, however many
\* threads, jobs and systems there are: workers, queues and parents share no job,
\* and a job's state, lock and result agree with the thread that works on it.
THEOREM JobInvariant == Spec => []JobInv
BY JobInvInit, JobInvStep, PTL DEF Spec

\* Every variable keeps its type; m_size stays a uint32_t.
THEOREM TypeCorrect == Spec => []TypeOK
<1>1. JobInv => TypeOK
  BY DEF JobInv
<1> QED
  BY <1>1, JobInvariant, PTL

\* Whoever sees m_locked false may use the result: the function has returned and
\* the job is Finished.
THEOREM UnlockedJobsAreDone == Spec => []UnlockedMeansDone
<1>1. JobInv => UnlockedMeansDone
  BY DEF JobInv
<1> QED
  BY <1>1, JobInvariant, PTL

\* Wait returns when all the jobs it was given are Finished with a result, also
\* when other jobs of the list were unlocked long before.
THEOREM WaitsForDone == Spec => WaitMeansDone
<1>1. ASSUME JobInv, NEW c \in Clients, pc[c] = "waiting", pc'[c] = "idle", Next,
             NEW j \in ToSet(waitList[c])
      PROVE  jobState[j] = "Finished" /\ ready[j]
  <2> USE <1>1 DEF JobInv
  <2>1. WaitReturns(c)
    <3>1. ASSUME NEW w \in Workers, WorkerStep(w) PROVE FALSE
      <4>1. pc'[c] = pc[c]
        BY <3>1, WorkerLocal, ThreadKinds
      <4> QED
        BY <1>1, <4>1
    <3>2. ASSUME NEW d \in Clients, ClientCall(d) \/ ClientStep(d) PROVE d = c
      <4>1. d # c => pc'[c] = pc[c]
        BY <3>2, ClientLocal, ThreadKinds
      <4> QED
        BY <1>1, <4>1
    <3>3. ~ClientCall(c)
      BY <1>1 DEF ClientCall, CreateJob, Then, ScheduleJob, Wait, WaitForAll, Shutdown, Goto
    <3>4. ClientStep(c) => CheckLock(c) \/ WaitReturns(c)
      BY <1>1 DEF ClientStep, PutJob, PutJobFull, CountPut, ReadSize, ReadLastSize,
                  JoinReturns, Goto
    <3>5. ~CheckLock(c)
      BY <1>1 DEF CheckLock
    <3> QED
      BY <1>1, <3>1, <3>2, <3>3, <3>4, <3>5 DEF Next
  <2>2. waitList[c] \in Seq(Jobs) /\ idx[c] \in Nat /\ idx[c] > Len(waitList[c])
    BY <2>1, ThreadKinds DEF WaitReturns, TypeOK
  <2>3. PICK i \in 1 .. Len(waitList[c]) : j = waitList[c][i]
    BY <2>2 DEF ToSet
  <2>4. j \in Jobs /\ ~locked[j]
    BY <1>1, <2>2, <2>3 DEF WaitInv
  <2> QED
    BY <2>4 DEF UnlockedMeansDone
<1>2. JobInv /\ [Next]_vars =>
        [\A c \in Clients :
           pc[c] = "waiting" /\ pc'[c] = "idle" =>
             \A j \in ToSet(waitList[c]) : jobState[j] = "Finished" /\ ready[j]]_vars
  BY <1>1
<1> QED
  BY <1>2, JobInvariant, PTL DEF Spec, WaitMeansDone

\* A worker calls the function of a job that nobody has called before: no job that
\* clients schedule once runs twice or on two workers.
THEOREM JobsRunOnce == Spec => RunsOnce
<1>1. ASSUME JobInv, NEW w \in Workers, pc[w] = "call"
      PROVE  jobState[job[w]] = "Queued"
  BY <1>1 DEF JobInv, WorkerInv, WorkerHolds, Fresh
<1>2. JobInv /\ [Next]_vars =>
        [\A w \in Workers :
           pc[w] = "call" /\ pc'[w] = "running" => jobState[job[w]] = "Queued"]_vars
  BY <1>1
<1> QED
  BY <1>2, JobInvariant, PTL DEF Spec, RunsOnce

\* A child is in no queue, with no worker and not started while its parent's
\* function has not returned, whatever else clients and workers do.
THEOREM ParentsFirst == Spec => []ChildrenAfterParent
<1>1. ASSUME JobInv, NEW parent \in Jobs, ~ready[parent], NEW j \in ToSet(children[parent])
      PROVE  jobState[j] = "Queued" /\ ~Scheduled(j)
  <2> USE <1>1 DEF JobInv
  <2>1. children[parent] \in Seq(Jobs)
    BY DEF TypeOK
  <2>2. PICK i \in 1 .. Len(children[parent]) : j = children[parent][i]
    BY <1>1, <2>1 DEF ToSet
  <2>3. Free(j)
    BY <1>1, <2>2 DEF ChildInv, Unsent
  <2>4. ~InQueue(j)
    <3>1. ASSUME NEW s \in Systems, NEW p \in Priorities PROVE j \notin ToSet(queue[s][p])
      <4>1. queue[s][p] \in Seq(Jobs)
        BY DEF TypeOK
      <4>2. DOMAIN queue[s][p] = 1 .. Len(queue[s][p])
        BY <4>1
      <4> QED
        BY <2>3, <4>2 DEF Free, ToSet
    <3> QED
      BY <3>1 DEF InQueue
  <2> QED
    BY <2>3, <2>4 DEF Scheduled, Free, Fresh
<1>2. JobInv => ChildrenAfterParent
  BY <1>1 DEF ChildrenAfterParent
<1> QED
  BY <1>2, JobInvariant, PTL

\* A job goes through its states forwards only, and never leaves Finished.
THEOREM JobsGoForward == Spec => JobLifecycle
<1>1. ASSUME JobInv, Next, NEW j \in Jobs, jobState'[j] # jobState[j]
      PROVE  jobState'[j] \in Successors[jobState[j]]
  <2> USE <1>1 DEF JobInv
  <2>1. ASSUME NEW c \in Clients, ClientCall(c) \/ ClientStep(c) PROVE FALSE
    BY <1>1, <2>1, ClientLocal
  <2>2. PICK w \in Workers : WorkerStep(w)
    BY <1>1, <2>1 DEF Next
  <2>3. j = job[w]
    BY <1>1, <2>2, WorkerLocal
  <2>4. jobState \in [Jobs -> JobStates] /\ WorkerHolds(w)
    BY DEF TypeOK, WorkerInv
  <2>5. CASE NextChild(w)
    <3>1. jobState'[j] = "Waiting" /\ jobState[j] \in {"Running", "Waiting"}
      BY <2>3, <2>4, <2>5 DEF NextChild, Goto, WorkerHolds
    <3> QED
      BY <1>1, <3>1 DEF Successors
  <2>6. CASE Finish(w)
    <3>1. jobState'[j] = "Finished" /\ jobState[j] \in {"Running", "Waiting"}
      BY <2>3, <2>4, <2>6 DEF Finish, Goto, WorkerHolds
    <3> QED
      BY <1>1, <3>1 DEF Successors
  <2>7. CASE Call(w)
    <3>1. jobState'[j] = "Running" /\ jobState[j] = "Queued"
      BY <2>3, <2>4, <2>7 DEF Call, Goto, WorkerHolds, Fresh
    <3> QED
      BY <1>1, <3>1 DEF Successors
  <2>8. CASE ~NextChild(w) /\ ~Finish(w) /\ ~Call(w)
    <3>1. jobState' = jobState
      BY <2>2, <2>8 DEF WorkerStep, LoopTest, GetSystem, PutChild, PutChildFull, CountChild,
         ReleaseLock, TakeJob, TryNextQueue, FindNothing, CountTake, FunctionReturns, jobVars
    <3> QED
      BY <1>1, <3>1
  <2> QED
    BY <2>5, <2>6, <2>7, <2>8
<1>2. JobInv /\ [Next]_vars =>
        [\A j \in Jobs :
           jobState'[j] # jobState[j] => jobState'[j] \in Successors[jobState[j]]]_vars
  BY <1>1
<1> QED
  BY <1>2, JobInvariant, PTL DEF Spec, JobLifecycle

------------------------------------------------------------------------------
(* m_size counts the jobs of its queue                                      *)

\* The number that the m_size of a queue stands for.
Counted(s, p) ==
  Len(queue[s][p]) - Cardinality(Enqueued(s, p)) + Cardinality(Taken(s, p))

\* A step of t leaves the calls of the other threads alone.
OthersStay(t) ==
  \A u \in Threads : u # t => pc'[u] = pc[u] /\ sys'[u] = sys[u] /\ scan'[u] = scan[u]

\* The statements at which a call has taken effect and has still to count.
CountPCs == {"countChild", "countPut", "countTake"}

LEMMA CountedType ==
  ASSUME IsFiniteSet(Threads), TypeOK, NEW s \in Systems, NEW p \in Priorities
  PROVE  /\ Enqueued(s, p) \in SUBSET Threads /\ Taken(s, p) \in SUBSET Threads
         /\ Cardinality(Enqueued(s, p)) \in Nat /\ Cardinality(Taken(s, p)) \in Nat
         /\ Len(queue[s][p]) \in Nat /\ Counted(s, p) \in Int
<1>1. Enqueued(s, p) \in SUBSET Threads /\ Taken(s, p) \in SUBSET Threads
  BY DEF Enqueued, Taken
<1>2. Cardinality(Enqueued(s, p)) \in Nat /\ Cardinality(Taken(s, p)) \in Nat
  BY <1>1, FS_Subset, FS_CardinalityType
<1>3. queue[s][p] \in Seq(Jobs) /\ Len(queue[s][p]) \in Nat
  BY DEF TypeOK
<1> QED
  BY <1>1, <1>2, <1>3 DEF Counted

\* A step that touches no queue and no size, of a thread that has nothing to count.
LEMMA NothingCounted ==
  ASSUME TypeOK, SizesCountJobs, NEW t \in Threads, OthersStay(t),
         pc[t] \notin CountPCs, pc'[t] \notin CountPCs, UNCHANGED <<queue, size>>
  PROVE  SizesCountJobs'
<1> SUFFICES ASSUME NEW s \in Systems, NEW p \in Priorities
             PROVE  (size[s][p] = Counted(s, p) % SizeMod)'
  BY DEF SizesCountJobs, Counted
<1>1. Enqueued(s, p)' = Enqueued(s, p) /\ Taken(s, p)' = Taken(s, p)
  BY DEF Enqueued, Taken, OthersStay, CountPCs
<1> QED
  BY <1>1 DEF SizesCountJobs, Counted

\* An enqueue takes effect: one job more, and one thread that has still to count it.
LEMMA PutCounted ==
  ASSUME IsFiniteSet(Threads), TypeOK, TypeOK', SizesCountJobs,
         NEW t \in Threads, NEW j \in Jobs, OthersStay(t), UNCHANGED <<size, sys, scan>>,
         pc[t] \notin CountPCs, pc'[t] \in {"countChild", "countPut"},
         Enqueue(sys[t], scan[t], j)
  PROVE  SizesCountJobs'
<1> SUFFICES ASSUME NEW s \in Systems, NEW p \in Priorities
             PROVE  (size[s][p] = Counted(s, p) % SizeMod)'
  BY DEF SizesCountJobs, Counted
<1> DEFINE e == Cardinality(Enqueued(s, p))
           k == Cardinality(Taken(s, p))
           n == Len(queue[s][p])
<1>0. e \in Nat /\ k \in Nat /\ n \in Nat /\ Counted(s, p) = n - e + k
  BY CountedType DEF Counted
<1>1. Counted(s, p)' = n' - e' + k'
  BY DEF Counted
<1>2. sys[t] \in Systems /\ scan[t] \in Priorities /\ queue[s][p] \in Seq(Jobs)
  BY DEF TypeOK
<1>3. Taken(s, p)' = Taken(s, p)
  BY DEF Taken, OthersStay, CountPCs
<1>4. CASE sys[t] = s /\ scan[t] = p
  <2>1. Enqueued(s, p)' = Enqueued(s, p) \cup {t} /\ t \notin Enqueued(s, p)
    BY <1>4 DEF Enqueued, OthersStay, CountPCs
  <2>2. e' = e + 1
    BY <2>1, CountedType, ThreadEnters
  <2>3. queue'[s][p] = Append(queue[s][p], j)
    BY <1>2, <1>4 DEF Enqueue, TypeOK
  <2>4. n' = n + 1
    BY <1>2, <2>3
  <2>5. Counted(s, p)' = Counted(s, p)
    <3>1. k' = k
      BY <1>3
    <3> HIDE DEF e, k, n
    <3> QED
      BY <1>0, <1>1, <2>2, <2>4, <3>1
  <2> QED
    BY <2>5 DEF SizesCountJobs, Counted
<1>5. CASE ~(sys[t] = s /\ scan[t] = p)
  <2>1. Enqueued(s, p)' = Enqueued(s, p)
    BY <1>5 DEF Enqueued, OthersStay
  <2>2. queue'[s][p] = queue[s][p]
    BY <1>2, <1>5 DEF Enqueue, TypeOK
  <2> QED
    BY <1>3, <2>1, <2>2 DEF SizesCountJobs, Counted
<1> QED
  BY <1>4, <1>5

\* A dequeue takes effect: one job less, and one thread that has still to count it.
LEMMA TakeCounted ==
  ASSUME IsFiniteSet(Threads), TypeOK, TypeOK', SizesCountJobs,
         NEW t \in Threads, OthersStay(t), UNCHANGED <<size, sys, scan>>,
         pc[t] \notin CountPCs, pc'[t] = "countTake", Dequeue(t, sys[t], scan[t])
  PROVE  SizesCountJobs'
<1> SUFFICES ASSUME NEW s \in Systems, NEW p \in Priorities
             PROVE  (size[s][p] = Counted(s, p) % SizeMod)'
  BY DEF SizesCountJobs, Counted
<1> DEFINE e == Cardinality(Enqueued(s, p))
           k == Cardinality(Taken(s, p))
           n == Len(queue[s][p])
<1>0. e \in Nat /\ k \in Nat /\ n \in Nat /\ Counted(s, p) = n - e + k
  BY CountedType DEF Counted
<1>1. Counted(s, p)' = n' - e' + k'
  BY DEF Counted
<1>2. sys[t] \in Systems /\ scan[t] \in Priorities /\ queue[s][p] \in Seq(Jobs)
  BY DEF TypeOK
<1>3. Enqueued(s, p)' = Enqueued(s, p)
  BY DEF Enqueued, OthersStay, CountPCs
<1>4. CASE sys[t] = s /\ scan[t] = p
  <2>1. Taken(s, p)' = Taken(s, p) \cup {t} /\ t \notin Taken(s, p)
    BY <1>4 DEF Taken, OthersStay, CountPCs
  <2>2. k' = k + 1
    BY <2>1, CountedType, ThreadEnters
  <2>3. queue'[s][p] = Tail(queue[s][p]) /\ queue[s][p] # << >>
    BY <1>2, <1>4 DEF Dequeue, TypeOK
  <2>4. n' = n - 1
    BY <1>2, <2>3
  <2>5. Counted(s, p)' = Counted(s, p)
    <3>1. e' = e
      BY <1>3
    <3> HIDE DEF e, k, n
    <3> QED
      BY <1>0, <1>1, <2>2, <2>4, <3>1
  <2> QED
    BY <2>5 DEF SizesCountJobs, Counted
<1>5. CASE ~(sys[t] = s /\ scan[t] = p)
  <2>1. Taken(s, p)' = Taken(s, p)
    BY <1>5 DEF Taken, OthersStay
  <2>2. queue'[s][p] = queue[s][p]
    BY <1>2, <1>5 DEF Dequeue, TypeOK
  <2> QED
    BY <1>3, <2>1, <2>2 DEF SizesCountJobs, Counted
<1> QED
  BY <1>4, <1>5

\* The m_size of one queue is counted up or down, and no other.
LEMMA CountOne ==
  ASSUME TypeOK, NEW s \in Systems, NEW p \in Priorities,
         NEW r \in Systems, NEW q \in Priorities, NEW n \in Int, Count(r, q, n)
  PROVE  size'[s][p] = IF r = s /\ q = p THEN (size[s][p] + n) % SizeMod ELSE size[s][p]
BY DEF Count, TypeOK

\* An enqueue that counts leaves the threads that have still to.
LEMMA PutCounts ==
  ASSUME IsFiniteSet(Threads), TypeOK, TypeOK', SizesCountJobs,
         NEW t \in Threads, OthersStay(t), UNCHANGED queue,
         pc[t] \in {"countChild", "countPut"}, pc'[t] \notin CountPCs,
         Count(sys[t], scan[t], 1)
  PROVE  SizesCountJobs'
<1> SUFFICES ASSUME NEW s \in Systems, NEW p \in Priorities
             PROVE  (size[s][p] = Counted(s, p) % SizeMod)'
  BY DEF SizesCountJobs, Counted
<1> DEFINE e == Cardinality(Enqueued(s, p))
           k == Cardinality(Taken(s, p))
           n == Len(queue[s][p])
<1>0. e \in Nat /\ k \in Nat /\ n \in Nat /\ Counted(s, p) = n - e + k
  BY CountedType DEF Counted
<1>1. Counted(s, p)' = n' - e' + k'
  BY DEF Counted
<1>2. sys[t] \in Systems /\ scan[t] \in Priorities
  BY DEF TypeOK
<1>3. Taken(s, p)' = Taken(s, p)
  BY DEF Taken, OthersStay, CountPCs
<1>4. size[s][p] = Counted(s, p) % SizeMod
  BY DEF SizesCountJobs, Counted
<1>5. CASE sys[t] = s /\ scan[t] = p
  <2>1. Enqueued(s, p)' = Enqueued(s, p) \ {t} /\ t \in Enqueued(s, p)
    BY <1>5 DEF Enqueued, OthersStay, CountPCs
  <2>2. e' = e - 1
    BY <2>1, CountedType, ThreadLeaves
  <2>3. Counted(s, p)' = Counted(s, p) + 1
    <3>1. k' = k /\ n' = n
      BY <1>3
    <3> HIDE DEF e, k, n
    <3> QED
      BY <1>0, <1>1, <2>2, <3>1
  <2>4. size'[s][p] = (size[s][p] + 1) % SizeMod
    BY <1>2, <1>5, CountOne
  <2> QED
    BY <1>4, <2>3, <2>4, CountedType, CountReduced, JobSystemAssumption
<1>6. CASE ~(sys[t] = s /\ scan[t] = p)
  <2>1. Enqueued(s, p)' = Enqueued(s, p)
    BY <1>6 DEF Enqueued, OthersStay, CountPCs
  <2>2. size'[s][p] = size[s][p]
    BY <1>2, <1>6, CountOne
  <2> QED
    BY <1>3, <1>4, <2>1, <2>2 DEF Counted
<1> QED
  BY <1>5, <1>6

\* So does a dequeue that counts.
LEMMA TakeCounts ==
  ASSUME IsFiniteSet(Threads), TypeOK, TypeOK', SizesCountJobs,
         NEW t \in Threads, OthersStay(t), UNCHANGED queue,
         pc[t] = "countTake", pc'[t] \notin CountPCs, Count(sys[t], scan[t], -1)
  PROVE  SizesCountJobs'
<1> SUFFICES ASSUME NEW s \in Systems, NEW p \in Priorities
             PROVE  (size[s][p] = Counted(s, p) % SizeMod)'
  BY DEF SizesCountJobs, Counted
<1> DEFINE e == Cardinality(Enqueued(s, p))
           k == Cardinality(Taken(s, p))
           n == Len(queue[s][p])
<1>0. e \in Nat /\ k \in Nat /\ n \in Nat /\ Counted(s, p) = n - e + k
  BY CountedType DEF Counted
<1>1. Counted(s, p)' = n' - e' + k'
  BY DEF Counted
<1>2. sys[t] \in Systems /\ scan[t] \in Priorities
  BY DEF TypeOK
<1>3. Enqueued(s, p)' = Enqueued(s, p)
  BY DEF Enqueued, OthersStay, CountPCs
<1>4. size[s][p] = Counted(s, p) % SizeMod
  BY DEF SizesCountJobs, Counted
<1>5. CASE sys[t] = s /\ scan[t] = p
  <2>1. Taken(s, p)' = Taken(s, p) \ {t} /\ t \in Taken(s, p)
    BY <1>5 DEF Taken, OthersStay, CountPCs
  <2>2. k' = k - 1
    BY <2>1, CountedType, ThreadLeaves
  <2>3. Counted(s, p)' = Counted(s, p) + (-1)
    <3>1. e' = e /\ n' = n
      BY <1>3
    <3> HIDE DEF e, k, n
    <3> QED
      BY <1>0, <1>1, <2>2, <3>1
  <2>4. size'[s][p] = (size[s][p] + (-1)) % SizeMod
    BY <1>2, <1>5, CountOne
  <2> QED
    BY <1>4, <2>3, <2>4, CountedType, CountReduced, JobSystemAssumption
<1>6. CASE ~(sys[t] = s /\ scan[t] = p)
  <2>1. Taken(s, p)' = Taken(s, p)
    BY <1>6 DEF Taken, OthersStay, CountPCs
  <2>2. size'[s][p] = size[s][p]
    BY <1>2, <1>6, CountOne
  <2> QED
    BY <1>3, <1>4, <2>1, <2>2 DEF Counted
<1> QED
  BY <1>5, <1>6

LEMMA WorkerSizes ==
  ASSUME IsFiniteSet(Threads), JobInv, TypeOK', SizesCountJobs,
         NEW w \in Workers, WorkerStep(w)
  PROVE  SizesCountJobs'
<1> USE ThreadKinds DEF Goto, CountPCs, jobVars, queueVars, globalVars, threadVars
<1>0. /\ TypeOK /\ WorkerInv
      /\ pc \in [Threads -> WorkerPCs \cup ClientPCs] /\ sys \in [Threads -> Systems]
      /\ scan \in [Threads -> Priorities]
  BY DEF JobInv, TypeOK
<1>1. CASE PutChild(w)
  <2>1. Child(w) \in Jobs /\ Enqueue(sys[w], scan[w], Child(w))
    BY <1>0, <1>1, ChildType DEF PutChild
  <2>2. OthersStay(w) /\ pc[w] = "putChild" /\ pc'[w] = "countChild"
    BY <1>0, <1>1 DEF PutChild, OthersStay
  <2>3. UNCHANGED <<size, sys, scan>>
    BY <1>1 DEF PutChild
  <2> QED
    BY <1>0, <2>1, <2>2, <2>3, PutCounted
<1>2. CASE CountChild(w)
  <2>1. OthersStay(w) /\ pc[w] = "countChild" /\ pc'[w] = "children"
    BY <1>0, <1>2 DEF CountChild, OthersStay
  <2>2. Count(sys[w], scan[w], 1) /\ UNCHANGED queue
    BY <1>2 DEF CountChild
  <2> QED
    BY <1>0, <2>1, <2>2, PutCounts
<1>3. CASE TakeJob(w)
  <2>1. OthersStay(w) /\ pc[w] = "dequeue" /\ pc'[w] = "countTake"
    BY <1>0, <1>3 DEF TakeJob, OthersStay
  <2>2. Dequeue(w, sys[w], scan[w]) /\ UNCHANGED <<size, sys, scan>>
    BY <1>3 DEF TakeJob
  <2> QED
    BY <1>0, <2>1, <2>2, TakeCounted
<1>4. CASE CountTake(w)
  <2>1. OthersStay(w) /\ pc[w] = "countTake" /\ pc'[w] = "call"
    BY <1>0, <1>4 DEF CountTake, OthersStay
  <2>2. Count(sys[w], scan[w], -1) /\ UNCHANGED queue
    BY <1>4 DEF CountTake
  <2> QED
    BY <1>0, <2>1, <2>2, TakeCounts
<1>5. CASE \/ LoopTest(w) \/ GetSystem(w) \/ NextChild(w) \/ PutChildFull(w) \/ Finish(w)
           \/ ReleaseLock(w) \/ TryNextQueue(w) \/ FindNothing(w) \/ Call(w)
           \/ FunctionReturns(w)
  <2>1. OthersStay(w) /\ UNCHANGED <<queue, size>>
    BY <1>0, <1>5 DEF LoopTest, GetSystem, NextChild, PutChildFull, Finish, ReleaseLock,
       TryNextQueue, FindNothing, Call, FunctionReturns, OthersStay
  <2>2. pc[w] \notin CountPCs /\ pc'[w] \notin CountPCs
    BY <1>0, <1>5 DEF LoopTest, GetSystem, NextChild, PutChildFull, Finish, ReleaseLock,
       TryNextQueue, FindNothing, Call, FunctionReturns
  <2> QED
    BY <1>0, <2>1, <2>2, NothingCounted
<1> QED
  BY <1>1, <1>2, <1>3, <1>4, <1>5 DEF WorkerStep

LEMMA ClientSizes ==
  ASSUME IsFiniteSet(Threads), JobInv, TypeOK', SizesCountJobs,
         NEW c \in Clients, ClientCall(c) \/ ClientStep(c)
  PROVE  SizesCountJobs'
<1> USE ThreadKinds DEF Goto, CountPCs, jobVars, queueVars, globalVars, threadVars
<1>0. /\ TypeOK /\ ClientInv
      /\ pc \in [Threads -> WorkerPCs \cup ClientPCs] /\ sys \in [Threads -> Systems]
      /\ scan \in [Threads -> Priorities]
  BY DEF JobInv, TypeOK
<1>1. CASE PutJob(c)
  <2>1. job[c] \in Jobs /\ Enqueue(sys[c], scan[c], job[c])
    BY <1>0, <1>1 DEF PutJob, ClientInv, TypeOK
  <2>2. OthersStay(c) /\ pc[c] = "put" /\ pc'[c] = "countPut"
    BY <1>0, <1>1 DEF PutJob, OthersStay
  <2>3. UNCHANGED <<size, sys, scan>>
    BY <1>1 DEF PutJob
  <2> QED
    BY <1>0, <2>1, <2>2, <2>3, PutCounted
<1>2. CASE CountPut(c)
  <2>1. OthersStay(c) /\ pc[c] = "countPut" /\ pc'[c] = "idle"
    BY <1>0, <1>2 DEF CountPut, OthersStay
  <2>2. Count(sys[c], scan[c], 1) /\ UNCHANGED queue
    BY <1>2 DEF CountPut
  <2> QED
    BY <1>0, <2>1, <2>2, PutCounts
<1>3. ASSUME OthersStay(c), UNCHANGED <<queue, size>>,
             pc[c] \notin CountPCs, pc'[c] \notin CountPCs
      PROVE  SizesCountJobs'
  BY <1>0, <1>3, NothingCounted
<1>4. CASE ClientCall(c)
  <2>1. OthersStay(c) /\ UNCHANGED <<queue, size>>
    BY <1>0, <1>4 DEF ClientCall, CreateJob, Then, ScheduleJob, Wait, WaitForAll, Shutdown,
       OthersStay
  <2>2. pc[c] \notin CountPCs /\ pc'[c] \notin CountPCs
    BY <1>0, <1>4 DEF ClientCall, CreateJob, Then, ScheduleJob, Wait, WaitForAll, Shutdown
  <2> QED
    BY <1>3, <2>1, <2>2
<1>5. CASE \/ PutJobFull(c) \/ CheckLock(c) \/ WaitReturns(c) \/ ReadSize(c)
           \/ ReadLastSize(c) \/ (c = Main /\ JoinReturns)
  <2>1. OthersStay(c) /\ UNCHANGED <<queue, size>>
    BY <1>0, <1>5 DEF PutJobFull, CheckLock, WaitReturns, ReadSize, ReadLastSize, JoinReturns,
       OthersStay
  <2>2. pc[c] \notin CountPCs /\ pc'[c] \notin CountPCs
    BY <1>0, <1>5 DEF PutJobFull, CheckLock, WaitReturns, ReadSize, ReadLastSize, JoinReturns
  <2> QED
    BY <1>3, <2>1, <2>2
<1> QED
  BY <1>1, <1>2, <1>4, <1>5 DEF ClientStep

LEMMA SizesInit ==
  ASSUME Init
  PROVE  SizesCountJobs
<1> SUFFICES ASSUME NEW s \in Systems, NEW p \in Priorities
             PROVE  size[s][p] = (Len(queue[s][p]) - Cardinality(Enqueued(s, p))
                                   + Cardinality(Taken(s, p))) % SizeMod
  BY DEF SizesCountJobs
<1>1. Enqueued(s, p) = {} /\ Taken(s, p) = {}
  BY DEF Init, Enqueued, Taken
<1>2. Cardinality(Enqueued(s, p)) = 0 /\ Cardinality(Taken(s, p)) = 0
  BY <1>1, FS_EmptySet
<1>3. size[s][p] = 0 /\ Len(queue[s][p]) = 0
  BY DEF Init
<1>4. 0 % SizeMod = 0
  BY JobSystemAssumption
<1> QED
  BY <1>2, <1>3, <1>4

\* With finitely many threads, the m_size of every queue is its number of jobs, up to the
\* calls that have taken effect and have not counted (LockFreeQueue.h:64, 98): what
\* GetPendingJobsCount adds up, and WaitForAll waits for, is never off by more than those.
THEOREM SizesAreExact ==
  ASSUME IsFiniteSet(Threads)
  PROVE  Spec => []SizesCountJobs
<1>1. Init => SizesCountJobs
  BY SizesInit
<1>2. JobInv /\ JobInv' /\ SizesCountJobs /\ [Next]_vars => SizesCountJobs'
  <2> SUFFICES ASSUME JobInv, JobInv', SizesCountJobs, [Next]_vars
               PROVE  SizesCountJobs'
    OBVIOUS
  <2>1. TypeOK'
    BY DEF JobInv
  <2>2. CASE Next
    BY <2>1, <2>2, WorkerSizes, ClientSizes DEF Next
  <2>3. CASE UNCHANGED vars
    BY <2>3 DEF SizesCountJobs, Enqueued, Taken, vars, queueVars, threadVars
  <2> QED
    BY <2>2, <2>3
<1> QED
  BY <1>1, <1>2, JobInvariant, PTL DEF Spec

------------------------------------------------------------------------------
(* A job that finishes leaves no child behind                               *)

\* A job that is in a queue or with a worker, or has been started.
Begun(j) == Scheduled(j) \/ jobState[j] # "Queued"

\* The worker w has enqueued the i-th child of its job.
Sent(w, i) == IF pc[w] = "countChild" THEN i <= idx[w] ELSE i < idx[w]

ChildPCs == {"children", "putChild", "countChild"}

\* What a worker has enqueued is not lost before its job finishes.
SentInv ==
  \A w \in Workers : pc[w] \in ChildPCs =>
    \A i \in 1 .. Len(children[job[w]]) : Sent(w, i) => Begun(children[job[w]][i])

\* The elements of a sequence are at its positions.
LEMMA Positions ==
  ASSUME NEW q \in Seq(Jobs), NEW j
  PROVE  j \in ToSet(q) <=> \E i \in 1 .. Len(q) : q[i] = j
BY DEF ToSet

\* An enqueue loses no job of a queue, and the new job is in one.
LEMMA InQueueAfterEnqueue ==
  ASSUME TypeOK, NEW s \in Systems, NEW p \in Priorities, NEW k \in Jobs, Enqueue(s, p, k),
         NEW j \in Jobs, InQueue(j) \/ j = k
  PROVE  InQueue(j)'
<1>1. queue[s][p] \in Seq(Jobs) /\ queue'[s][p] = Append(queue[s][p], k)
  BY DEF TypeOK, Enqueue
<1>2. queue'[s][p] \in Seq(Jobs)
  BY <1>1
<1>3. ASSUME NEW r \in Systems, NEW q \in Priorities, ~(r = s /\ q = p)
      PROVE  queue'[r][q] = queue[r][q]
  BY <1>3 DEF TypeOK, Enqueue
<1>4. CASE j = k
  <2>1. Len(queue[s][p]) + 1 \in 1 .. Len(queue'[s][p])
        /\ queue'[s][p][Len(queue[s][p]) + 1] = k
    BY <1>1
  <2>2. j \in ToSet(queue'[s][p])
    BY <1>2, <1>4, <2>1, Positions
  <2> QED
    BY <2>2 DEF InQueue
<1>5. CASE InQueue(j)
  <2>1. PICK r \in Systems, q \in Priorities : j \in ToSet(queue[r][q])
    BY <1>5 DEF InQueue
  <2>2. CASE r = s /\ q = p
    <3>1. PICK i \in 1 .. Len(queue[s][p]) : queue[s][p][i] = j
      BY <1>1, <2>1, <2>2, Positions
    <3>2. i \in 1 .. Len(queue'[s][p]) /\ queue'[s][p][i] = j
      BY <1>1, <3>1
    <3>3. j \in ToSet(queue'[s][p])
      BY <1>2, <3>2, Positions
    <3> QED
      BY <3>3 DEF InQueue
  <2>3. CASE ~(r = s /\ q = p)
    BY <1>3, <2>1, <2>3 DEF InQueue
  <2> QED
    BY <2>2, <2>3
<1> QED
  BY <1>4, <1>5

\* A dequeue loses no job of a queue but the one the worker has now.
LEMMA InQueueAfterDequeue ==
  ASSUME TypeOK, NEW s \in Systems, NEW p \in Priorities, NEW w \in Workers,
         Dequeue(w, s, p), NEW j \in Jobs, InQueue(j)
  PROVE  InQueue(j)' \/ job'[w] = j
<1>1. /\ queue[s][p] \in Seq(Jobs) /\ queue[s][p] # << >>
      /\ queue'[s][p] = Tail(queue[s][p]) /\ job'[w] = Head(queue[s][p])
  BY ThreadKinds DEF TypeOK, Dequeue
<1>2. queue'[s][p] \in Seq(Jobs)
  BY <1>1
<1>3. ASSUME NEW r \in Systems, NEW q \in Priorities, ~(r = s /\ q = p)
      PROVE  queue'[r][q] = queue[r][q]
  BY <1>3 DEF TypeOK, Dequeue
<1>4. PICK r \in Systems, q \in Priorities : j \in ToSet(queue[r][q])
  BY DEF InQueue
<1>5. CASE r = s /\ q = p
  <2>1. PICK i \in 1 .. Len(queue[s][p]) : queue[s][p][i] = j
    BY <1>1, <1>4, <1>5, Positions
  <2>2. CASE i = 1
    BY <1>1, <2>1, <2>2
  <2>3. CASE i # 1
    <3>1. i - 1 \in 1 .. Len(queue'[s][p]) /\ queue'[s][p][i - 1] = j
      BY <1>1, <2>1, <2>3
    <3>2. j \in ToSet(queue'[s][p])
      BY <1>2, <3>1, Positions
    <3> QED
      BY <3>2 DEF InQueue
  <2> QED
    BY <2>2, <2>3
<1>6. CASE ~(r = s /\ q = p)
  BY <1>3, <1>4, <1>6 DEF InQueue
<1> QED
  BY <1>5, <1>6

\* A job once begun stays so, whatever the workers do.
LEMMA WorkerBegun ==
  ASSUME JobInv, NEW w \in Workers, WorkerStep(w), NEW j \in Jobs, Begun(j)
  PROVE  Begun(j)'
<1>0. TypeOK /\ WorkerInv /\ WorkerHolds(w)
  BY DEF JobInv, WorkerInv
<1> USE ThreadKinds DEF Goto, jobVars, queueVars, globalVars, threadVars
<1>1. CASE jobState[j] # "Queued"
  <2>1. \/ UNCHANGED jobState
        \/ \E x \in {"Running", "Waiting", "Finished"} :
             jobState' = [jobState EXCEPT ![job[w]] = x]
    BY DEF WorkerStep, LoopTest, GetSystem, NextChild, PutChild, PutChildFull, CountChild,
       Finish, ReleaseLock, TakeJob, TryNextQueue, FindNothing, CountTake, Call, FunctionReturns
  <2>2. jobState'[j] # "Queued"
    BY <1>0, <1>1, <2>1 DEF TypeOK
  <2> QED
    BY <2>2 DEF Begun
<1>2. CASE InQueue(j)
  <2>1. CASE PutChild(w)
    <3>1. InQueue(j)'
      BY <1>0, <1>2, <2>1, InQueueAfterEnqueue, ChildType DEF PutChild, TypeOK
    <3> QED
      BY <3>1 DEF Begun, Scheduled
  <2>2. CASE TakeJob(w)
    <3>1. InQueue(j)' \/ job'[w] = j
      BY <1>0, <1>2, <2>2, InQueueAfterDequeue DEF TakeJob, TypeOK
    <3> QED
      BY <3>1 DEF Begun, Scheduled
  <2>3. CASE UNCHANGED queue
    BY <1>2, <2>3 DEF Begun, Scheduled, InQueue
  <2> QED
    BY <1>0, <2>1, <2>2, <2>3, WorkerMoves
<1>3. ASSUME NEW v \in Workers, job[v] = j, jobState[j] = "Queued"
      PROVE  Begun(j)'
  <2>1. CASE v # w
    <3>1. job'[v] = j
      BY <1>0, <1>3, <2>1, WorkerLocal
    <3> QED
      BY <3>1 DEF Begun, Scheduled
  <2>2. CASE v = w
    <3>1. pc[w] \in {"countTake", "call"}
      BY <1>0, <1>3, <2>2, JobSystemAssumption
         DEF WorkerHolds, TypeOK, WorkerPCs
    <3>2. CASE CountTake(w)
      <4>1. job'[w] = j
        BY <1>3, <2>2, <3>2 DEF CountTake
      <4> QED
        BY <4>1 DEF Begun, Scheduled
    <3>3. CASE Call(w)
      <4>1. job'[w] = j
        BY <1>3, <2>2, <3>3 DEF Call
      <4> QED
        BY <4>1 DEF Begun, Scheduled
    <3> QED
      BY <3>1, <3>2, <3>3 DEF WorkerStep, LoopTest, GetSystem, NextChild, PutChild,
         PutChildFull, CountChild, Finish, ReleaseLock, TakeJob, TryNextQueue, FindNothing,
         FunctionReturns
  <2> QED
    BY <2>1, <2>2
<1> QED
  BY <1>1, <1>2, <1>3 DEF Begun, Scheduled

\* Nor do the clients.
LEMMA ClientBegun ==
  ASSUME JobInv, NEW c \in Clients, ClientCall(c) \/ ClientStep(c), NEW j \in Jobs, Begun(j)
  PROVE  Begun(j)'
<1>0. TypeOK /\ ClientInv
  BY DEF JobInv
<1>1. /\ UNCHANGED jobState /\ (UNCHANGED queue \/ PutJob(c))
      /\ \A w \in Workers : job'[w] = job[w]
  BY <1>0, ClientLocal, ThreadKinds
<1>2. ASSUME InQueue(j), PutJob(c)
      PROVE  InQueue(j)'
  <2>1. /\ sys[c] \in Systems /\ scan[c] \in Priorities /\ job[c] \in Jobs
        /\ Enqueue(sys[c], scan[c], job[c])
    BY <1>0, <1>2, ThreadKinds DEF PutJob, Goto, ClientInv, TypeOK
  <2> QED
    BY <1>0, <1>2, <2>1, InQueueAfterEnqueue
<1>3. InQueue(j) => InQueue(j)'
  BY <1>1, <1>2 DEF InQueue
<1> QED
  BY <1>1, <1>3 DEF Begun, Scheduled

\* A worker that goes on with the same job and has sent the same children keeps SentInv.
LEMMA SentKept ==
  ASSUME JobInv, SentInv, NEW v \in Workers, pc'[v] \in ChildPCs,
         job'[v] = job[v], UNCHANGED children,
         \A j \in Jobs : Begun(j) => Begun(j)',
         NEW i \in 1 .. Len(children[job[v]]),
         pc[v] \in ChildPCs /\ Sent(v, i)
  PROVE  (Begun(children[job[v]][i]))'
<1>1. job[v] \in Jobs
  BY DEF JobInv, WorkerInv, WorkerHolds, ChildPCs
<1>2. children[job[v]] \in Seq(Jobs)
  BY <1>1 DEF JobInv, TypeOK
<1>3. PICK j \in Jobs : j = children[job[v]][i]
  BY <1>2
<1>4. Begun(j)
  BY <1>3 DEF SentInv
<1>5. Begun(j)'
  BY <1>4
<1>6. (children[job[v]][i])' = j
  BY <1>3
<1> QED
  BY <1>5, <1>6 DEF Begun, Scheduled, InQueue

LEMMA SentStep ==
  ASSUME JobInv, JobInv', SentInv, [Next]_vars
  PROVE  SentInv'
<1> USE ThreadKinds DEF Goto, ChildPCs, jobVars, queueVars, globalVars, threadVars
<1>0. /\ TypeOK /\ WorkerInv
      /\ pc \in [Threads -> WorkerPCs \cup ClientPCs] /\ idx \in [Threads -> Nat]
  BY DEF JobInv, TypeOK
<1>1. CASE UNCHANGED vars
  BY <1>1 DEF SentInv, Sent, Begun, Scheduled, InQueue, vars
<1>2. ASSUME NEW w \in Workers, WorkerStep(w)
      PROVE  SentInv'
  <2>1. \A j \in Jobs : Begun(j) => Begun(j)'
    BY <1>2, WorkerBegun
  <2>2. /\ UNCHANGED children
        /\ \A v \in Workers : v # w => pc'[v] = pc[v] /\ job'[v] = job[v] /\ idx'[v] = idx[v]
    BY <1>0, <1>2, WorkerLocal
  <2> SUFFICES ASSUME NEW v \in Workers, pc'[v] \in ChildPCs,
                      NEW i \in 1 .. Len(children'[job'[v]]), Sent(v, i)'
               PROVE  (Begun(children[job[v]][i]))'
    BY DEF SentInv
  <2>3. CASE v # w
    <3>1. pc[v] \in ChildPCs /\ job'[v] = job[v] /\ Sent(v, i)
      BY <2>2, <2>3 DEF Sent
    <3> QED
      BY <2>1, <2>2, <3>1, SentKept
  <2>4. CASE v = w
    <3>1. CASE GetSystem(w)
      <4>1. idx'[w] \in {0, 1} /\ pc'[w] \in {"dequeue", "children"}
        BY <1>0, <3>1 DEF GetSystem
      <4> QED
        BY <2>4, <4>1 DEF Sent
    <3>2. CASE NextChild(w) \/ CountChild(w) \/ PutChildFull(w)
      <4>1. job'[w] = job[w] /\ pc[w] \in ChildPCs
        BY <3>2 DEF NextChild, CountChild, PutChildFull
      <4>2. Sent(w, i)
        BY <1>0, <2>4, <3>2 DEF Sent, NextChild, CountChild, PutChildFull
      <4> QED
        BY <2>1, <2>2, <2>4, <4>1, <4>2, SentKept
    <3>3. CASE PutChild(w)
      <4>1. /\ job'[w] = job[w] /\ idx'[w] = idx[w] /\ pc[w] = "putChild"
            /\ pc'[w] = "countChild"
        BY <1>0, <3>3 DEF PutChild
      <4>2. CASE i = idx[w]
        <5>1. PICK j \in Jobs : j = Child(w)
          BY <1>0, <4>1, ChildType
        <5>2. sys[w] \in Systems /\ scan[w] \in Priorities /\ Enqueue(sys[w], scan[w], j)
          BY <1>0, <3>3, <5>1 DEF PutChild, TypeOK
        <5>3. InQueue(j)'
          BY <1>0, <5>2, InQueueAfterEnqueue
        <5>4. (children[job[v]][i])' = j
          BY <2>2, <2>4, <4>1, <4>2, <5>1 DEF Child
        <5> QED
          BY <5>3, <5>4 DEF Begun, Scheduled, InQueue
      <4>3. CASE i # idx[w]
        <5>1. Sent(w, i)
          BY <1>0, <2>4, <4>1, <4>3 DEF Sent
        <5> QED
          BY <2>1, <2>2, <2>4, <4>1, <5>1, SentKept
      <4> QED
        BY <4>2, <4>3
    <3>4. CASE \/ LoopTest(w) \/ Finish(w) \/ ReleaseLock(w) \/ TakeJob(w) \/ TryNextQueue(w)
               \/ FindNothing(w) \/ CountTake(w) \/ Call(w) \/ FunctionReturns(w)
      <4>1. pc'[w] \notin ChildPCs
        BY <1>0, <3>4 DEF LoopTest, Finish, ReleaseLock, TakeJob, TryNextQueue, FindNothing,
           CountTake, Call, FunctionReturns
      <4> QED
        BY <2>4, <4>1
    <3> QED
      BY <1>2, <3>1, <3>2, <3>3, <3>4 DEF WorkerStep
  <2> QED
    BY <2>3, <2>4
<1>3. ASSUME NEW c \in Clients, ClientCall(c) \/ ClientStep(c)
      PROVE  SentInv'
  <2>1. \A j \in Jobs : Begun(j) => Begun(j)'
    BY <1>3, ClientBegun
  <2>2. /\ \A v \in Workers : pc'[v] = pc[v] /\ job'[v] = job[v] /\ idx'[v] = idx[v]
        /\ UNCHANGED children \/ \E parent, j \in Jobs : Then(c, parent, j)
    BY <1>0, <1>3, ClientLocal
  <2> SUFFICES ASSUME NEW v \in Workers, pc'[v] \in ChildPCs,
                      NEW i \in 1 .. Len(children'[job'[v]]), Sent(v, i)'
               PROVE  (Begun(children[job[v]][i]))'
    BY DEF SentInv
  <2>3. job[v] \in Jobs /\ pc[v] \in ChildPCs /\ Sent(v, i)
    BY <1>0, <2>2 DEF WorkerInv, WorkerHolds, Sent
  <2>4. children'[job[v]] = children[job[v]]
    <3>1. ASSUME NEW parent \in Jobs, NEW j \in Jobs, Then(c, parent, j)
          PROVE  children'[job[v]] = children[job[v]]
      <4>1. parent # job[v] /\ children' = [children EXCEPT ![parent] = Append(@, j)]
        BY <2>3, <3>1 DEF Then
      <4> QED
        BY <4>1
    <3> QED
      BY <2>2, <3>1
  <2>5. children[job[v]] \in Seq(Jobs)
    BY <1>0, <2>3 DEF TypeOK
  <2>6. i \in 1 .. Len(children[job[v]])
    BY <2>2, <2>4
  <2>7. PICK j \in Jobs : j = children[job[v]][i]
    BY <2>5, <2>6
  <2>8. Begun(j)'
    BY <2>1, <2>3, <2>6, <2>7 DEF SentInv
  <2>9. (children[job[v]][i])' = j
    BY <2>2, <2>4, <2>7
  <2> QED
    BY <2>8, <2>9 DEF Begun, Scheduled, InQueue
<1> QED
  BY <1>1, <1>2, <1>3 DEF Next

\* When a job becomes Finished, each of its children is in a queue, with a worker, or has
\* been started (JobSystemManager.cpp:86-94), whatever other workers took in the meantime.
THEOREM NoChildIsForgotten == Spec => FinishLeavesNoChild
<1>1. Init => SentInv
  BY JobSystemAssumption DEF Init, SentInv, ChildPCs, Threads
<1>2. JobInv /\ JobInv' /\ SentInv /\ [Next]_vars => SentInv'
  BY SentStep
<1>3. ASSUME JobInv, SentInv, Next, NEW parent \in Jobs,
             jobState[parent] # "Finished", jobState'[parent] = "Finished",
             NEW j \in ToSet(children[parent])
      PROVE  Scheduled(j) \/ jobState[j] # "Queued"
  <2>0. TypeOK /\ WorkerInv
    BY <1>3 DEF JobInv
  <2>1. ASSUME NEW c \in Clients, ClientCall(c) \/ ClientStep(c) PROVE FALSE
    BY <1>3, <2>0, <2>1, ClientLocal
  <2>2. PICK w \in Workers : WorkerStep(w)
    BY <1>3, <2>1 DEF Next
  <2>3. parent = job[w]
    BY <1>3, <2>0, <2>2, WorkerLocal
  <2>4. Finish(w)
    <3>1. ~UNCHANGED jobState
      BY <1>3
    <3>2. ~NextChild(w) /\ ~Call(w)
      BY <1>3, <2>0, <2>3 DEF NextChild, Call, TypeOK
    <3> QED
      BY <2>2, <3>1, <3>2 DEF WorkerStep, LoopTest, GetSystem, PutChild, PutChildFull,
         CountChild, ReleaseLock, TakeJob, TryNextQueue, FindNothing, CountTake,
         FunctionReturns, jobVars
  <2>5. children[parent] \in Seq(Jobs) /\ idx[w] \in Nat
    BY <2>0, ThreadKinds DEF TypeOK
  <2>6. PICK i \in 1 .. Len(children[parent]) : j = children[parent][i]
    BY <1>3, <2>5, Positions
  <2>7. pc[w] = "children" /\ i < idx[w]
    BY <2>3, <2>4, <2>5, <2>6 DEF Finish, Goto
  <2>8. Begun(j)
    BY <1>3, <2>3, <2>6, <2>7 DEF SentInv, Sent, ChildPCs
  <2> QED
    BY <2>8 DEF Begun
<1>4. JobInv /\ SentInv /\ [Next]_vars =>
        [\A parent \in Jobs :
           jobState[parent] # "Finished" /\ jobState'[parent] = "Finished" =>
             \A j \in ToSet(children[parent]) : Scheduled(j) \/ jobState[j] # "Queued"]_vars
  BY <1>3
<1> QED
  BY <1>1, <1>2, <1>4, JobInvariant, PTL DEF Spec, FinishLeavesNoChild

------------------------------------------------------------------------------
(* The queues                                                               *)

\* The statements at which a thread is in a call of a queue.
PutPCs == {"put", "putChild", "countPut", "countChild"}
CallPCs == PutPCs \cup {"dequeue", "countTake"}

\* What FIFO(s, p) has for the span of a thread.
SpanOf(s, p, t) == IF CallOf(s, p, t) = "dequeued" THEN span[t] ELSE 0

\* A step of t leaves the calls of the other threads alone.
CallsRest(t) ==
  \A u \in Threads : u # t =>
    /\ pc'[u] = pc[u] /\ sys'[u] = sys[u] /\ scan'[u] = scan[u] /\ job'[u] = job[u]
    /\ pc[u] \in PutPCs => Put(u)' = Put(u)

LEMMA CallOfAt ==
  ASSUME NEW s, NEW p, NEW t
  PROVE  /\ pc[t] \notin CallPCs \/ sys[t] # s \/ scan[t] # p => CallOf(s, p, t) = "idle"
         /\ sys[t] = s /\ scan[t] = p =>
              /\ pc[t] \in {"put", "putChild"} => CallOf(s, p, t) = "enqueuing"
              /\ pc[t] \in {"countPut", "countChild"} => CallOf(s, p, t) = "enqueued"
              /\ pc[t] = "dequeue" => CallOf(s, p, t) = "dequeuing"
              /\ pc[t] = "countTake" => CallOf(s, p, t) = "dequeued"
         /\ CallOf(s, p, t) \in {"enqueuing", "enqueued"} => pc[t] \in PutPCs
         /\ CallOf(s, p, t) = "enqueued" <=>
              pc[t] \in {"countPut", "countChild"} /\ sys[t] = s /\ scan[t] = p
         /\ CallOf(s, p, t) = "dequeued" <=>
              pc[t] = "countTake" /\ sys[t] = s /\ scan[t] = p
<1>1. CASE sys[t] # s \/ scan[t] # p
  BY <1>1 DEF CallOf
<1>2. CASE sys[t] = s /\ scan[t] = p /\ pc[t] \in CallPCs
  <2>1. pc[t] \in {"put", "putChild"} => CallOf(s, p, t) = "enqueuing"
    BY <1>2 DEF CallOf
  <2>2. pc[t] \in {"countPut", "countChild"} => CallOf(s, p, t) = "enqueued"
    BY <1>2 DEF CallOf
  <2>3. pc[t] = "dequeue" => CallOf(s, p, t) = "dequeuing"
    BY <1>2 DEF CallOf
  <2>4. pc[t] = "countTake" => CallOf(s, p, t) = "dequeued"
    BY <1>2 DEF CallOf
  <2> QED
    BY <1>2, <2>1, <2>2, <2>3, <2>4 DEF CallPCs, PutPCs
<1>3. CASE sys[t] = s /\ scan[t] = p /\ pc[t] \notin CallPCs
  BY <1>3 DEF CallOf, CallPCs, PutPCs
<1> QED
  BY <1>1, <1>2, <1>3

LEMMA CarriedAt ==
  ASSUME NEW s, NEW p, NEW t
  PROVE  /\ CallOf(s, p, t) \in {"enqueuing", "enqueued"} => CarriedBy(s, p, t) = Put(t)
         /\ CallOf(s, p, t) = "dequeued" => CarriedBy(s, p, t) = job[t]
         /\ CallOf(s, p, t) \in {"idle", "dequeuing"} => CarriedBy(s, p, t) = NoJob
BY DEF CarriedBy

LEMMA OthersCalls ==
  ASSUME NEW t \in Threads, CallsRest(t), NEW s, NEW p
  PROVE  \A u \in Threads : u # t => /\ CallOf(s, p, u)' = CallOf(s, p, u)
                                     /\ CarriedBy(s, p, u)' = CarriedBy(s, p, u)
<1> SUFFICES ASSUME NEW u \in Threads, u # t
             PROVE  CallOf(s, p, u)' = CallOf(s, p, u) /\ CarriedBy(s, p, u)' = CarriedBy(s, p, u)
  OBVIOUS
<1>1. pc'[u] = pc[u] /\ sys'[u] = sys[u] /\ scan'[u] = scan[u] /\ job'[u] = job[u]
  BY DEF CallsRest
<1>2. CallOf(s, p, u)' = CallOf(s, p, u)
  BY <1>1 DEF CallOf
<1>3. CallOf(s, p, u) \in {"enqueuing", "enqueued"} => Put(u)' = Put(u)
  BY CallOfAt DEF CallsRest
<1> QED
  BY <1>1, <1>2, <1>3 DEF CarriedBy

LEMMA Invokes ==
  ASSUME NEW t \in Threads, CallsRest(t), NEW s \in Systems, NEW p \in Priorities,
         queue'[s][p] = queue[s][p], \A u \in Threads : SpanOf(s, p, u)' = SpanOf(s, p, u),
         CallOf(s, p, t) = "idle",
         \/ CallOf(s, p, t)' = "enqueuing" /\ Put(t)' \in Jobs
         \/ CallOf(s, p, t)' = "dequeuing"
  PROVE  FIFO(s, p)!Next
<1>1. \A u \in Threads : u # t => /\ CallOf(s, p, u)' = CallOf(s, p, u)
                                  /\ CarriedBy(s, p, u)' = CarriedBy(s, p, u)
  BY OthersCalls
<1>2. CASE CallOf(s, p, t)' = "enqueuing" /\ Put(t)' \in Jobs
  <2>1. CarriedBy(s, p, t)' = Put(t)'
    BY <1>2 DEF CarriedBy
  <2>2. FIFO(s, p)!InvokeEnqueue(t, Put(t)')
    BY <1>1, <1>2, <2>1 DEF FIFO!InvokeEnqueue, SpanOf
  <2> QED
    BY <1>2, <2>2 DEF FIFO!Next, FIFO!ThreadStep
<1>3. CASE CallOf(s, p, t)' = "dequeuing"
  <2>1. CarriedBy(s, p, t)' = CarriedBy(s, p, t)
    BY <1>3 DEF CarriedBy
  <2>2. FIFO(s, p)!InvokeDequeue(t)
    BY <1>1, <1>3, <2>1 DEF FIFO!InvokeDequeue, SpanOf
  <2> QED
    BY <2>2 DEF FIFO!Next, FIFO!ThreadStep
<1> QED
  BY <1>2, <1>3

\* A step that leaves the calls of a queue as they are.
LEMMA QueueStays ==
  ASSUME NEW t \in Threads, CallsRest(t), NEW s \in Systems, NEW p \in Priorities,
         queue'[s][p] = queue[s][p], \A u \in Threads : SpanOf(s, p, u)' = SpanOf(s, p, u),
         CallOf(s, p, t)' = CallOf(s, p, t), CarriedBy(s, p, t)' = CarriedBy(s, p, t)
  PROVE  UNCHANGED FIFO(s, p)!vars
<1>1. \A u \in Threads : /\ CallOf(s, p, u)' = CallOf(s, p, u)
                         /\ CarriedBy(s, p, u)' = CarriedBy(s, p, u)
  BY OthersCalls
<1> QED
  BY <1>1 DEF FIFO!vars, SpanOf

\* A call that leaves the queue: it returns, or fails as the queue allows.
LEMMA Leaves ==
  ASSUME NEW t \in Threads, CallsRest(t), NEW s \in Systems, NEW p \in Priorities,
         queue'[s][p] = queue[s][p],
         \A u \in Threads : u # t => SpanOf(s, p, u)' = SpanOf(s, p, u),
         CallOf(s, p, t)' = "idle",
         \/ CallOf(s, p, t) \in {"enqueued", "dequeued"}
         \/ CallOf(s, p, t) = "enqueuing" /\ MayAnswerFull(s, p)
         \/ CallOf(s, p, t) = "dequeuing" /\ MayAnswerEmpty(s, p)
  PROVE  FIFO(s, p)!Next
<1>1. \A u \in Threads : u # t => /\ CallOf(s, p, u)' = CallOf(s, p, u)
                                  /\ CarriedBy(s, p, u)' = CarriedBy(s, p, u)
  BY OthersCalls
<1>2. CarriedBy(s, p, t)' = NoJob /\ SpanOf(s, p, t)' = 0
  BY DEF CarriedBy, SpanOf
<1>3. FIFO(s, p)!Return(t)
  BY <1>1, <1>2 DEF FIFO!Return, SpanOf
<1>4. CASE CallOf(s, p, t) \in {"enqueued", "dequeued"}
  <2>1. FIFO(s, p)!ReturnEnqueue(t) \/ FIFO(s, p)!ReturnDequeue(t)
    BY <1>3, <1>4 DEF FIFO!ReturnEnqueue, FIFO!ReturnDequeue
  <2> QED
    BY <2>1 DEF FIFO!Next, FIFO!ThreadStep
<1>5. CASE CallOf(s, p, t) = "enqueuing" /\ MayAnswerFull(s, p)
  <2>1. Len(queue[s][p]) < Capacity[p] =>
          \E u \in Threads : CallOf(s, p, u) = "dequeued" /\ SpanOf(s, p, u) >= Capacity[p]
    BY <1>5, CallOfAt DEF MayAnswerFull, Taken, SpanOf
  <2>2. FIFO(s, p)!FailEnqueue(t)
    BY <1>3, <1>5, <2>1 DEF FIFO!FailEnqueue, SpanOf
  <2> QED
    BY <2>2 DEF FIFO!Next, FIFO!ThreadStep
<1>6. CASE CallOf(s, p, t) = "dequeuing" /\ MayAnswerEmpty(s, p)
  <2>1. queue[s][p] # << >> =>
          \E u \in Threads : CallOf(s, p, u) = "enqueued"
                               /\ CarriedBy(s, p, u) = Head(queue[s][p])
    BY <1>6, CallOfAt, CarriedAt DEF MayAnswerEmpty, Enqueued
  <2>2. FIFO(s, p)!FailDequeue(t)
    BY <1>3, <1>6, <2>1 DEF FIFO!FailDequeue
  <2> QED
    BY <2>2 DEF FIFO!Next, FIFO!ThreadStep
<1> QED
  BY <1>4, <1>5, <1>6

\* Such a step, for all queues: the thread is in a call of one of them at most.
QueuesKept ==
  \A s \in Systems, p \in Priorities : UNCHANGED FIFO(s, p)!vars \/ FIFO(s, p)!Next

\* A step of a thread that is in no call of any queue, before or after.
LEMMA OutsideCalls ==
  ASSUME NEW t \in Threads, CallsRest(t), UNCHANGED <<queue, span>>,
         pc[t] \notin CallPCs, pc'[t] \notin CallPCs
  PROVE  QueuesKept
<1> SUFFICES ASSUME NEW s \in Systems, NEW p \in Priorities PROVE UNCHANGED FIFO(s, p)!vars
  BY DEF QueuesKept
<1>1. CallOf(s, p, t) = "idle" /\ CallOf(s, p, t)' = "idle"
  BY CallOfAt DEF CallOf, CallPCs, PutPCs
<1>2. CarriedBy(s, p, t)' = CarriedBy(s, p, t)
  BY <1>1 DEF CarriedBy
<1>3. \A u \in Threads : SpanOf(s, p, u)' = SpanOf(s, p, u)
  BY <1>1, OthersCalls DEF SpanOf
<1> QED
  BY <1>1, <1>2, <1>3, QueueStays

\* A call of one queue begins.
LEMMA CallBegins ==
  ASSUME TypeOK', NEW t \in Threads, CallsRest(t), UNCHANGED <<queue, span>>,
         pc[t] \notin CallPCs,
         \/ pc'[t] \in {"put", "putChild"} /\ Put(t)' \in Jobs
         \/ pc'[t] = "dequeue"
  PROVE  QueuesKept
<1> SUFFICES ASSUME NEW s \in Systems, NEW p \in Priorities
             PROVE  UNCHANGED FIFO(s, p)!vars \/ FIFO(s, p)!Next
  BY DEF QueuesKept
<1>1. CallOf(s, p, t) = "idle"
  BY CallOfAt
<1>2. CASE sys'[t] = s /\ scan'[t] = p
  <2>1. \/ CallOf(s, p, t)' = "enqueuing" /\ Put(t)' \in Jobs
        \/ CallOf(s, p, t)' = "dequeuing"
    <3>1. pc'[t] \in {"put", "putChild"} => CallOf(s, p, t)' = "enqueuing"
      BY <1>2 DEF CallOf
    <3>2. pc'[t] = "dequeue" => CallOf(s, p, t)' = "dequeuing"
      BY <1>2 DEF CallOf
    <3> QED
      BY <3>1, <3>2
  <2>2. \A u \in Threads : SpanOf(s, p, u)' = SpanOf(s, p, u)
    BY <1>1, <2>1, OthersCalls DEF SpanOf
  <2> QED
    BY <1>1, <2>1, <2>2, Invokes
<1>3. CASE ~(sys'[t] = s /\ scan'[t] = p)
  <2>1. CallOf(s, p, t)' = "idle"
    BY <1>3 DEF CallOf
  <2>2. CarriedBy(s, p, t)' = CarriedBy(s, p, t)
    BY <1>1, <2>1 DEF CarriedBy
  <2>3. \A u \in Threads : SpanOf(s, p, u)' = SpanOf(s, p, u)
    BY <1>1, <2>1, OthersCalls DEF SpanOf
  <2> QED
    BY <1>1, <2>1, <2>2, <2>3, QueueStays
<1> QED
  BY <1>2, <1>3

\* A call ends: it returns, or fails as its queue allows.
LEMMA CallEnds ==
  ASSUME NEW t \in Threads, CallsRest(t), UNCHANGED queue,
         \A u \in Threads : u # t => span'[u] = span[u],
         pc'[t] \notin CallPCs,
         \/ pc[t] \in {"countPut", "countChild", "countTake"}
         \/ pc[t] \in {"put", "putChild"} /\ MayAnswerFull(sys[t], scan[t])
         \/ pc[t] = "dequeue" /\ MayAnswerEmpty(sys[t], scan[t])
  PROVE  QueuesKept
<1> SUFFICES ASSUME NEW s \in Systems, NEW p \in Priorities
             PROVE  UNCHANGED FIFO(s, p)!vars \/ FIFO(s, p)!Next
  BY DEF QueuesKept
<1>1. CallOf(s, p, t)' = "idle"
  BY DEF CallOf, CallPCs, PutPCs
<1>2. \A u \in Threads : u # t => SpanOf(s, p, u)' = SpanOf(s, p, u)
  BY OthersCalls DEF SpanOf
<1>3. CASE sys[t] = s /\ scan[t] = p
  BY <1>1, <1>2, <1>3, CallOfAt, Leaves
<1>4. CASE ~(sys[t] = s /\ scan[t] = p)
  <2>1. CallOf(s, p, t) = "idle"
    BY <1>4, CallOfAt
  <2>2. CarriedBy(s, p, t)' = CarriedBy(s, p, t)
    BY <1>1, <2>1 DEF CarriedBy
  <2>3. \A u \in Threads : SpanOf(s, p, u)' = SpanOf(s, p, u)
    BY <1>1, <1>2, <2>1 DEF SpanOf
  <2> QED
    BY <1>1, <2>1, <2>2, <2>3, QueueStays
<1> QED
  BY <1>3, <1>4

\* A call's enqueue takes effect.
LEMMA EnqueueEffect ==
  ASSUME TypeOK, NEW t \in Threads, CallsRest(t), UNCHANGED <<sys, scan>>,
         pc[t] \in {"put", "putChild"}, pc'[t] \in {"countPut", "countChild"},
         Put(t)' = Put(t), Enqueue(sys[t], scan[t], Put(t))
  PROVE  QueuesKept
<1> SUFFICES ASSUME NEW s \in Systems, NEW p \in Priorities
             PROVE  UNCHANGED FIFO(s, p)!vars \/ FIFO(s, p)!Next
  BY DEF QueuesKept
<1>1. \A u \in Threads : u # t => /\ CallOf(s, p, u)' = CallOf(s, p, u)
                                  /\ CarriedBy(s, p, u)' = CarriedBy(s, p, u)
  BY OthersCalls
<1>2. queue \in [Systems -> [Priorities -> Seq(Jobs)]] /\ sys[t] \in Systems
        /\ scan[t] \in Priorities
  BY DEF TypeOK
<1>3. CASE sys[t] = s /\ scan[t] = p
  <2>1. CallOf(s, p, t) = "enqueuing" /\ CallOf(s, p, t)' = "enqueued"
    <3>1. CallOf(s, p, t) = "enqueuing"
      BY <1>3, CallOfAt
    <3>2. CallOf(s, p, t)' = "enqueued"
      BY <1>3 DEF CallOf
    <3> QED
      BY <3>1, <3>2
  <2>2. CarriedBy(s, p, t) = Put(t) /\ CarriedBy(s, p, t)' = Put(t)
    BY <2>1 DEF CarriedBy
  <2>3. Len(queue[s][p]) < Capacity[p] /\ queue'[s][p] = Append(queue[s][p], Put(t))
    BY <1>2, <1>3 DEF Enqueue
  <2>4. \A u \in Threads : CallOf(s, p, u) = "dequeued" => span'[u] = span[u] + 1
    BY <1>3, CallOfAt DEF Enqueue, Taken
  <2>5. \A u \in Threads : SpanOf(s, p, u)' =
          IF CallOf(s, p, u) = "dequeued" THEN SpanOf(s, p, u) + 1 ELSE SpanOf(s, p, u)
    BY <1>1, <2>1, <2>4 DEF SpanOf
  <2>6. FIFO(s, p)!Enqueue(t)
    BY <1>1, <2>1, <2>2, <2>3, <2>5 DEF FIFO!Enqueue, SpanOf
  <2> QED
    BY <2>6 DEF FIFO!Next, FIFO!ThreadStep
<1>4. CASE ~(sys[t] = s /\ scan[t] = p)
  <2>1. CallOf(s, p, t) = "idle" /\ CallOf(s, p, t)' = "idle"
    BY <1>4 DEF CallOf
  <2>2. CarriedBy(s, p, t)' = CarriedBy(s, p, t)
    BY <2>1 DEF CarriedBy
  <2>3. queue'[s][p] = queue[s][p]
    BY <1>2, <1>4 DEF Enqueue
  <2>4. \A u \in Threads : CallOf(s, p, u) = "dequeued" => span'[u] = span[u]
    BY <1>4, CallOfAt DEF Enqueue, Taken
  <2>5. \A u \in Threads : SpanOf(s, p, u)' = SpanOf(s, p, u)
    BY <1>1, <2>1, <2>4 DEF SpanOf
  <2> QED
    BY <2>1, <2>2, <2>3, <2>5, QueueStays
<1> QED
  BY <1>3, <1>4

\* A call's dequeue takes effect.
LEMMA DequeueEffect ==
  ASSUME TypeOK, NEW t \in Threads, CallsRest(t), UNCHANGED <<sys, scan>>,
         pc[t] = "dequeue", pc'[t] = "countTake", Dequeue(t, sys[t], scan[t])
  PROVE  QueuesKept
<1> SUFFICES ASSUME NEW s \in Systems, NEW p \in Priorities
             PROVE  UNCHANGED FIFO(s, p)!vars \/ FIFO(s, p)!Next
  BY DEF QueuesKept
<1>1. \A u \in Threads : u # t => /\ CallOf(s, p, u)' = CallOf(s, p, u)
                                  /\ CarriedBy(s, p, u)' = CarriedBy(s, p, u)
  BY OthersCalls
<1>2. /\ queue \in [Systems -> [Priorities -> Seq(Jobs)]] /\ sys[t] \in Systems
      /\ scan[t] \in Priorities
      /\ \A u \in Threads : u # t => span'[u] = span[u]
      /\ span'[t] = Len(queue[sys[t]][scan[t]])
      /\ job'[t] = Head(queue[sys[t]][scan[t]])
  BY DEF TypeOK, Dequeue
<1>3. \A u \in Threads : u # t => SpanOf(s, p, u)' = SpanOf(s, p, u)
  BY <1>1, <1>2 DEF SpanOf
<1>4. CASE sys[t] = s /\ scan[t] = p
  <2>1. CallOf(s, p, t) = "dequeuing"
    BY <1>4, CallOfAt
  <2>2. CallOf(s, p, t)' = "dequeued"
    BY <1>4 DEF CallOf
  <2>3. CarriedBy(s, p, t)' = Head(queue[s][p]) /\ SpanOf(s, p, t)' = Len(queue[s][p])
    BY <1>2, <1>4, <2>2 DEF CarriedBy, SpanOf
  <2>4. queue[s][p] # << >> /\ queue'[s][p] = Tail(queue[s][p])
    BY <1>2, <1>4 DEF Dequeue
  <2>5. FIFO(s, p)!Dequeue(t)
    BY <1>1, <1>3, <2>1, <2>2, <2>3, <2>4 DEF FIFO!Dequeue, SpanOf
  <2> QED
    BY <2>5 DEF FIFO!Next, FIFO!ThreadStep
<1>5. CASE ~(sys[t] = s /\ scan[t] = p)
  <2>1. CallOf(s, p, t) = "idle" /\ CallOf(s, p, t)' = "idle"
    BY <1>5 DEF CallOf
  <2>2. CarriedBy(s, p, t)' = CarriedBy(s, p, t)
    BY <2>1 DEF CarriedBy
  <2>3. queue'[s][p] = queue[s][p]
    BY <1>2, <1>5 DEF Dequeue
  <2>4. \A u \in Threads : SpanOf(s, p, u)' = SpanOf(s, p, u)
    BY <1>3, <2>1 DEF SpanOf
  <2> QED
    BY <2>1, <2>2, <2>3, <2>4, QueueStays
<1> QED
  BY <1>4, <1>5

\* The next queue is tried when one has answered "empty": a call of that one fails, and one
\* of the next is made.
LEMMA NextQueueTried ==
  ASSUME TypeOK, NEW t \in Threads, CallsRest(t), UNCHANGED <<queue, span>>,
         pc[t] = "dequeue", pc'[t] = "dequeue", sys'[t] = sys[t], scan'[t] # scan[t],
         MayAnswerEmpty(sys[t], scan[t])
  PROVE  QueuesKept
<1> SUFFICES ASSUME NEW s \in Systems, NEW p \in Priorities
             PROVE  UNCHANGED FIFO(s, p)!vars \/ FIFO(s, p)!Next
  BY DEF QueuesKept
<1>1. \A u \in Threads : u # t => SpanOf(s, p, u)' = SpanOf(s, p, u)
  BY OthersCalls DEF SpanOf
<1>2. CASE sys[t] = s /\ scan[t] = p
  <2>1. CallOf(s, p, t) = "dequeuing"
    BY <1>2, CallOfAt
  <2>2. CallOf(s, p, t)' = "idle"
    BY <1>2 DEF CallOf
  <2> QED
    BY <1>1, <1>2, <2>1, <2>2, Leaves
<1>3. CASE sys[t] = s /\ scan'[t] = p
  <2>1. CallOf(s, p, t) = "idle"
    BY <1>3, CallOfAt
  <2>2. CallOf(s, p, t)' = "dequeuing"
    BY <1>3 DEF CallOf
  <2>3. \A u \in Threads : SpanOf(s, p, u)' = SpanOf(s, p, u)
    BY <1>1, <2>1, <2>2 DEF SpanOf
  <2> QED
    BY <2>1, <2>2, <2>3, Invokes
<1>4. CASE sys[t] # s \/ (scan[t] # p /\ scan'[t] # p)
  <2>1. CallOf(s, p, t) = "idle" /\ CallOf(s, p, t)' = "idle"
    BY <1>4 DEF CallOf
  <2>2. CarriedBy(s, p, t)' = CarriedBy(s, p, t)
    BY <2>1 DEF CarriedBy
  <2>3. \A u \in Threads : SpanOf(s, p, u)' = SpanOf(s, p, u)
    BY <1>1, <2>1 DEF SpanOf
  <2> QED
    BY <2>1, <2>2, <2>3, QueueStays
<1> QED
  BY <1>2, <1>3, <1>4

\* What a worker's step does to the calls of the other threads.
LEMMA WorkerCallsRest ==
  ASSUME TypeOK, WorkerInv, NEW w \in Workers, WorkerStep(w)
  PROVE  CallsRest(w)
<1>1. \A u \in Threads : u # w => sys'[u] = sys[u] /\ scan'[u] = scan[u]
  BY ThreadKinds
  DEF WorkerStep, LoopTest, GetSystem, NextChild, PutChild, PutChildFull, CountChild, Finish,
      ReleaseLock, TakeJob, TryNextQueue, FindNothing, CountTake, Call, FunctionReturns,
      TypeOK, threadVars
<1> QED
  BY <1>1, WorkerLocal DEF CallsRest, Put, Child

\* Every step of a worker is a step of each queue, or leaves it alone.
LEMMA WorkerQueues ==
  ASSUME TypeOK, TypeOK', WorkerInv, NEW w \in Workers, WorkerStep(w)
  PROVE  QueuesKept
<1> USE DEF Goto, jobVars, queueVars, globalVars, threadVars
<1>0. /\ w \in Threads /\ CallsRest(w)
      /\ pc \in [Threads -> WorkerPCs \cup ClientPCs] /\ sys \in [Threads -> Systems]
      /\ scan \in [Threads -> Priorities]
  BY ThreadKinds, WorkerCallsRest DEF TypeOK
<1>1. CASE LoopTest(w) \/ Finish(w) \/ Call(w) \/ FunctionReturns(w)
  <2>1. /\ UNCHANGED <<queue, span>> /\ pc[w] \notin CallPCs /\ pc'[w] \notin CallPCs
    BY <1>0, <1>1 DEF LoopTest, Finish, Call, FunctionReturns, CallPCs, PutPCs
  <2> QED
    BY <1>0, <2>1, OutsideCalls
<1>2. CASE GetSystem(w)
  <2>1. /\ UNCHANGED <<queue, span>> /\ pc[w] \notin CallPCs
        /\ pc'[w] \in {"dequeue", "children"}
    BY <1>0, <1>2 DEF GetSystem, CallPCs, PutPCs
  <2>2. CASE pc'[w] = "dequeue"
    BY <1>0, <2>1, <2>2, CallBegins
  <2>3. CASE pc'[w] = "children"
    <3>1. pc'[w] \notin CallPCs
      BY <2>3 DEF CallPCs, PutPCs
    <3> QED
      BY <1>0, <2>1, <3>1, OutsideCalls
  <2> QED
    BY <2>1, <2>2, <2>3
<1>3. CASE NextChild(w)
  <2>1. /\ UNCHANGED <<queue, span>> /\ pc[w] \notin CallPCs /\ pc'[w] = "putChild"
    BY <1>0, <1>3 DEF NextChild, CallPCs, PutPCs
  <2>2. Put(w)' \in Jobs
    <3>1. job[w] \in Jobs /\ idx[w] >= 1 /\ idx[w] <= Len(children[job[w]])
      BY <1>3 DEF NextChild, WorkerInv, WorkerHolds
    <3>2. idx[w] \in 1 .. Len(children[job[w]]) /\ children[job[w]] \in Seq(Jobs)
      BY <1>0, <3>1 DEF TypeOK
    <3>3. Child(w) \in Jobs /\ Put(w)' = Child(w)
      BY <1>3, <3>2 DEF NextChild, Child, Put
    <3> QED
      BY <3>3
  <2> QED
    BY <1>0, <2>1, <2>2, CallBegins
<1>4. CASE PutChild(w)
  <2>1. /\ pc[w] = "putChild" /\ pc'[w] = "countChild" /\ UNCHANGED <<sys, scan>>
        /\ Put(w) = Child(w) /\ Put(w)' = Put(w) /\ Enqueue(sys[w], scan[w], Child(w))
    BY <1>0, <1>4 DEF PutChild, Put, Child
  <2> QED
    BY <1>0, <2>1, EnqueueEffect
<1>5. CASE PutChildFull(w)
  <2> SUFFICES ASSUME NEW s \in Systems, NEW p \in Priorities
               PROVE  UNCHANGED FIFO(s, p)!vars
    BY DEF QueuesKept
  <2>1. UNCHANGED <<pc, sys, scan, job, idx, children, queue, span>>
    BY <1>5 DEF PutChildFull
  <2>2. \A u \in Threads : CallOf(s, p, u)' = CallOf(s, p, u) /\ Put(u)' = Put(u)
    BY <2>1 DEF CallOf, Put, Child
  <2>3. \A u \in Threads : CarriedBy(s, p, u)' = CarriedBy(s, p, u)
                             /\ SpanOf(s, p, u)' = SpanOf(s, p, u)
    BY <2>1, <2>2 DEF CarriedBy, SpanOf
  <2> QED
    BY <1>0, <2>1, <2>2, <2>3, QueueStays
<1>6. CASE CountChild(w) \/ CountTake(w)
  <2>1. /\ UNCHANGED queue /\ \A u \in Threads : u # w => span'[u] = span[u]
        /\ pc[w] \in {"countPut", "countChild", "countTake"} /\ pc'[w] \notin CallPCs
    BY <1>0, <1>6 DEF CountChild, CountTake, CallPCs, PutPCs, TypeOK
  <2> QED
    BY <1>0, <2>1, CallEnds
<1>7. CASE ReleaseLock(w)
  <2>1. /\ UNCHANGED <<queue, span>> /\ pc[w] \notin CallPCs /\ pc'[w] = "dequeue"
    BY <1>0, <1>7 DEF ReleaseLock, CallPCs, PutPCs
  <2> QED
    BY <1>0, <2>1, CallBegins
<1>8. CASE TakeJob(w)
  <2>1. /\ pc[w] = "dequeue" /\ pc'[w] = "countTake" /\ UNCHANGED <<sys, scan>>
        /\ Dequeue(w, sys[w], scan[w])
    BY <1>0, <1>8 DEF TakeJob
  <2> QED
    BY <1>0, <2>1, DequeueEffect
<1>9. CASE TryNextQueue(w)
  <2>1. /\ pc[w] = "dequeue" /\ pc'[w] = "dequeue" /\ UNCHANGED <<queue, span>>
        /\ sys'[w] = sys[w] /\ scan'[w] = NextPriority[scan[w]] /\ scan[w] # "Low"
        /\ MayAnswerEmpty(sys[w], scan[w])
    BY <1>0, <1>9 DEF TryNextQueue
  <2>2. scan'[w] # scan[w]
    BY <1>0, <2>1 DEF NextPriority, Priorities
  <2> QED
    BY <1>0, <2>1, <2>2, NextQueueTried
<1>10. CASE FindNothing(w)
  <2>1. /\ UNCHANGED <<queue, span>> /\ pc[w] = "dequeue" /\ pc'[w] \notin CallPCs
        /\ MayAnswerEmpty(sys[w], scan[w])
    BY <1>0, <1>10 DEF FindNothing, CallPCs, PutPCs
  <2> QED
    BY <1>0, <2>1, CallEnds
<1> QED
  BY <1>1, <1>2, <1>3, <1>4, <1>5, <1>6, <1>7, <1>8, <1>9, <1>10 DEF WorkerStep

\* What a client's step does to the calls of the other threads.
LEMMA ClientCallsRest ==
  ASSUME TypeOK, WorkerInv, NEW c \in Clients, ClientCall(c) \/ ClientStep(c)
  PROVE  CallsRest(c)
<1>1. \A u \in Threads : u # c =>
        pc'[u] = pc[u] /\ job'[u] = job[u] /\ idx'[u] = idx[u]
  BY ClientLocal
<1>2. \A u \in Threads : u # c => sys'[u] = sys[u] /\ scan'[u] = scan[u]
  BY ThreadKinds
  DEF ClientCall, ClientStep, CreateJob, Then, ScheduleJob, Wait, WaitForAll, Shutdown,
      PutJob, PutJobFull, CountPut, CheckLock, WaitReturns, ReadSize, ReadLastSize, JoinReturns,
      TypeOK, threadVars
<1>3. ASSUME NEW u \in Threads, u # c, pc[u] \in PutPCs
      PROVE  Put(u)' = Put(u)
  <2>1. CASE u \notin Workers
    BY <1>1, <1>3, <2>1 DEF Put
  <2>2. CASE u \in Workers
    <3>1. pc[u] \in {"putChild", "countChild"}
      BY <1>3, <2>2 DEF TypeOK, PutPCs, WorkerPCs
    <3>2. job[u] \in Jobs
      BY <2>2, <3>1, ChildType
    <3>3. children'[job[u]] = children[job[u]]
      <4>1. ASSUME NEW parent \in Jobs, NEW j \in Jobs, Then(c, parent, j)
            PROVE  children'[job[u]] = children[job[u]]
        BY <2>2, <3>1, <3>2, <4>1 DEF Then, TypeOK
      <4> QED
        BY <4>1, ClientLocal
    <3>4. job'[u] = job[u] /\ idx'[u] = idx[u]
      BY <1>1, <1>3
    <3> QED
      BY <2>2, <3>3, <3>4 DEF Put, Child
  <2> QED
    BY <2>1, <2>2
<1> QED
  BY <1>1, <1>2, <1>3 DEF CallsRest

\* Every step of a client is a step of each queue, or leaves it alone.
LEMMA ClientQueues ==
  ASSUME TypeOK, TypeOK', WorkerInv, ClientInv, NEW c \in Clients, ClientCall(c) \/ ClientStep(c)
  PROVE  QueuesKept
<1> USE DEF Goto, jobVars, queueVars, globalVars, threadVars
<1>0. /\ c \in Threads /\ c \notin Workers /\ CallsRest(c)
      /\ pc \in [Threads -> WorkerPCs \cup ClientPCs] /\ job \in [Threads -> Jobs \cup {NoJob}]
  BY ThreadKinds, ClientCallsRest DEF TypeOK
<1>1. ASSUME UNCHANGED <<queue, span>>, pc[c] \notin CallPCs, pc'[c] \notin CallPCs
      PROVE  QueuesKept
  BY <1>0, <1>1, OutsideCalls
<1>2. ASSUME NEW s \in Systems, NEW j \in Jobs, NEW p \in JobPriorities, ScheduleJob(c, s, j, p)
      PROVE  QueuesKept
  <2>1. /\ UNCHANGED <<queue, span>> /\ pc[c] \notin CallPCs /\ pc'[c] = "put"
        /\ Put(c)' \in Jobs
    BY <1>0, <1>2 DEF ScheduleJob, CallPCs, PutPCs, Put
  <2> QED
    BY <1>0, <2>1, CallBegins
<1>3. CASE ClientCall(c)
  <2>1. CASE \/ \E j \in Jobs, p \in JobPriorities : CreateJob(c, j, p)
             \/ \E parent, j \in Jobs : Then(c, parent, j)
             \/ \E js \in WaitLists : Wait(c, js)
             \/ \E s \in Systems : WaitForAll(c, s)
             \/ c = Main /\ \E blocking \in BOOLEAN : Shutdown(blocking)
    BY <1>0, <1>1, <2>1
    DEF CreateJob, Then, Wait, WaitForAll, Shutdown, CallPCs, PutPCs
  <2> QED
    BY <1>2, <1>3, <2>1 DEF ClientCall
<1>4. CASE PutJob(c)
  <2>1. /\ pc[c] = "put" /\ pc'[c] = "countPut" /\ UNCHANGED <<sys, scan>>
        /\ Put(c) = job[c] /\ Put(c)' = Put(c) /\ Enqueue(sys[c], scan[c], job[c])
    BY <1>0, <1>4 DEF PutJob, Put
  <2> QED
    BY <1>0, <2>1, EnqueueEffect
<1>5. CASE PutJobFull(c) \/ CountPut(c)
  <2>1. /\ UNCHANGED <<queue, span>> /\ pc'[c] \notin CallPCs
        /\ pc[c] = "countPut" \/ (pc[c] = "put" /\ MayAnswerFull(sys[c], scan[c]))
    BY <1>0, <1>5 DEF PutJobFull, CountPut, CallPCs, PutPCs
  <2> QED
    BY <1>0, <2>1, CallEnds
<1>6. CASE \/ CheckLock(c) \/ WaitReturns(c) \/ ReadSize(c) \/ ReadLastSize(c)
           \/ (c = Main /\ JoinReturns)
  BY <1>0, <1>1, <1>6
  DEF CheckLock, WaitReturns, ReadSize, ReadLastSize, JoinReturns, CallPCs, PutPCs
<1> QED
  BY <1>3, <1>4, <1>5, <1>6 DEF ClientStep

LEMMA QueuesInit ==
  ASSUME Init
  PROVE  \A s \in Systems, p \in Priorities : FIFO(s, p)!Init
<1> SUFFICES ASSUME NEW s \in Systems, NEW p \in Priorities PROVE FIFO(s, p)!Init
  OBVIOUS
<1>1. \A t \in Threads : pc[t] \in {"loop", "idle"}
  BY DEF Init
<1>2. \A t \in Threads : CallOf(s, p, t) = "idle"
  BY <1>1, CallOfAt DEF CallPCs, PutPCs
<1>3. \A t \in Threads : CarriedBy(s, p, t) = NoJob
  BY <1>2, CarriedAt
<1>4. queue[s][p] = << >>
  BY DEF Init
<1> QED
  BY <1>2, <1>3, <1>4 DEF FIFO!Init

\* What JobSystem assumes of its queues is what LockFreeQueue provides
\* (JobSystemManager.cpp:60-103, LockFreeQueue.h:46-102): each queue of each system
\* implements BoundedFIFO, which LockFreeQueue implements (QueueImplementsFIFO).
THEOREM QueuesImplementFIFO == Spec => QueuesAreFIFO
<1>1. Init => \A s \in Systems, p \in Priorities : FIFO(s, p)!Init
  BY QueuesInit
<1>2. JobInv /\ JobInv' /\ [Next]_vars =>
        [\A s \in Systems, p \in Priorities :
           UNCHANGED FIFO(s, p)!vars \/ FIFO(s, p)!Next]_vars
  <2> SUFFICES ASSUME JobInv, JobInv', Next PROVE QueuesKept
    BY DEF QueuesKept
  <2> QED
    BY WorkerQueues, ClientQueues DEF Next, JobInv
<1> QED
  BY <1>1, <1>2, JobInvariant, PTL DEF Spec, QueuesAreFIFO

------------------------------------------------------------------------------
(* WaitForAll                                                               *)

\* The jobs in a queue and those on their way out of it.
Outstanding(s, p) == Len(queue[s][p]) + Cardinality(Taken(s, p))

\* The most there can be.
Room(p) == Capacity[p] + Cardinality(Threads)

\* The sum of the sizes of a system's queues fits in a uint32_t.
SizesFit == Room("High") + Room("Normal") + Room("Low") < SizeMod

\* Nobody but c schedules jobs, and there are no children.
Alone(c) == Clients = {c} /\ \A j \in Jobs : children[j] = << >>

\* What a client in WaitForAll has added up is no less than what the queues it has read
\* hold now: they are only drained meanwhile.
DrainOK(c, s) ==
  /\ pc[c] \in {"idle", "waiting", "joining"} => scan[c] = "High"
  /\ pc[c] # "waitAll" => pending[c] = 0
  /\ pc[c] = "waitAll" /\ scan[c] = "High" => pending[c] = 0
  /\ pc[c] = "waitAll" /\ scan[c] = "Normal" /\ Alone(c) =>
       pending[c] \in Outstanding(s, "High") .. Room("High")
  /\ pc[c] = "waitAll" /\ scan[c] = "Low" /\ Alone(c) =>
       pending[c] \in Outstanding(s, "High") + Outstanding(s, "Normal")
                        .. Room("High") + Room("Normal")

DrainInv == \A c \in Clients, s \in Systems : s = sys[c] => DrainOK(c, s)

QueuesFit == \A s \in Systems, p \in Priorities : Len(queue[s][p]) <= Capacity[p]

LEMMA QueuesFitStep ==
  ASSUME TypeOK, TypeOK', WorkerInv, ClientInv, QueuesFit, [Next]_vars
  PROVE  QueuesFit'
<1>1. ASSUME NEW s \in Systems, NEW p \in Priorities, NEW j, Enqueue(s, p, j)
      PROVE  QueuesFit'
  <2> SUFFICES ASSUME NEW r \in Systems, NEW q \in Priorities
               PROVE  Len(queue'[r][q]) <= Capacity[q]
    BY DEF QueuesFit
  <2>1. queue[r][q] \in Seq(Jobs) /\ Len(queue[s][p]) < Capacity[p]
          /\ Capacity[q] \in Nat
    BY <1>1, JobSystemAssumption DEF Enqueue, TypeOK
  <2>2. CASE r = s /\ q = p
    <3>1. queue'[r][q] = Append(queue[r][q], j)
      BY <1>1, <2>2 DEF Enqueue, TypeOK
    <3>2. Len(queue'[r][q]) = Len(queue[r][q]) + 1
      BY <2>1, <3>1
    <3> QED
      BY <2>1, <2>2, <3>2
  <2>3. CASE ~(r = s /\ q = p)
    <3>1. queue'[r][q] = queue[r][q]
      BY <1>1, <2>3 DEF Enqueue, TypeOK
    <3> QED
      BY <3>1 DEF QueuesFit
  <2> QED
    BY <2>2, <2>3
<1>2. CASE UNCHANGED queue
  BY <1>2 DEF QueuesFit
<1>3. ASSUME NEW w \in Workers, WorkerStep(w) PROVE QueuesFit'
  <2>0. w \in Threads /\ sys[w] \in Systems /\ scan[w] \in Priorities
    BY ThreadKinds DEF TypeOK
  <2>1. CASE PutChild(w)
    BY <1>1, <2>0, <2>1 DEF PutChild
  <2>2. CASE TakeJob(w)
    <3> SUFFICES ASSUME NEW r \in Systems, NEW q \in Priorities
                 PROVE  Len(queue'[r][q]) <= Capacity[q]
      BY DEF QueuesFit
    <3>1. queue[r][q] \in Seq(Jobs) /\ Capacity[q] \in Nat
      BY JobSystemAssumption DEF TypeOK
    <3>2. queue'[r][q] = queue[r][q]
            \/ (queue[r][q] # << >> /\ queue'[r][q] = Tail(queue[r][q]))
      BY <2>0, <2>2 DEF TakeJob, Dequeue, TypeOK
    <3>3. Len(queue'[r][q]) <= Len(queue[r][q])
      <4>1. ASSUME NEW x \in Seq(Jobs), x # << >> PROVE Len(Tail(x)) <= Len(x)
        BY <4>1
      <4>2. CASE queue'[r][q] = queue[r][q]
        BY <3>1, <4>2
      <4>3. CASE queue[r][q] # << >> /\ queue'[r][q] = Tail(queue[r][q])
        BY <3>1, <4>1, <4>3
      <4> QED
        BY <3>2, <4>2, <4>3
    <3>4. Len(queue[r][q]) <= Capacity[q] /\ Len(queue'[r][q]) \in Nat
      BY DEF QueuesFit, TypeOK
    <3> QED
      BY <3>1, <3>3, <3>4
  <2> QED
    BY <1>2, <1>3, <2>1, <2>2, WorkerMoves
<1>4. ASSUME NEW c \in Clients, ClientCall(c) \/ ClientStep(c) PROVE QueuesFit'
  <2>0. c \in Threads /\ sys[c] \in Systems /\ scan[c] \in Priorities
    BY ThreadKinds DEF TypeOK
  <2>1. CASE PutJob(c)
    BY <1>1, <2>0, <2>1 DEF PutJob
  <2> QED
    BY <1>2, <1>4, <2>1, ClientLocal
<1> QED
  BY <1>2, <1>3, <1>4 DEF Next, vars, queueVars

\* No worker is about to enqueue a child, or to count one, when there are no children.
LEMMA NoChildren ==
  ASSUME TypeOK, WorkerInv, NEW c \in Clients, Alone(c), NEW w \in Workers
  PROVE  pc[w] \notin {"putChild", "countChild"}
<1> SUFFICES ASSUME pc[w] \in {"putChild", "countChild"} PROVE FALSE
  OBVIOUS
<1>1. job[w] \in Jobs /\ idx[w] \in 1 .. Len(children[job[w]])
  BY ChildType
<1>2. Len(children[job[w]]) = 0
  BY <1>1 DEF Alone
<1> QED
  BY <1>1, <1>2

\* The queues a client waits for are only drained.
LEMMA Drained ==
  ASSUME IsFiniteSet(Threads), TypeOK, TypeOK', WorkerInv,
         NEW c \in Clients, Alone(c), pc[c] = "waitAll", NEW w \in Workers, WorkerStep(w),
         NEW s \in Systems, NEW p \in Priorities
  PROVE  Outstanding(s, p)' <= Outstanding(s, p)
<1> DEFINE k == Cardinality(Taken(s, p))
           n == Len(queue[s][p])
<1>0. /\ w \in Threads /\ sys[w] \in Systems /\ scan[w] \in Priorities
      /\ pc \in [Threads -> WorkerPCs \cup ClientPCs]
      /\ queue[s][p] \in Seq(Jobs) /\ queue'[s][p] \in Seq(Jobs)
  BY ThreadKinds DEF TypeOK
<1>1. k \in Nat /\ n \in Nat /\ k' \in Nat /\ n' \in Nat
  <2>1. Taken(s, p) \in SUBSET Threads /\ Taken(s, p)' \in SUBSET Threads
    BY DEF Taken
  <2>2. Cardinality(Taken(s, p)) \in Nat /\ Cardinality(Taken(s, p)') \in Nat
    BY <2>1, FS_Subset, FS_CardinalityType
  <2> QED
    BY <1>0, <2>2
<1>2. CallsRest(w)
  BY WorkerCallsRest
<1>3. ~PutChild(w)
  BY NoChildren DEF PutChild, Goto
<1>4. CASE TakeJob(w)
  <2>1. /\ pc[w] = "dequeue" /\ pc'[w] = "countTake" /\ UNCHANGED <<sys, scan>>
        /\ Dequeue(w, sys[w], scan[w])
    BY <1>0, <1>4 DEF TakeJob, Goto
  <2>2. CASE sys[w] = s /\ scan[w] = p
    <3>1. Taken(s, p)' = Taken(s, p) \cup {w} /\ w \notin Taken(s, p)
      BY <1>0, <1>2, <2>1, <2>2 DEF Taken, CallsRest
    <3>2. k' = k + 1
      <4>1. Taken(s, p) \in SUBSET Threads
        BY DEF Taken
      <4>2. Cardinality(Taken(s, p) \cup {w}) = Cardinality(Taken(s, p)) + 1
        BY <1>0, <3>1, <4>1, ThreadEnters
      <4> QED
        BY <3>1, <4>2
    <3>3. queue'[s][p] = Tail(queue[s][p]) /\ queue[s][p] # << >>
      BY <1>0, <2>1, <2>2 DEF Dequeue, TypeOK
    <3>4. n' = n - 1
      BY <1>0, <3>3
    <3> HIDE DEF k, n
    <3>5. n' + k' <= n + k
      BY <1>1, <3>2, <3>4
    <3> QED
      BY <3>5 DEF Outstanding, k, n
  <2>3. CASE ~(sys[w] = s /\ scan[w] = p)
    <3>1. Taken(s, p)' = Taken(s, p)
      BY <1>0, <1>2, <2>1, <2>3 DEF Taken, CallsRest
    <3>2. queue'[s][p] = queue[s][p]
      BY <1>0, <2>1, <2>3 DEF Dequeue, TypeOK
    <3> QED
      BY <1>1, <3>1, <3>2 DEF Outstanding
  <2> QED
    BY <2>2, <2>3
<1>5. CASE ~TakeJob(w)
  <2>1. UNCHANGED queue
    BY <1>3, <1>5, WorkerMoves
  <2>2. pc'[w] = "countTake" => pc[w] = "countTake" /\ sys'[w] = sys[w] /\ scan'[w] = scan[w]
    BY <1>0, <1>5
    DEF WorkerStep, LoopTest, GetSystem, NextChild, PutChild, PutChildFull, CountChild, Finish,
        ReleaseLock, TryNextQueue, FindNothing, CountTake, Call, FunctionReturns, Goto, threadVars
  <2>3. Taken(s, p)' \subseteq Taken(s, p)
    BY <1>2, <2>2 DEF Taken, CallsRest
  <2>4. k' <= k
    <3>1. IsFiniteSet(Taken(s, p))
      BY CountedType, FS_Subset
    <3> QED
      BY <2>3, <3>1, FS_Subset
  <2>5. \A x, y, z \in Nat : x <= y => z + x <= z + y
    OBVIOUS
  <2>6. n + k' <= n + k
    BY ONLY <1>1, <2>4, <2>5
  <2> QED
    BY <2>1, <2>6 DEF Outstanding
<1> QED
  BY <1>4, <1>5


\* A size is the number of the jobs in its queue and of those on their way out.
LEMMA SizeIsOutstanding ==
  ASSUME IsFiniteSet(Threads), SizesFit, TypeOK, WorkerInv, QueuesFit, SizesCountJobs,
         NEW c \in Clients, Alone(c), pc[c] = "waitAll", NEW s \in Systems, NEW p \in Priorities
  PROVE  size[s][p] = Outstanding(s, p) /\ Outstanding(s, p) \in 0 .. Room(p)
<1>1. Enqueued(s, p) = {}
  <2> SUFFICES ASSUME NEW t \in Threads, pc[t] \in {"countChild", "countPut"} PROVE FALSE
    BY DEF Enqueued
  <2>1. t # c
    OBVIOUS
  <2>2. t \in Workers
    BY <2>1 DEF Threads, Alone
  <2>3. pc[t] # "countPut"
    BY <2>2 DEF TypeOK, WorkerPCs
  <2> QED
    BY <2>2, <2>3, NoChildren
<1>2. Cardinality(Enqueued(s, p)) = 0
  BY <1>1, FS_EmptySet
<1>3. /\ Taken(s, p) \subseteq Threads /\ Cardinality(Taken(s, p)) \in Nat
      /\ Cardinality(Threads) \in Nat /\ Cardinality(Taken(s, p)) <= Cardinality(Threads)
  BY CountedType, FS_Subset, FS_CardinalityType
<1>4. /\ \A q \in Priorities : Capacity[q] \in Nat
      /\ Len(queue[s][p]) \in Nat /\ Len(queue[s][p]) <= Capacity[p] /\ SizeMod \in Nat \ {0}
  BY JobSystemAssumption DEF TypeOK, QueuesFit
<1>5. Outstanding(s, p) \in 0 .. Room(p) /\ Room(p) < SizeMod
  <2>1. \A q \in Priorities : Room(q) \in Nat
    BY <1>3, <1>4 DEF Room
  <2>2. Room(p) < SizeMod
    BY <1>4, <2>1 DEF SizesFit, Priorities
  <2>3. \A n, k, m, r \in Nat : n <= r /\ k <= m => n + k \in 0 .. r + m
    OBVIOUS
  <2>4. Capacity[p] \in Nat
    BY <1>4
  <2>5. Outstanding(s, p) \in 0 .. Room(p)
    BY ONLY <1>3, <1>4, <2>3, <2>4 DEF Outstanding, Room
  <2> QED
    BY <2>2, <2>5
<1>6. size[s][p] = Outstanding(s, p) % SizeMod
  BY <1>2, <1>3, <1>4 DEF SizesCountJobs, Outstanding
<1>7. Outstanding(s, p) % SizeMod = Outstanding(s, p)
  <2> DEFINE n == Outstanding(s, p)
  <2>1. n \in Nat /\ n < SizeMod
    BY <1>3, <1>4, <1>5 DEF Room
  <2> HIDE DEF n
  <2>2. n % SizeMod = n
    BY <1>4, <2>1
  <2> QED
    BY <2>2 DEF n
<1> QED
  BY <1>5, <1>6, <1>7

\* What fits in a uint32_t does not wrap.
LEMMA RoomType ==
  ASSUME IsFiniteSet(Threads), SizesFit
  PROVE  /\ Room("High") \in Nat /\ Room("Normal") \in Nat /\ Room("Low") \in Nat
         /\ Room("High") + Room("Normal") + Room("Low") < SizeMod
         /\ SizeMod \in Nat \ {0}
<1>1. Cardinality(Threads) \in Nat
  BY FS_CardinalityType
<1>2. \A p \in Priorities : Room(p) \in Nat
  BY <1>1, JobSystemAssumption DEF Room
<1> QED
  BY <1>2, JobSystemAssumption DEF SizesFit, Priorities

\* A step of a worker.
LEMMA WorkerDrain ==
  ASSUME IsFiniteSet(Threads), SizesFit, TypeOK, TypeOK', WorkerInv, QueuesFit, SizesCountJobs,
         DrainInv, NEW w \in Workers, WorkerStep(w)
  PROVE  DrainInv'
<1> SUFFICES ASSUME NEW c \in Clients, NEW s \in Systems, s = sys'[c]
             PROVE  DrainOK(c, s)'
  BY DEF DrainInv
<1>1. c \in Threads /\ c # w /\ {"High", "Normal"} \subseteq Priorities
  BY ThreadKinds DEF Priorities
<1>2. pc'[c] = pc[c] /\ scan'[c] = scan[c] /\ s = sys[c]
  BY <1>1, WorkerCallsRest DEF CallsRest
<1>3. UNCHANGED <<pending, children>>
  BY DEF WorkerStep, LoopTest, GetSystem, NextChild, PutChild, PutChildFull, CountChild, Finish,
         ReleaseLock, TakeJob, TryNextQueue, FindNothing, CountTake, Call, FunctionReturns,
         jobVars, threadVars
<1>4. Alone(c)' <=> Alone(c)
  BY <1>3 DEF Alone
<1>5. pending[c] \in Nat /\ Room("High") \in Nat /\ Room("Normal") \in Nat
  BY RoomType DEF TypeOK
<1>6. ASSUME Alone(c), pc[c] = "waitAll", NEW p \in Priorities
      PROVE  /\ Outstanding(s, p) \in Nat /\ Outstanding(s, p)' \in Int
             /\ Outstanding(s, p)' <= Outstanding(s, p)
  <2>1. Outstanding(s, p) \in Nat
    BY <1>6, SizeIsOutstanding
  <2>2. Outstanding(s, p)' <= Outstanding(s, p)
    BY <1>6, Drained
  <2>3. Outstanding(s, p)' \in Int
    <3>1. Taken(s, p)' \subseteq Threads /\ queue'[s][p] \in Seq(Jobs)
      BY DEF Taken, TypeOK
    <3>2. Cardinality(Taken(s, p)') \in Nat
      BY <3>1, FS_Subset, FS_CardinalityType
    <3>3. Len(queue'[s][p]) \in Nat
      BY <3>1
    <3> QED
      BY <3>2, <3>3 DEF Outstanding
  <2> QED
    BY <2>1, <2>2, <2>3
<1>7. DrainOK(c, s)
  BY <1>2 DEF DrainInv
<1>8. CASE ~(pc[c] = "waitAll" /\ Alone(c))
  BY <1>2, <1>3, <1>4, <1>7, <1>8 DEF DrainOK
<1>9. CASE pc[c] = "waitAll" /\ Alone(c)
  <2>1. /\ Outstanding(s, "High") \in Nat /\ Outstanding(s, "High")' \in Int
        /\ Outstanding(s, "High")' <= Outstanding(s, "High")
        /\ Outstanding(s, "Normal") \in Nat /\ Outstanding(s, "Normal")' \in Int
        /\ Outstanding(s, "Normal")' <= Outstanding(s, "Normal")
    BY <1>1, <1>6, <1>9
  <2>2. /\ scan[c] = "High" => pending[c] = 0
        /\ scan[c] = "Normal" => pending[c] \in Outstanding(s, "High") .. Room("High")
        /\ scan[c] = "Low" =>
             pending[c] \in Outstanding(s, "High") + Outstanding(s, "Normal")
                              .. Room("High") + Room("Normal")
    BY <1>7, <1>9 DEF DrainOK
  <2> QED
    BY <1>2, <1>3, <1>4, <1>5, <1>9, <2>1, <2>2 DEF DrainOK
<1> QED
  BY <1>8, <1>9

\* A step of a client.
LEMMA ClientDrain ==
  ASSUME IsFiniteSet(Threads), SizesFit, TypeOK, WorkerInv, QueuesFit, SizesCountJobs,
         DrainInv, NEW d \in Clients, ClientCall(d) \/ ClientStep(d)
  PROVE  DrainInv'
<1> SUFFICES ASSUME NEW c \in Clients, NEW s \in Systems, s = sys'[c]
             PROVE  DrainOK(c, s)'
  BY DEF DrainInv
<1> USE DEF Goto, jobVars, queueVars, globalVars, threadVars
<1>0. /\ c \in Threads /\ d \in Threads
      /\ pc \in [Threads -> WorkerPCs \cup ClientPCs] /\ scan \in [Threads -> Priorities]
      /\ pending \in [Clients -> 0 .. SizeMod - 1]
      /\ sys \in [Threads -> Systems] /\ sys[c] \in Systems
  BY ThreadKinds DEF TypeOK
<1>1. DrainOK(c, sys[c])
  BY <1>0 DEF DrainInv
<1>2. CASE c # d
  <2>1. pc'[c] = pc[c] /\ scan'[c] = scan[c] /\ pending'[c] = pending[c]
    BY <1>0, <1>2
    DEF ClientCall, ClientStep, CreateJob, Then, ScheduleJob, Wait, WaitForAll, Shutdown,
        PutJob, PutJobFull, CountPut, CheckLock, WaitReturns, ReadSize, ReadLastSize, JoinReturns
  <2>2. ~Alone(c) /\ ~Alone(c)'
    BY <1>2 DEF Alone
  <2> QED
    BY <1>1, <2>1, <2>2 DEF DrainOK
<1>3. ASSUME c = d, pc'[c] # "waitAll", pending'[c] = 0,
             pc'[c] \in {"idle", "waiting", "joining"} => scan'[c] = "High"
      PROVE  DrainOK(c, s)'
  BY <1>3 DEF DrainOK
<1>4. CASE c = d /\ ClientCall(c)
  <2>1. /\ pc[c] = "idle" /\ scan[c] = "High" /\ pending[c] = 0
    BY <1>1, <1>4
    DEF DrainOK, ClientCall, CreateJob, Then, ScheduleJob, Wait, WaitForAll, Shutdown
  <2>2. CASE \E r \in Systems : WaitForAll(c, r)
    <3>1. pc'[c] = "waitAll" /\ scan'[c] = "High" /\ pending'[c] = 0
      BY <1>0, <2>1, <2>2 DEF WaitForAll
    <3> QED
      BY <3>1 DEF DrainOK
  <2>3. CASE \E r \in Systems, j \in Jobs, p \in JobPriorities : ScheduleJob(c, r, j, p)
    <3>1. pc'[c] = "put" /\ pending'[c] = 0
      BY <1>0, <2>1, <2>3 DEF ScheduleJob
    <3> QED
      BY <1>3, <1>4, <3>1
  <2>4. CASE \/ \E j \in Jobs, p \in JobPriorities : CreateJob(c, j, p)
             \/ \E parent, j \in Jobs : Then(c, parent, j)
             \/ \E js \in WaitLists : Wait(c, js)
             \/ c = Main /\ \E blocking \in BOOLEAN : Shutdown(blocking)
    <3>1. pc'[c] \in {"idle", "waiting", "joining"} /\ scan'[c] = "High" /\ pending'[c] = 0
      BY <1>0, <2>1, <2>4 DEF CreateJob, Then, Wait, Shutdown
    <3> QED
      BY <1>3, <1>4, <3>1
  <2> QED
    BY <1>4, <2>2, <2>3, <2>4 DEF ClientCall
<1>5. CASE c = d /\ (PutJob(c) \/ PutJobFull(c) \/ CountPut(c))
  <2>1. /\ pc'[c] \in {"countPut", "idle"} /\ pending'[c] = 0
        /\ pc'[c] = "idle" => scan'[c] = "High"
    BY <1>0, <1>1, <1>5 DEF PutJob, PutJobFull, CountPut, DrainOK
  <2> QED
    BY <1>3, <1>5, <2>1
<1>6. CASE c = d /\ (CheckLock(c) \/ WaitReturns(c) \/ (c = Main /\ JoinReturns))
  <2>1. pc'[c] \in {"waiting", "idle"} /\ pending'[c] = 0 /\ scan'[c] = "High"
    BY <1>0, <1>1, <1>6 DEF CheckLock, WaitReturns, JoinReturns, DrainOK
  <2> QED
    BY <1>3, <1>6, <2>1
<1>7. CASE c = d /\ ReadSize(c)
  <2>1. /\ pc[c] = "waitAll" /\ scan[c] # "Low" /\ scan'[c] = NextPriority[scan[c]]
        /\ pending'[c] = (pending[c] + size[sys[c]][scan[c]]) % SizeMod
        /\ UNCHANGED <<pc, sys, queue, children>> /\ s = sys[c]
        /\ \A t \in Threads : t # c => scan'[t] = scan[t]
    BY <1>0, <1>7 DEF ReadSize
  <2>2. scan[c] \in {"High", "Normal"}
    BY <1>0, <2>1 DEF Priorities
  <2>3. \A p \in Priorities : Outstanding(s, p)' = Outstanding(s, p)
    BY <2>1 DEF Outstanding, Taken
  <2>4. Alone(c)' <=> Alone(c)
    BY <2>1 DEF Alone
  <2>5. scan'[c] = IF scan[c] = "High" THEN "Normal" ELSE "Low"
    BY <2>1, <2>2 DEF NextPriority
  <2>6. CASE ~Alone(c)
    BY <2>4, <2>5, <2>6, <2>1 DEF DrainOK
  <2>7. CASE Alone(c)
    <3>1. /\ size[s]["High"] = Outstanding(s, "High")
          /\ Outstanding(s, "High") \in 0 .. Room("High")
          /\ size[s]["Normal"] = Outstanding(s, "Normal")
          /\ Outstanding(s, "Normal") \in 0 .. Room("Normal")
      BY <2>1, <2>7, SizeIsOutstanding DEF Priorities
    <3>2. /\ Outstanding(s, "High")' = Outstanding(s, "High")
          /\ Outstanding(s, "Normal")' = Outstanding(s, "Normal")
      BY <2>3 DEF Priorities
    <3>3. \A n \in Nat : n < SizeMod => n % SizeMod = n
      BY RoomType
    <3>4. CASE scan[c] = "High"
      <4>1. pending[c] = 0
        BY <1>1, <2>1, <3>4 DEF DrainOK
      <4>2. pending'[c] = Outstanding(s, "High")
        BY <2>1, <3>1, <3>3, <3>4, <4>1, RoomType
      <4> QED
        BY <2>1, <2>5, <3>1, <3>2, <3>4, <4>2, RoomType DEF DrainOK
    <3>5. CASE scan[c] = "Normal"
      <4>1. pending[c] \in Outstanding(s, "High") .. Room("High")
        BY <1>1, <2>1, <2>7, <3>5 DEF DrainOK
      <4>2. pending'[c] = pending[c] + Outstanding(s, "Normal")
        BY <2>1, <3>1, <3>3, <3>5, <4>1, RoomType
      <4> QED
        BY <2>1, <2>5, <3>1, <3>2, <3>5, <4>1, <4>2, RoomType DEF DrainOK
    <3> QED
      BY <2>2, <3>4, <3>5
  <2> QED
    BY <2>6, <2>7
<1>8. CASE c = d /\ ReadLastSize(c)
  <2>1. scan'[c] = "High" /\ pending'[c] = 0
    BY <1>0, <1>8 DEF ReadLastSize
  <2> QED
    BY <2>1 DEF DrainOK
<1> QED
  BY <1>2, <1>4, <1>5, <1>6, <1>7, <1>8 DEF ClientStep

LEMMA DrainInit == Init => DrainInv /\ QueuesFit
<1> SUFFICES ASSUME Init PROVE DrainInv /\ QueuesFit
  OBVIOUS
<1>1. DrainInv
  BY ThreadKinds DEF Init, DrainInv, DrainOK
<1>2. \A s \in Systems, p \in Priorities : Len(queue[s][p]) = 0 /\ Capacity[p] \in Nat
  BY JobSystemAssumption DEF Init
<1> QED
  BY <1>1, <1>2 DEF QueuesFit

\* The step by which WaitForAll returns.
LEMMA DrainReturns ==
  ASSUME IsFiniteSet(Threads), SizesFit, TypeOK, WorkerInv, QueuesFit, SizesCountJobs,
         DrainInv, Next, NEW c \in Clients, pc[c] = "waitAll", pc'[c] = "idle", Alone(c),
         NEW p \in Priorities
  PROVE  queue[sys[c]][p] = << >>
<1>1. ReadLastSize(c)
  <2>1. ASSUME NEW w \in Workers, WorkerStep(w) PROVE pc'[c] = pc[c]
    BY <2>1, WorkerCallsRest, ThreadKinds DEF CallsRest
  <2>2. ASSUME NEW d \in Clients, ClientCall(d) \/ ClientStep(d) PROVE ReadLastSize(c)
    <3>1. d = c
      BY DEF Alone
    <3>2. ~ClientCall(c)
      BY DEF ClientCall, CreateJob, Then, ScheduleJob, Wait, WaitForAll, Shutdown, Goto
    <3> QED
      BY <2>2, <3>1, <3>2
      DEF ClientStep, PutJob, PutJobFull, CountPut, CheckLock, WaitReturns, ReadSize,
          JoinReturns, Goto
  <2> QED
    BY <2>1, <2>2 DEF Next
<1> PICK s \in Systems : s = sys[c]
  BY ThreadKinds DEF TypeOK
<1>2. scan[c] = "Low" /\ ~((pending[c] + size[s]["Low"]) % SizeMod > 0)
  <2>1. c \in Threads /\ pc \in [Threads -> WorkerPCs \cup ClientPCs]
    BY ThreadKinds DEF TypeOK
  <2> QED
    BY <1>1, <2>1 DEF ReadLastSize, Goto
<1>3. /\ size[s]["Low"] = Outstanding(s, "Low") /\ Outstanding(s, "Low") \in 0 .. Room("Low")
      /\ Outstanding(s, "High") \in 0 .. Room("High")
      /\ Outstanding(s, "Normal") \in 0 .. Room("Normal")
  BY SizeIsOutstanding DEF Priorities
<1>4. pending[c] \in Outstanding(s, "High") + Outstanding(s, "Normal")
                       .. Room("High") + Room("Normal")
  BY <1>2 DEF DrainInv, DrainOK
<1>5. pending[c] + Outstanding(s, "Low") = 0
  <2>1. \A n \in Nat : n < SizeMod => n % SizeMod = n
    BY RoomType
  <2> QED
    BY <1>2, <1>3, <1>4, <2>1, RoomType
<1>6. Outstanding(s, p) = 0
  <2>1. /\ Outstanding(s, "High") = 0 /\ Outstanding(s, "Normal") = 0
        /\ Outstanding(s, "Low") = 0
    BY <1>3, <1>4, <1>5, RoomType
  <2> QED
    BY <2>1 DEF Priorities
<1>7. Len(queue[s][p]) = 0
  <2>1. Len(queue[s][p]) \in Nat /\ Cardinality(Taken(s, p)) \in Nat
    BY CountedType
  <2> QED
    BY <1>6, <2>1 DEF Outstanding
<1>8. queue[s][p] \in Seq(Jobs)
  BY DEF TypeOK
<1> QED
  BY <1>7, <1>8

\* WaitForAll (JobSystemManager.cpp:172-184) adds up three sizes that it reads one after the
\* other, while workers drain the queues: if nobody else schedules jobs and none has children,
\* and the sizes fit in a uint32_t, the queues are empty when the sum is zero.
THEOREM WaitForAllReturnsDrained ==
  ASSUME IsFiniteSet(Threads), SizesFit
  PROVE  Spec => WaitForAllDrains
<1> DEFINE Inv == JobInv /\ SizesCountJobs
           D == DrainInv /\ QueuesFit
<1>1. Init => D
  BY DrainInit
<1>2. Inv /\ Inv' /\ D /\ [Next]_vars => D'
  <2> SUFFICES ASSUME Inv, Inv', D, [Next]_vars PROVE D'
    OBVIOUS
  <2>1. TypeOK /\ TypeOK' /\ WorkerInv /\ ClientInv
    BY DEF JobInv
  <2>2. QueuesFit'
    BY <2>1, QueuesFitStep
  <2>3. CASE Next
    BY <2>1, <2>2, <2>3, WorkerDrain, ClientDrain DEF Next
  <2>4. CASE UNCHANGED vars
    BY <2>2, <2>4
    DEF DrainInv, DrainOK, Alone, Outstanding, Taken, vars, jobVars, queueVars, threadVars
  <2> QED
    BY <2>3, <2>4
<1>3. Inv /\ D /\ [Next]_vars =>
        [\A c \in Clients :
           pc[c] = "waitAll" /\ pc'[c] = "idle"
             /\ Clients = {c} /\ (\A j \in Jobs : children[j] = << >>) =>
               \A p \in Priorities : queue[sys[c]][p] = << >>]_vars
  <2> SUFFICES ASSUME Inv, D, Next, NEW c \in Clients,
                      pc[c] = "waitAll", pc'[c] = "idle", Alone(c), NEW p \in Priorities
               PROVE  queue[sys[c]][p] = << >>
    BY DEF Alone
  <2> QED
    BY DrainReturns DEF JobInv
<1>4. Spec => []Inv
  BY JobInvariant, SizesAreExact, PTL
<1> QED
  BY <1>1, <1>2, <1>3, <1>4, PTL DEF Spec, WaitForAllDrains
==============================================================================
