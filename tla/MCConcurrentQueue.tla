--------------------------- MODULE MCConcurrentQueue ---------------------------
(***************************************************************************)
(* The parts of concurrentqueue.h for TLC.  A ConcurrentQueue is made of    *)
(* sub-queues of two kinds, a pool of blocks, a list of producers with the  *)
(* hash of the threads they belong to, and the listeners of the threads'    *)
(* exits.  Each part promises the others what the modules that use it       *)
(* assume of it, so each is explored on its own: `part` is the one, on the  *)
(* instance that is meant for it, and the variables of the others rest:     *)
(* those of the free list, which is extended here, in its initial state.    *)
(***************************************************************************)
EXTENDS FreeList, TLC

CONSTANTS
  x1, x2, x3,   \* consumers, threads and producer tokens that are alike
  x0,           \* one that is alone
  NoToken,
  p1, p2, p3, q1, Nobody

VARIABLES
  part,
  \* the sub-queues; see ProducerBase, ExplicitProducer and ImplicitProducer
  tailIndex, headIndex, dequeueOptimisticCount, dequeueOvercommit, elements, con,
  tailBlock, next, pro,
  emptyFlags, indices, pr_blockIndexSlotsUsed, pr_blockIndexFront,
  holding, elementsCompletelyDequeued, entries, headers,
  \* Producers
  tables, implicitProducerHashCount, implicitProducerHashResizeInProgress, producers,
  alive, loc,
  \* ThreadExit
  hash, inactive, nextListener, tail, queues, exiting

Explicit == INSTANCE ExplicitProducer WITH
  Consumers <- {x1, x2}, BLOCK_SIZE <- 2, IndexValues <- 16, MaxBlocks <- 2, MaxBulk <- 1,
  MaxItems <- 5, MaxLag <- 6, EXPLICIT_INITIAL_INDEX_SIZE <- 2, MAX_SUBQUEUE_SIZE <- 16,
  MemoryMayRunOut <- FALSE, BulkMayFailHalfway <- FALSE, CtorMayThrow <- FALSE

ExplicitBulk == INSTANCE ExplicitProducer WITH
  Consumers <- {x0}, BLOCK_SIZE <- 2, IndexValues <- 32, MaxBlocks <- 3, MaxBulk <- 3,
  MaxItems <- 7, MaxLag <- 13, EXPLICIT_INITIAL_INDEX_SIZE <- 2, MAX_SUBQUEUE_SIZE <- 32,
  MemoryMayRunOut <- TRUE, BulkMayFailHalfway <- FALSE, CtorMayThrow <- FALSE

Implicit == INSTANCE ImplicitProducer WITH
  Consumers <- {x1, x2}, BLOCK_SIZE <- 2, IndexValues <- 16, MaxBlocks <- 2, MaxBulk <- 1,
  MaxItems <- 4, MaxLag <- 6, IMPLICIT_INITIAL_INDEX_SIZE <- 2, MAX_SUBQUEUE_SIZE <- 16,
  MemoryMayRunOut <- FALSE, CtorMayThrow <- FALSE, held <- holding

ImplicitBulk == INSTANCE ImplicitProducer WITH
  Consumers <- {x0}, BLOCK_SIZE <- 2, IndexValues <- 32, MaxBlocks <- 3, MaxBulk <- 3,
  MaxItems <- 6, MaxLag <- 13, IMPLICIT_INITIAL_INDEX_SIZE <- 2, MAX_SUBQUEUE_SIZE <- 4,
  MemoryMayRunOut <- TRUE, CtorMayThrow <- TRUE, held <- holding

\* Ids 1 and 3 collide in every table.
HashOf == [id \in 1 .. 3 |-> IF id = 3 THEN 1 ELSE id]

ThreadsProducers == INSTANCE Producers WITH
  Threads <- {x1, x2}, Ids <- 1 .. 3, Tokens <- {}, INITIAL_IMPLICIT_PRODUCER_HASH_SIZE <- 1,
  MemoryMayRunOut <- TRUE, ThreadLocalSupported <- FALSE

TokensProducers == INSTANCE Producers WITH
  Threads <- {x0}, Ids <- {1}, HashOf <- [id \in {1} |-> 1], Tokens <- {x1, x2, x3},
  INITIAL_IMPLICIT_PRODUCER_HASH_SIZE <- 2,
  MemoryMayRunOut <- TRUE, ThreadLocalSupported <- TRUE

Exits == INSTANCE ThreadExit WITH
  Threads <- {x1, x2, x3}, Queues <- {q1}, ProducersOf <- [q \in {q1} |-> {p1, p2, p3}],
  Null <- Nobody, next <- nextListener, alive <- queues, loc <- exiting

ASSUME PartsAssumption ==
  /\ Explicit!ProducerBaseAssumption /\ Explicit!ExplicitProducerAssumption
  /\ ExplicitBulk!ProducerBaseAssumption /\ ExplicitBulk!ExplicitProducerAssumption
  /\ Implicit!ProducerBaseAssumption /\ Implicit!ImplicitProducerAssumption
  /\ ImplicitBulk!ProducerBaseAssumption /\ ImplicitBulk!ImplicitProducerAssumption
  /\ FreeListAssumption
  /\ ThreadsProducers!ProducersAssumption /\ TokensProducers!ProducersAssumption
  /\ Exits!ThreadExitAssumption

baseVars == <<tailIndex, headIndex, dequeueOptimisticCount, dequeueOvercommit, elements, con,
              tailBlock, next, pro>>
explicitVars == <<emptyFlags, indices, pr_blockIndexSlotsUsed, pr_blockIndexFront>>
implicitVars == <<holding, elementsCompletelyDequeued, entries, headers>>
producersVars == <<tables, implicitProducerHashCount, implicitProducerHashResizeInProgress,
                   producers, alive, loc>>
exitVars == <<hash, inactive, nextListener, tail, queues, exiting>>
partsVars == <<part, baseVars, explicitVars, implicitVars, vars, producersVars, exitVars>>

\* The variables of a part that rests.
Rest == "rest"
NoSubQueue ==
  /\ tailIndex = Rest /\ headIndex = Rest /\ dequeueOptimisticCount = Rest
  /\ dequeueOvercommit = Rest /\ elements = Rest /\ con = Rest /\ tailBlock = Rest
  /\ next = Rest /\ pro = Rest
NoExplicit ==
  /\ emptyFlags = Rest /\ indices = Rest /\ pr_blockIndexSlotsUsed = Rest
  /\ pr_blockIndexFront = Rest
NoImplicit ==
  /\ holding = Rest /\ elementsCompletelyDequeued = Rest /\ entries = Rest /\ headers = Rest
NoProducers ==
  /\ tables = Rest /\ implicitProducerHashCount = Rest
  /\ implicitProducerHashResizeInProgress = Rest /\ producers = Rest /\ alive = Rest
  /\ loc = Rest
NoExits ==
  /\ hash = Rest /\ inactive = Rest /\ nextListener = Rest /\ tail = Rest /\ queues = Rest
  /\ exiting = Rest

PartsInit ==
  /\ Init
  /\ \/ /\ NoProducers /\ NoExits
        /\ \/ /\ NoImplicit
              /\ \/ part = "explicit" /\ Explicit!Init
                 \/ part = "explicitBulk" /\ ExplicitBulk!Init
           \/ /\ NoExplicit
              /\ \/ part = "implicit" /\ Implicit!Init
                 \/ part = "implicitBulk" /\ ImplicitBulk!Init
     \/ /\ NoSubQueue /\ NoExplicit /\ NoImplicit
        /\ \/ /\ NoProducers /\ NoExits
              /\ part = "freeList"
           \/ /\ NoExits
              /\ \/ part = "threads" /\ ThreadsProducers!Init
                 \/ part = "tokens" /\ TokensProducers!Init
           \/ /\ NoProducers
              /\ part = "exits" /\ Exits!Init

\* All threads have gone.
AllGone == (\A t \in {x1, x2, x3} : exiting[t].at = "out") /\ UNCHANGED exitVars

PartsNext ==
  /\ UNCHANGED part
  /\ \/ /\ UNCHANGED <<implicitVars, vars, producersVars, exitVars>>
        /\ \/ part = "explicit" /\ Explicit!Next
           \/ part = "explicitBulk" /\ ExplicitBulk!Next
     \/ /\ UNCHANGED <<explicitVars, vars, producersVars, exitVars>>
        /\ \/ part = "implicit" /\ Implicit!Next
           \/ part = "implicitBulk" /\ ImplicitBulk!Next
     \/ /\ UNCHANGED <<baseVars, explicitVars, implicitVars, producersVars, exitVars>>
        /\ part = "freeList" /\ Next
     \/ /\ UNCHANGED <<baseVars, explicitVars, implicitVars, vars, exitVars>>
        /\ \/ part = "threads" /\ ThreadsProducers!Next
           \/ part = "tokens" /\ TokensProducers!Next
     \/ /\ UNCHANGED <<baseVars, explicitVars, implicitVars, vars, producersVars>>
        /\ part = "exits" /\ (Exits!Next \/ AllGone)

PartsSpec == PartsInit /\ [][PartsNext]_partsVars

Symmetry == Permutations(Threads)

------------------------------------------------------------------------------
\* Properties.

\* A consumer that has claimed an index finds the block and the object of that index; the
\* producer constructs objects where none is, in blocks the sub-queue holds; and the
\* destructor destroys the objects that are there and no others (concurrentqueue.h:1783,
\* 1842, 1770, 2449, 2510, 2584, 2940).
SubQueuesInv ==
  CASE part = "explicit" -> Explicit!SubQueueInv
    [] part = "explicitBulk" -> ExplicitBulk!SubQueueInv
    [] part = "implicit" -> Implicit!SubQueueInv
    [] part = "implicitBulk" -> ImplicitBulk!SubQueueInv
    [] OTHER -> TRUE

\* What is enqueued to a sub-queue leaves it once and in order, one item or many at a time
\* (SubQueueFIFO; concurrentqueue.h:1807, 1873, 1937, 2131, 2460, 2506, 2638, 2758).
SubQueuesAreFIFO ==
  /\ part = "explicit" => Explicit!FIFO!Init
  /\ part = "explicitBulk" => ExplicitBulk!FIFO!Init
  /\ part = "implicit" => Implicit!FIFO!Init
  /\ part = "implicitBulk" => ImplicitBulk!FIFO!Init
  /\ [][CASE part = "explicit" -> Explicit!FIFOStep
          [] part = "explicitBulk" -> ExplicitBulk!FIFOStep
          [] part = "implicit" -> Implicit!FIFOStep
          [] part = "implicitBulk" -> ImplicitBulk!FIFOStep
          [] OTHER -> TRUE]_partsVars

\* The hash finds a thread's own producer and no other's, while other threads enter theirs,
\* grow the table and leave; and a sub-queue has one producer (concurrentqueue.h:3219,
\* 3380, 3398, 3405).
ProducersInv ==
  /\ part = "threads" => ThreadsProducers!ProducersInv
  /\ part = "tokens" => TokensProducers!ProducersInv

\* A thread that exits is forgotten by the queue, and its producers go to others and to one
\* at a time (concurrentqueue.h:598, 3221, 3537-3560).
ExitsInv == part = "exits" => Exits!ExitInv
==============================================================================
