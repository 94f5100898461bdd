----------------------------- MODULE ExplicitProducer -----------------------------
(***************************************************************************)
(* A sub-queue of concurrentqueue.h that belongs to a producer token: a     *)
(* ring of blocks, of which the empty ones are used again, and a circular   *)
(* index that leads a consumer from an item's index to its block.  The      *)
(* producer's own variables are changed together with the shared one that   *)
(* it writes or reads next.                                                 *)
(***************************************************************************)
EXTENDS ProducerBase, Sequences

CONSTANTS
  EXPLICIT_INITIAL_INDEX_SIZE,
  MAX_SUBQUEUE_SIZE,     \* a multiple of BLOCK_SIZE, or Unlimited
  MemoryMayRunOut,       \* an allocation may fail before memory is full; CannotAlloc too
  BulkMayFailHalfway,    \* an enqueue_bulk may fail after it has changed something
  CtorMayThrow           \* the item's constructor is not noexcept, and may throw

Unlimited == IndexValues

ExplicitProducerAssumption ==
  /\ EXPLICIT_INITIAL_INDEX_SIZE \in Nat /\ EXPLICIT_INITIAL_INDEX_SIZE > 1
  /\ MAX_SUBQUEUE_SIZE \in 0 .. Unlimited /\ MAX_SUBQUEUE_SIZE % BLOCK_SIZE = 0
  /\ {MemoryMayRunOut, BulkMayFailHalfway, CtorMayThrow} \subseteq BOOLEAN

VARIABLES
  tailBlock, next,        \* the ring
  emptyFlags,             \* per block: the slots that are flagged as empty
  indices,                \* the block indices, the oldest first: size, front, entries
  pr_blockIndexSlotsUsed, pr_blockIndexFront,
  pro                     \* the producer: place and locals

blocks == <<tailBlock, next, emptyFlags>>
index == <<indices, pr_blockIndexSlotsUsed, pr_blockIndexFront>>
own == <<blocks, index, pro>>
base == <<counters, elements, con>>
vars == <<base, own>>

\* start, used, front and first are startBlock, the original SlotsUsed and Front, and
\* firstAllocatedBlock; diff and current are blockBaseDiff and currentTailIndex.
Waiting == [at |-> "idle", count |-> 0, bulk |-> FALSE, start |-> Null, used |-> 0,
            front |-> 0, first |-> Null, diff |-> 0, current |-> 0]

NoEntry == [base |-> 0, block |-> Null]

TypeOK ==
  /\ BaseTypeOK
  /\ tailBlock \in Blocks \cup {Null}
  /\ next \in [Blocks -> Blocks \cup {Null}]
  /\ emptyFlags \in [Blocks -> SUBSET Slots]
  /\ \A h \in DOMAIN indices :
       /\ indices[h].size \in Nat /\ indices[h].front \in -1 .. indices[h].size - 1
       /\ indices[h].entries \in [0 .. indices[h].size - 1 ->
                                    [base : Indices, block : Blocks \cup {Null}]]
  /\ pr_blockIndexSlotsUsed \in 0 .. MaxBlocks
  /\ pr_blockIndexFront \in Nat
  /\ pro \in [at : {"idle", "reuse", "grow", "newIndex", "newBlock", "entry", "front",
                    "reset", "construct", "tail"},
              count : 0 .. MaxBulk, bulk : BOOLEAN, start : Blocks \cup {Null},
              used : Nat, front : Nat, first : Blocks \cup {Null}, diff : Nat,
              current : Indices]

\* The constructor asks for an index of the initial size, which may fail.
NewIndex(size, front, entries) ==
  [size |-> size, front |-> front,
   entries |-> [e \in 0 .. size - 1 |->
                  IF e < Len(entries) THEN entries[e + 1] ELSE NoEntry]]

Init ==
  /\ BaseInit
  /\ tailBlock = Null /\ next = [b \in Blocks |-> Null]
  /\ emptyFlags = [b \in Blocks |-> {}]
  /\ \/ indices = <<NewIndex(EXPLICIT_INITIAL_INDEX_SIZE, -1, <<>>)>>
     \/ MemoryMayRunOut /\ indices = <<>>
  /\ pr_blockIndexSlotsUsed = 0 /\ pr_blockIndexFront = 0
  /\ pro = Waiting

------------------------------------------------------------------------------
\* Blocks and index, as the producer sees them.

IsEmpty(b) == emptyFlags[b] = Slots
AtBoundary(i) == Slot(i) = 0
blockIndex == Len(indices)
pr_blockIndexSize == IF indices = <<>> THEN EXPLICIT_INITIAL_INDEX_SIZE \div 2
                     ELSE indices[blockIndex].size
Entry(h, k) == indices[h].entries[k % indices[h].size]

\* The entry for tailBlock' is written at pr_blockIndexFront.
WriteEntry(at, b) ==
  indices' = [indices EXCEPT ![blockIndex].entries[pr_blockIndexFront] =
                               [base |-> at, block |-> b]]

FrontSteps == pr_blockIndexFront' = (pr_blockIndexFront + 1) % pr_blockIndexSize

\* The n-th block after b in the ring.
After(b, n) == LET after[k \in 0 .. n] == IF k = 0 THEN b ELSE next[after[k - 1]]
               IN  after[n]

\* The blocks of the pool.
Owned == IF tailBlock = Null THEN {} ELSE {After(tailBlock, n) : n \in 0 .. MaxBlocks}
InPool == Blocks \ Owned

Goto(place) == pro' = [pro EXCEPT !.at = place]

------------------------------------------------------------------------------
\* enqueue, up to the choice of a block.

Enqueue ==
  /\ pro.at = "idle"
  /\ MaxItems # Endless => tailIndex < MaxItems
  /\ LET call == [Waiting EXCEPT !.count = 1, !.start = tailBlock,
                    !.used = pr_blockIndexSlotsUsed, !.front = pr_blockIndexFront,
                    !.current = tailIndex]
     IN  IF ~AtBoundary(tailIndex)
         THEN pro' = [call EXCEPT !.at = "construct"] /\ UNCHANGED blocks
         ELSE IF tailBlock # Null /\ IsEmpty(next[tailBlock])
         THEN /\ tailBlock' = next[tailBlock]
              /\ emptyFlags' = [emptyFlags EXCEPT ![next[tailBlock]] = {}]
              /\ pro' = [call EXCEPT !.at = IF CtorMayThrow THEN "construct" ELSE "entry"]
              /\ UNCHANGED next
         ELSE pro' = [call EXCEPT !.at = "grow"] /\ UNCHANGED blocks
  /\ UNCHANGED <<base, index>>

------------------------------------------------------------------------------
\* enqueue_bulk, up to the loop that allocates.

BulkFits(count, diff) ==
  LET last == Base(tailIndex + count - 1) IN
  /\ diff <= BLOCK_SIZE * Cardinality(InPool)
  /\ CircularLessThan(headIndex, last + BLOCK_SIZE)
  /\ MAX_SUBQUEUE_SIZE # Unlimited
       => MAX_SUBQUEUE_SIZE - BLOCK_SIZE >= Sub(last, headIndex)

EnqueueBulk(count) ==
  /\ pro.at = "idle"
  /\ MaxItems # Endless => tailIndex + count <= MaxItems
  /\ LET before == Base(Sub(tailIndex, 1))
         diff   == Sub(Base(tailIndex + count - 1), before)
     IN  /\ BulkMayFailHalfway \/ diff = 0 \/ BulkFits(count, diff)
         /\ pro' = [Waiting EXCEPT !.at = IF diff > 0 THEN "reuse" ELSE "construct",
                      !.count = count, !.bulk = TRUE, !.start = tailBlock,
                      !.used = pr_blockIndexSlotsUsed, !.front = pr_blockIndexFront,
                      !.diff = diff, !.current = before]
  /\ UNCHANGED <<base, blocks, index>>

\* One turn of the loop over the blocks ahead, or its end.
Reuse ==
  /\ pro.at = "reuse"
  /\ IF pro.diff > 0 /\ tailBlock # Null /\ next[tailBlock] # pro.first
        /\ IsEmpty(next[tailBlock])
     THEN LET b == next[tailBlock]
              current == Add(pro.current, BLOCK_SIZE)
          IN  /\ tailBlock' = b
              /\ WriteEntry(current, b) /\ FrontSteps
              /\ pro' = [pro EXCEPT !.diff = @ - BLOCK_SIZE, !.current = current,
                                    !.first = IF @ = Null THEN b ELSE @]
     ELSE /\ pro' = [pro EXCEPT
                       !.at = IF pro.diff > 0 THEN "grow" ELSE "reset",
                       !.current = IF pro.diff > 0 THEN Add(@, BLOCK_SIZE) ELSE @]
          /\ UNCHANGED <<tailBlock, indices, pr_blockIndexFront>>
  /\ UNCHANGED <<base, next, emptyFlags, pr_blockIndexSlotsUsed>>

------------------------------------------------------------------------------
\* A new block is needed.

NeedsIndex == indices = <<>> \/ pr_blockIndexSlotsUsed = pr_blockIndexSize

\* The call fails.  What it has changed in the producer's variables is undone, the
\* blocks that it has added stay in the ring.
Fail ==
  /\ pr_blockIndexFront' = pro.front /\ pr_blockIndexSlotsUsed' = pro.used
  /\ tailBlock' = IF pro.start = Null THEN pro.first ELSE pro.start
  /\ pro' = Waiting
  /\ UNCHANGED <<base, next, emptyFlags, indices>>

MayFail == pro.bulk => pro.first = Null \/ BulkMayFailHalfway

\* The leeway and the limit, with the head as it is now.
Grow ==
  /\ pro.at = "grow"
  /\ LET full == \/ ~CircularLessThan(headIndex, Add(pro.current, BLOCK_SIZE))
                 \/ /\ MAX_SUBQUEUE_SIZE # Unlimited
                    /\ \/ MAX_SUBQUEUE_SIZE = 0
                       \/ MAX_SUBQUEUE_SIZE - BLOCK_SIZE < Sub(pro.current, headIndex)
     IN  IF full
         THEN Fail
         ELSE /\ Goto(IF NeedsIndex THEN "newIndex" ELSE "newBlock")
              /\ UNCHANGED <<base, blocks, index>>

\* new_block_index(used).
NewBlockIndex ==
  /\ pro.at = "newIndex"
  /\ LET n == pr_blockIndexSlotsUsed
         old == [k \in 1 .. n |-> Entry(blockIndex, pr_blockIndexFront - n + k - 1)]
     IN  /\ indices' = Append(indices, NewIndex(2 * pr_blockIndexSize, pro.used - 1, old))
         /\ pr_blockIndexFront' = n
  /\ pro' = [pro EXCEPT !.at = "newBlock", !.front = pro.used]
  /\ UNCHANGED <<base, blocks, pr_blockIndexSlotsUsed>>

NoMemory ==
  /\ \/ pro.at = "newIndex" /\ MemoryMayRunOut
     \/ pro.at = "newBlock" /\ (MemoryMayRunOut \/ InPool = {})
  /\ MayFail
  /\ Fail

\* requisition_block; in enqueue_bulk also the entry, and on to the next block.
NewBlock ==
  /\ pro.at = "newBlock" /\ InPool # {}
  /\ LET b == CHOOSE f \in InPool : \A g \in InPool : f <= g
         more == pro.diff > BLOCK_SIZE
     IN  /\ emptyFlags' = [emptyFlags EXCEPT ![b] = IF pro.bulk THEN Slots ELSE {}]
         /\ next' = IF tailBlock = Null THEN [next EXCEPT ![b] = b]
                    ELSE [next EXCEPT ![b] = next[tailBlock], ![tailBlock] = b]
         /\ tailBlock' = b
         /\ IF pro.bulk
            THEN /\ WriteEntry(pro.current, b) /\ FrontSteps
                 /\ pro' = [pro EXCEPT
                              !.at = IF more THEN "grow" ELSE "reset",
                              !.first = IF @ = Null THEN b ELSE @,
                              !.diff = @ - BLOCK_SIZE,
                              !.current = IF more THEN Add(@, BLOCK_SIZE) ELSE @]
            ELSE /\ Goto(IF CtorMayThrow THEN "construct" ELSE "entry")
                 /\ UNCHANGED <<indices, pr_blockIndexFront>>
  /\ pr_blockIndexSlotsUsed' = pr_blockIndexSlotsUsed + 1
  /\ UNCHANGED base

------------------------------------------------------------------------------
\* The items, and what makes them visible.

\* enqueue writes the entry of its new block.
PutEntry ==
  /\ pro.at = "entry"
  /\ WriteEntry(tailIndex, tailBlock)
  /\ Goto("front")
  /\ UNCHANGED <<base, blocks, pr_blockIndexSlotsUsed, pr_blockIndexFront>>

\* enqueue publishes it; where the constructor may throw the item is there already.
PublishFront ==
  /\ pro.at = "front" /\ ~pro.bulk
  /\ indices' = [indices EXCEPT ![blockIndex].front = pr_blockIndexFront]
  /\ FrontSteps
  /\ Goto(IF CtorMayThrow THEN "tail" ELSE "construct")
  /\ UNCHANGED <<base, blocks, pr_blockIndexSlotsUsed>>

BulkFront == indices' = [indices EXCEPT ![blockIndex].front =
                                          (pr_blockIndexFront - 1) % pr_blockIndexSize]

\* enqueue_bulk resets all of its blocks, and publishes the entries when no constructor
\* can throw.
ResetBlocks ==
  /\ pro.at = "reset"
  /\ LET mine == {After(pro.first, n) : n \in
                    0 .. CHOOSE n \in 0 .. MaxBlocks :
                           /\ After(pro.first, n) = tailBlock
                           /\ \A m \in 0 .. n - 1 : After(pro.first, m) # tailBlock}
     IN  emptyFlags' = [b \in Blocks |-> IF b \in mine THEN {} ELSE emptyFlags[b]]
  /\ IF CtorMayThrow THEN UNCHANGED indices ELSE BulkFront
  /\ Goto("construct")
  /\ UNCHANGED <<base, tailBlock, next, pr_blockIndexSlotsUsed, pr_blockIndexFront>>

BulkPublishFront ==
  /\ pro.at = "front" /\ pro.bulk
  /\ IF pro.first = Null THEN UNCHANGED indices ELSE BulkFront
  /\ Goto("tail")
  /\ UNCHANGED <<base, blocks, pr_blockIndexSlotsUsed, pr_blockIndexFront>>

\* The block of the k-th item of the call.
Target(k) ==
  LET from == IF pro.first # Null /\ AtBoundary(tailIndex) THEN pro.first
              ELSE IF pro.bulk THEN pro.start ELSE tailBlock
  IN  After(from, (Slot(tailIndex) + k) \div BLOCK_SIZE)

\* All constructions succeed.
Construct ==
  /\ pro.at = "construct"
  /\ elements' = [b \in Blocks |-> [s \in Slots |->
       LET here == {k \in 0 .. pro.count - 1 : Target(k) = b /\ Slot(tailIndex + k) = s}
       IN  IF here = {} THEN elements[b][s]
           ELSE Add(tailIndex, CHOOSE k \in here : TRUE)]]
  /\ Goto(IF ~CtorMayThrow THEN "tail" ELSE IF pro.bulk THEN "front"
          ELSE IF AtBoundary(tailIndex) THEN "entry" ELSE "tail")
  /\ UNCHANGED <<counters, con, blocks, index>>

\* One throws: what is constructed is destroyed again and the call is undone; in the
\* middle of a block there is nothing to undo for enqueue.
Throw ==
  /\ pro.at = "construct" /\ CtorMayThrow
  /\ pr_blockIndexFront' = pro.front /\ pr_blockIndexSlotsUsed' = pro.used
  /\ tailBlock' = IF pro.start # Null THEN pro.start
                  ELSE IF pro.bulk THEN pro.first ELSE tailBlock
  /\ pro' = Waiting
  /\ UNCHANGED <<base, next, emptyFlags, indices>>

PublishTail ==
  /\ pro.at = "tail"
  /\ tailIndex' = Add(tailIndex, pro.count)
  /\ pro' = Waiting
  /\ UNCHANGED <<headIndex, dequeueOptimisticCount, dequeueOvercommit, elements, con,
                 blocks, index>>

------------------------------------------------------------------------------
\* The second half of dequeue and dequeue_bulk.

Locate(c) ==
  /\ con[c].at = "locate"
  /\ con' = [con EXCEPT ![c].header = blockIndex, ![c].at = "front"]
  /\ UNCHANGED <<counters, elements, own>>

\* The number of blocks from j to i.  The division is unsigned, but as sizes of indices are
\* powers of two the position is that of the signed offset.
BlocksBetween(i, j) == Sub(i, j) \div BLOCK_SIZE

LoadFront(c) ==
  /\ con[c].at = "front"
  /\ LET header == indices[con[c].header]
         offset == BlocksBetween(Base(con[c].index), header.entries[header.front].base)
     IN  con' = [con EXCEPT ![c].pos = (header.front + offset) % header.size,
                            ![c].at = "portion"]
  /\ UNCHANGED <<counters, elements, own>>

\* The next block with items of this call.
OpenBlock(c) ==
  /\ con[c].at = "portion"
  /\ con' = [con EXCEPT ![c].block = Entry(con[c].header, con[c].pos).block,
                        ![c].at = "move"]
  /\ UNCHANGED <<counters, elements, own>>

\* Mutant: the whole block is flagged.
SetAllEmpty(c) ==
  /\ con[c].at = "close"
  /\ emptyFlags' = [emptyFlags EXCEPT ![con[c].block] = Slots]
  /\ con' = [con EXCEPT ![c] =
               IF con[c].left = 0 THEN Idle
               ELSE [@ EXCEPT !.pos = (con[c].pos + 1) % indices[con[c].header].size,
                              !.block = Null, !.moved = 0, !.at = "portion"]]
  /\ UNCHANGED <<counters, elements, tailBlock, next, index, pro>>

\* set_empty, set_many_empty; and on to the next block, or return.
SetEmpty(c) ==
  /\ con[c].at = "close"
  /\ emptyFlags' = [emptyFlags EXCEPT ![con[c].block] = @ \cup Emptied(c)]
  /\ con' = [con EXCEPT ![c] =
               IF con[c].left = 0 THEN Idle
               ELSE [@ EXCEPT !.pos = (con[c].pos + 1) % indices[con[c].header].size,
                              !.block = Null, !.moved = 0, !.at = "portion"]]
  /\ UNCHANGED <<counters, elements, tailBlock, next, index, pro>>

------------------------------------------------------------------------------
Consume(c) ==
  \/ BaseStep(c) /\ UNCHANGED own
  \/ Locate(c) \/ LoadFront(c) \/ OpenBlock(c) \/ SetEmpty(c)

Produce ==
  \/ Enqueue \/ (\E count \in 0 .. MaxBulk : EnqueueBulk(count))
  \/ Reuse \/ Grow \/ NewBlockIndex \/ NoMemory \/ NewBlock \/ PutEntry \/ PublishFront
  \/ ResetBlocks \/ BulkPublishFront \/ Construct \/ Throw \/ PublishTail

Next == (Produce \/ \E c \in Consumers : Consume(c)) /\ InTime'

Spec == Init /\ [][Next]_vars

\* A consumer that has called dequeue is scheduled until it returns.
FairSpec ==
  Spec /\ \A c \in Consumers : WF_vars(con[c].at # "idle" /\ Consume(c) /\ InTime')

------------------------------------------------------------------------------
\* Properties.

\* Objects are constructed where none is: a block is used again only when all of its
\* items have been taken out and destroyed (concurrentqueue.h:1842-1845, 2057-2061).
ConstructsInRaw ==
  pro.at = "construct" =>
    \A k \in 0 .. pro.count - 1 : elements[Target(k)][Slot(tailIndex + k)] = Raw

\* The assertion of set_empty and set_many_empty (concurrentqueue.h:1580, 1602): a slot
\* is not flagged as empty when a consumer is done with it.
FlagsWereClear ==
  \A c \in Consumers : con[c].at = "close" => Emptied(c) \cap emptyFlags[con[c].block] = {}

Quiescent == pro.at = "idle" /\ ConsumersIdle
Constructed == {p \in Blocks \X Slots : elements[p[1]][p[2]] # Raw}

\* The entries from the oldest on, and whether the head has passed their blocks.
OldestBase(k) == Entry(blockIndex, pr_blockIndexFront - pr_blockIndexSlotsUsed + k).base

Passed(k) == CircularLessThan(Add(OldestBase(k), BLOCK_SIZE), headIndex)

\* The block the destructor takes for the one that is partly dequeued: it goes from the
\* oldest entry to the first that the head has not passed.
HalfDequeued ==
  IF AtBoundary(headIndex) THEN Null
  ELSE Entry(blockIndex, pr_blockIndexFront - pr_blockIndexSlotsUsed +
         CHOOSE k \in 0 .. pr_blockIndexSize :
           (k = pr_blockIndexSize \/ ~Passed(k)) /\ \A j \in 0 .. k - 1 : Passed(j)).block

\* What ~ExplicitProducer destroys.
Destructed ==
  {p \in Owned \X Slots :
     /\ ~IsEmpty(p[1])
     /\ p[1] = HalfDequeued => p[2] >= Slot(headIndex)
     /\ p[1] = tailBlock /\ ~AtBoundary(tailIndex) => p[2] < Slot(tailIndex)}

\* The destructor destroys the objects that are in the sub-queue and no others
\* (concurrentqueue.h:1770-1772).
DestructorFindsItems == Quiescent => Destructed = Constructed

\* When nothing is under way, the blocks that hold no item can be used again, but for
\* the one the producer is filling (concurrentqueue.h:1843, 1907-1908).
SpareBlocksAreEmpty ==
  Quiescent => \A b \in Owned \ {tailBlock} :
                 IsEmpty(b) \/ \E s \in Slots : elements[b][s] # Raw

\* The invariant of the sub-queue, whose enqueues do not fail halfway.
SubQueueInv ==
  /\ TypeOK /\ CountersBalance /\ ClaimsAreCovered /\ FindsItsItem /\ ConstructsInRaw
  /\ FlagsWereClear /\ SpareBlocksAreEmpty /\ DestructorFindsItems

\* "The maximum number of elements (inclusive) that can be enqueued to a sub-queue"
\* (concurrentqueue.h:370-374).
SizeIsLimited == MAX_SUBQUEUE_SIZE # Unlimited => Sub(tailIndex, headIndex) <= MAX_SUBQUEUE_SIZE

\* Races that consumers have lost make no item unreachable: a consumer that keeps trying
\* gets all there is, once the others leave it alone (concurrentqueue.h:2030-2033).
AllIsDequeued ==
  (\E c \in Consumers : /\ []<>(con[c].at = "overcommit")
                        /\ <>[](\A d \in Consumers \ {c} : con[d].at = "idle"))
    => []<>(headIndex = tailIndex)

\* The sub-queue as its newest index shows it is a queue.  The items a consumer has
\* claimed are found through the index that it has loaded.
Found(i) ==
  LET header == indices[blockIndex]
      offset == BlocksBetween(Base(i), header.entries[header.front].base)
      b      == Entry(blockIndex, header.front + offset).block
  IN  IF b = Null THEN Raw ELSE elements[b][Slot(i)]
Queue == [k \in 1 .. Sub(tailIndex, headIndex) |-> Found(Add(headIndex, k - 1))]
Hand == [c \in Consumers |->
           IF con[c].at \in {"locate", "front", "portion", "move", "close"}
           THEN [k \in 1 .. con[c].left |-> Found(Add(con[c].index, k - 1))] ELSE <<>>]
FIFO == INSTANCE SubQueueFIFO WITH Items <- Indices, queue <- Queue, hand <- Hand
FIFOStep == UNCHANGED FIFO!vars \/ FIFO!Next
ImplementsFIFO == FIFO!Init /\ [][FIFOStep]_vars
==============================================================================
