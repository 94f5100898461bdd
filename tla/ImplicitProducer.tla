----------------------------- MODULE ImplicitProducer -----------------------------
(***************************************************************************)
(* A sub-queue of concurrentqueue.h that belongs to a thread: its blocks    *)
(* come from the common pool and go back to it when they are emptied, by    *)
(* whoever takes their last item.  An index entry is the base of a block    *)
(* and the block; a larger index shares the entries of the one before it.   *)
(* What only the producer can see between two of its accesses to shared     *)
(* variables is one step with the first of them; the value of an entry is   *)
(* seen by consumers once the tail index has passed its base.               *)
(***************************************************************************)
EXTENDS ProducerBase, Sequences

CONSTANTS
  IMPLICIT_INITIAL_INDEX_SIZE,
  MAX_SUBQUEUE_SIZE,     \* a multiple of BLOCK_SIZE, or Unlimited
  MemoryMayRunOut,       \* an allocation may fail before memory is full; CannotAlloc too
  CtorMayThrow           \* the item's constructor is not noexcept, and may throw

Unlimited == IndexValues

ImplicitProducerAssumption ==
  /\ IMPLICIT_INITIAL_INDEX_SIZE \in Nat /\ IMPLICIT_INITIAL_INDEX_SIZE > 1
  /\ MAX_SUBQUEUE_SIZE \in 0 .. Unlimited /\ MAX_SUBQUEUE_SIZE % BLOCK_SIZE = 0
  /\ {MemoryMayRunOut, CtorMayThrow} \subseteq BOOLEAN

VARIABLES
  held,           \* the blocks this sub-queue has of the pool
  tailBlock, next,
  elementsCompletelyDequeued,   \* per block
  entries,        \* all the index entries: key and value
  headers,        \* the block indices, the oldest first: tail, and the entry of each slot
  pro             \* the producer: place and locals

blocks == <<tailBlock, next>>
index == <<entries, headers>>
own == <<held, blocks, elementsCompletelyDequeued, index, pro>>
base == <<counters, elements, con>>
vars == <<base, own>>

INVALID_BLOCK_BASE == 1

\* start and first are startBlock and firstAllocatedBlock; diff and current are
\* blockBaseDiff and currentTailIndex.
Waiting == [at |-> "idle", count |-> 0, bulk |-> FALSE, start |-> Null, first |-> Null,
            diff |-> 0, current |-> 0]

TypeOK ==
  /\ BaseTypeOK
  /\ held \subseteq Blocks
  /\ tailBlock \in Blocks \cup {Null}
  /\ next \in [Blocks -> Blocks \cup {Null}]
  /\ elementsCompletelyDequeued \in [Blocks -> 0 .. BLOCK_SIZE]
  /\ entries \in Seq([key : Indices, value : Blocks \cup {Null}])
  /\ \A h \in DOMAIN headers :
       /\ headers[h].index \in Seq(DOMAIN entries)
       /\ headers[h].tail \in 0 .. Len(headers[h].index) - 1
  /\ pro \in [at : {"idle", "check", "insert", "newBlock", "revert", "release", "construct",
                    "tail"},
              count : 0 .. MaxBulk, bulk : BOOLEAN, start : Blocks \cup {Null},
              first : Blocks \cup {Null}, diff : Nat, current : Indices]

NewEntries(n) == [e \in 1 .. n |-> [key |-> INVALID_BLOCK_BASE, value |-> Null]]

\* The constructor's new_block_index, which may fail.
Init ==
  /\ BaseInit
  /\ held = {} /\ tailBlock = Null /\ next = [b \in Blocks |-> Null]
  /\ elementsCompletelyDequeued = [b \in Blocks |-> 0]
  /\ LET n == IMPLICIT_INITIAL_INDEX_SIZE IN
     \/ /\ entries = NewEntries(n)
        /\ headers = <<[tail |-> n - 1, index |-> [k \in 1 .. n |-> k]]>>
     \/ MemoryMayRunOut /\ entries = <<>> /\ headers = <<>>
  /\ pro = Waiting

------------------------------------------------------------------------------
\* The block index.

blockIndex == Len(headers)
Capacity(h) == Len(headers[h].index)
EntryAt(h, pos) == headers[h].index[(pos % Capacity(h)) + 1]
IndexTail == headers[blockIndex].tail
AtBoundary(i) == Slot(i) = 0

\* Where the block with base i is, seen from the entry at pos with this key.  The division
\* is unsigned; as capacities are powers of two the position is the same.
PositionOf(i, pos, key, h) == (pos + (Sub(i, key) \div BLOCK_SIZE)) % Capacity(h)

\* get_block_index_entry_for_index, by the producer or the destructor.
EntryFor(i) ==
  EntryAt(blockIndex,
          PositionOf(Base(i), IndexTail, entries[EntryAt(blockIndex, IndexTail)].key, blockIndex))

RewindTail ==
  headers' = [headers EXCEPT ![blockIndex].tail = (@ - 1) % Capacity(blockIndex)]

------------------------------------------------------------------------------
\* enqueue and enqueue_bulk: allocate all blocks that are needed.

Begin(count, bulk) ==
  /\ pro.at = "idle"
  /\ MaxItems # Endless => tailIndex + count <= MaxItems
  /\ LET before == Base(Sub(tailIndex, 1))
         diff   == Sub(Base(tailIndex + count - 1), before)
     IN  pro' = [Waiting EXCEPT !.at = IF diff > 0 THEN "check" ELSE "construct",
                   !.count = count, !.bulk = bulk, !.start = tailBlock,
                   !.diff = diff, !.current = before]
  /\ UNCHANGED <<base, held, blocks, elementsCompletelyDequeued, index>>

Enqueue == Begin(1, FALSE)
EnqueueBulk(count) == Begin(count, TRUE)

\* The call fails: what it has allocated is reverted.
Failing(locals) ==
  IF locals.first = Null THEN Waiting
  ELSE [locals EXCEPT !.at = "revert", !.current = Base(Sub(tailIndex, 1))]

\* The leeway and the limit, with the head as it is now, for one more block.
Check ==
  /\ pro.at = "check"
  /\ LET current == Add(pro.current, BLOCK_SIZE)
         full == \/ ~CircularLessThan(headIndex, Add(current, BLOCK_SIZE))
                 \/ /\ MAX_SUBQUEUE_SIZE # Unlimited
                    /\ \/ MAX_SUBQUEUE_SIZE = 0
                       \/ MAX_SUBQUEUE_SIZE - BLOCK_SIZE < Sub(current, headIndex)
     IN  pro' = IF full THEN Failing(pro)
                ELSE [pro EXCEPT !.at = "insert", !.current = current]
  /\ tailBlock' = IF pro'.at = "idle" THEN pro.start ELSE tailBlock
  /\ UNCHANGED <<base, held, next, elementsCompletelyDequeued, index>>

\* Mutant: an entry is taken whether or not its block is still in use.
MayTake(e) == TRUE
Usable(e) == entries[e].key = INVALID_BLOCK_BASE \/ entries[e].value = Null

\* insert_block_index_entry.
Insert ==
  /\ pro.at = "insert" /\ headers # <<>>
  /\ LET e == EntryAt(blockIndex, IndexTail + 1) IN
     /\ Usable(e)
     /\ entries' = [entries EXCEPT ![e].key = pro.current]
     /\ headers' = [headers EXCEPT ![blockIndex].tail = (@ + 1) % Capacity(blockIndex)]
  /\ pro' = [pro EXCEPT !.at = "newBlock"]
  /\ UNCHANGED <<base, held, blocks, elementsCompletelyDequeued>>

\* new_block_index: twice as many slots, the old entries first, the oldest of them first.
NewBlockIndex ==
  /\ pro.at = "insert" /\ headers # <<>> /\ ~Usable(EntryAt(blockIndex, IndexTail + 1))
  /\ LET n == Capacity(blockIndex) IN
     /\ entries' = entries \o NewEntries(n)
     /\ headers' = Append(headers,
          [tail |-> n - 1,
           index |-> [k \in 1 .. 2 * n |->
                        IF k <= n THEN EntryAt(blockIndex, IndexTail + k)
                        ELSE Len(entries) + k - n]])
  /\ UNCHANGED <<base, held, blocks, elementsCompletelyDequeued, pro>>

\* No index at all, or none that is larger.
NoIndex ==
  /\ pro.at = "insert"
  /\ headers # <<>> => MemoryMayRunOut /\ ~Usable(EntryAt(blockIndex, IndexTail + 1))
  /\ pro' = Failing(pro)
  /\ tailBlock' = IF pro.first = Null THEN pro.start ELSE tailBlock
  /\ UNCHANGED <<base, held, next, elementsCompletelyDequeued, index>>

\* requisition_block, and the new block is entered.
NewBlock ==
  /\ pro.at = "newBlock" /\ held # Blocks
  /\ LET b == CHOOSE f \in Blocks \ held : \A g \in Blocks \ held : f <= g IN
     /\ held' = held \cup {b}
     /\ elementsCompletelyDequeued' = [elementsCompletelyDequeued EXCEPT ![b] = 0]
     /\ entries' = [entries EXCEPT ![EntryAt(blockIndex, IndexTail)].value = b]
     /\ next' = IF ~pro.bulk THEN next
                ELSE IF AtBoundary(tailIndex) /\ pro.first = Null
                THEN [next EXCEPT ![b] = Null]
                ELSE [next EXCEPT ![b] = Null, ![tailBlock] = b]
     /\ tailBlock' = b
     /\ pro' = [pro EXCEPT !.at = IF pro.diff > BLOCK_SIZE THEN "check" ELSE "construct",
                           !.diff = @ - BLOCK_SIZE,
                           !.first = IF @ = Null THEN b ELSE @]
  /\ UNCHANGED <<base, headers>>

NoBlock ==
  /\ pro.at = "newBlock" /\ (MemoryMayRunOut \/ held = Blocks)
  /\ RewindTail
  /\ entries' = [entries EXCEPT ![EntryAt(blockIndex, IndexTail)].value = Null]
  /\ pro' = Failing(pro)
  /\ tailBlock' = IF pro.first = Null THEN pro.start ELSE tailBlock
  /\ UNCHANGED <<base, held, next, elementsCompletelyDequeued>>

\* The entries of the blocks of this call are taken back, the first block's first.
Revert ==
  /\ pro.at = "revert"
  /\ LET current == Add(pro.current, BLOCK_SIZE)
         e       == EntryFor(current)
     IN  /\ entries' = [entries EXCEPT ![e].value = Null]
         /\ RewindTail
         /\ pro' = IF ~pro.bulk \/ next[entries[e].value] = Null
                   THEN [pro EXCEPT !.at = "release", !.current = 0]
                   ELSE [pro EXCEPT !.current = current]
  /\ UNCHANGED <<base, held, blocks, elementsCompletelyDequeued>>

\* add_blocks_to_free_list.
Release ==
  /\ pro.at = "release"
  /\ held' = held \ {pro.first}
  /\ IF pro.bulk /\ next[pro.first] # Null
     THEN pro' = [pro EXCEPT !.first = next[pro.first]] /\ UNCHANGED tailBlock
     ELSE tailBlock' = pro.start /\ pro' = Waiting
  /\ UNCHANGED <<base, next, elementsCompletelyDequeued, index>>

------------------------------------------------------------------------------
\* The items.

\* The block of the k-th item of the call.
Target(k) ==
  LET from == IF AtBoundary(tailIndex) THEN pro.first ELSE pro.start
      after[n \in 0 .. MaxBulk] == IF n = 0 THEN from ELSE next[after[n - 1]]
  IN  after[(Slot(tailIndex) + k) \div BLOCK_SIZE]

\* All constructions succeed.
Construct ==
  /\ pro.at = "construct"
  /\ elements' = [b \in Blocks |-> [s \in Slots |->
       LET here == {k \in 0 .. pro.count - 1 : Target(k) = b /\ Slot(tailIndex + k) = s}
       IN  IF here = {} THEN elements[b][s]
           ELSE Add(tailIndex, CHOOSE k \in here : TRUE)]]
  /\ pro' = [pro EXCEPT !.at = "tail"]
  /\ UNCHANGED <<counters, con, held, blocks, elementsCompletelyDequeued, index>>

\* One throws: what is constructed is destroyed again, and the call reverted.
Throw ==
  /\ pro.at = "construct" /\ CtorMayThrow
  /\ pro' = Failing(pro)
  /\ UNCHANGED <<base, held, blocks, elementsCompletelyDequeued, index>>

PublishTail ==
  /\ pro.at = "tail"
  /\ tailIndex' = Add(tailIndex, pro.count)
  /\ pro' = Waiting
  /\ UNCHANGED <<headIndex, dequeueOptimisticCount, dequeueOvercommit, elements, con,
                 held, blocks, elementsCompletelyDequeued, index>>

------------------------------------------------------------------------------
\* The second half of dequeue and dequeue_bulk.

\* get_block_index_index_for_index, in three loads.
Locate(c) ==
  /\ con[c].at = "locate"
  /\ con' = [con EXCEPT ![c].header = blockIndex, ![c].at = "front"]
  /\ UNCHANGED <<counters, elements, own>>

LoadTail(c) ==
  /\ con[c].at = "front"
  /\ con' = [con EXCEPT ![c].pos = headers[con[c].header].tail, ![c].at = "key"]
  /\ UNCHANGED <<counters, elements, own>>

LoadKey(c) ==
  /\ con[c].at = "key"
  /\ LET h == con[c].header
         key == entries[EntryAt(h, con[c].pos)].key
     IN  con' = [con EXCEPT ![c].pos = PositionOf(Base(con[c].index), @, key, h),
                            ![c].at = "portion"]
  /\ UNCHANGED <<counters, elements, own>>

Located(c) == EntryAt(con[c].header, con[c].pos)

OpenBlock(c) ==
  /\ con[c].at = "portion"
  /\ con' = [con EXCEPT ![c].block = entries[Located(c)].value, ![c].at = "move"]
  /\ UNCHANGED <<counters, elements, own>>

\* On to the next block, or return.
Onward(c) ==
  con' = [con EXCEPT ![c] = IF con[c].left = 0 THEN Idle
                            ELSE [@ EXCEPT !.pos = (con[c].pos + 1) % Capacity(con[c].header),
                                           !.block = Null, !.moved = 0, !.at = "portion"]]

\* set_empty, set_many_empty; the consumer that completes the block gives it back.
SetEmpty(c) ==
  /\ con[c].at = "close"
  /\ elementsCompletelyDequeued' =
       [elementsCompletelyDequeued EXCEPT ![con[c].block] = @ + con[c].moved]
  /\ IF elementsCompletelyDequeued'[con[c].block] = BLOCK_SIZE
     THEN con' = [con EXCEPT ![c].at = "clear"]
     ELSE Onward(c)
  /\ UNCHANGED <<counters, elements, held, blocks, index, pro>>

ClearEntry(c) ==
  /\ con[c].at = "clear"
  /\ entries' = [entries EXCEPT ![Located(c)].value = Null]
  /\ con' = [con EXCEPT ![c].at = "free"]
  /\ UNCHANGED <<counters, elements, held, blocks, elementsCompletelyDequeued, headers, pro>>

FreeBlock(c) ==
  /\ con[c].at = "free"
  /\ held' = held \ {con[c].block}
  /\ Onward(c)
  /\ UNCHANGED <<counters, elements, blocks, elementsCompletelyDequeued, index, pro>>

------------------------------------------------------------------------------
Consume(c) ==
  \/ BaseStep(c) /\ UNCHANGED own
  \/ Locate(c) \/ LoadTail(c) \/ LoadKey(c) \/ OpenBlock(c)
  \/ SetEmpty(c) \/ ClearEntry(c) \/ FreeBlock(c)

Produce ==
  \/ Enqueue \/ (\E count \in 0 .. MaxBulk : EnqueueBulk(count))
  \/ Check \/ Insert \/ NewBlockIndex \/ NoIndex \/ NewBlock \/ NoBlock
  \/ Revert \/ Release \/ Construct \/ Throw \/ PublishTail

Next == (Produce \/ \E c \in Consumers : Consume(c)) /\ InTime'

Spec == Init /\ [][Next]_vars

------------------------------------------------------------------------------
\* Properties.

\* The assertions of get_block_index_index_for_index (concurrentqueue.h:2940, 2945): the
\* entry a consumer starts from has a base, and it comes to the entry of its block,
\* whatever the producer inserts, takes back or copies meanwhile.
FindsItsEntry ==
  \A c \in Consumers :
    con[c].at = "portion" =>
      /\ entries[Located(c)].key = Base(con[c].index)
      /\ entries[Located(c)].value \in held

\* Nobody works in a block that is back in the pool, or gives it back again
\* (concurrentqueue.h:2584-2592, 2617-2620).
WorksInHeldBlocks ==
  /\ \A c \in Consumers : con[c].at \in {"move", "close", "clear", "free"}
                            => con[c].block \in held
  /\ pro.at = "construct" => \A k \in 0 .. pro.count - 1 : Target(k) \in held
  /\ pro.at = "release" => pro.first \in held

\* Objects are constructed where none is (concurrentqueue.h:2492-2502).
ConstructsInRaw ==
  pro.at = "construct" =>
    \A k \in 0 .. pro.count - 1 : elements[Target(k)][Slot(tailIndex + k)] = Raw

Quiescent == pro.at = "idle" /\ ConsumersIdle
Constructed == {p \in Blocks \X Slots : elements[p[1]][p[2]] # Raw}

\* What ~ImplicitProducer destroys, and the blocks it gives back: those it walks over and
\* the last one.
Remaining == {Add(headIndex, k) : k \in 0 .. Sub(tailIndex, headIndex) - 1}
BlockOf(i) == entries[EntryFor(i)].value
Destructed == {<<BlockOf(i), Slot(i)>> : i \in Remaining}
GivenBack ==
  {BlockOf(i) : i \in {j \in Remaining : Base(j) # Base(Sub(tailIndex, 1))}}
    \cup IF tailBlock # Null /\ (Remaining # {} \/ ~AtBoundary(tailIndex))
         THEN {tailBlock} ELSE {}

\* The destructor destroys the objects that are in the sub-queue and no others, and gives
\* all of its blocks back, as it must since nobody else knows of them
\* (concurrentqueue.h:2418-2421, 2449-2454).
DestructorFindsItems == Quiescent => Destructed = Constructed /\ GivenBack = held

\* The limit is kept (concurrentqueue.h:370-374).
SizeIsLimited ==
  MAX_SUBQUEUE_SIZE # Unlimited => Sub(tailIndex, headIndex) <= MAX_SUBQUEUE_SIZE

\* The invariant of the sub-queue.
SubQueueInv ==
  /\ TypeOK /\ CountersBalance /\ ClaimsAreCovered /\ FindsItsItem /\ FindsItsEntry
  /\ WorksInHeldBlocks /\ ConstructsInRaw /\ DestructorFindsItems /\ SizeIsLimited

\* The sub-queue as its newest index shows it is a queue.
Found(i) == IF BlockOf(i) = Null THEN Raw ELSE elements[BlockOf(i)][Slot(i)]
Queue == [k \in 1 .. Sub(tailIndex, headIndex) |-> Found(Add(headIndex, k - 1))]
Hand == [c \in Consumers |->
           IF con[c].at \in {"locate", "front", "key", "portion", "move", "close", "clear",
                             "free"}
           THEN [k \in 1 .. con[c].left |-> Found(Add(con[c].index, k - 1))] ELSE <<>>]
FIFO == INSTANCE SubQueueFIFO WITH Items <- Indices, queue <- Queue, hand <- Hand
FIFOStep == UNCHANGED FIFO!vars \/ FIFO!Next
ImplementsFIFO == FIFO!Init /\ [][FIFOStep]_vars
==============================================================================
