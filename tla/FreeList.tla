--------------------------------- MODULE FreeList ---------------------------------
(***************************************************************************)
(* The pool of blocks of concurrentqueue.h: the initial pool, the lock-free  *)
(* free list with its reference counts, and the allocation of new blocks.   *)
(* A step is one access to an atomic variable; memory is sequentially        *)
(* consistent.  The reference count and the should-be-on-list bit are one    *)
(* number, as in the code.                                                  *)
(***************************************************************************)
EXTENDS Integers, FiniteSets

CONSTANTS
  Threads,
  PoolSize,              \* initialBlockPoolSize: the blocks 1 .. PoolSize
  MaxBlocks,             \* how many blocks memory has room for
  SHOULD_BE_ON_FREELIST, \* 2^31 in the code
  Fair                   \* the threads that are certainly scheduled

Blocks == 1 .. MaxBlocks
Null == 0

FreeListAssumption ==
  /\ IsFiniteSet(Threads) /\ Fair \subseteq Threads
  /\ PoolSize \in Nat /\ MaxBlocks \in Nat /\ PoolSize <= MaxBlocks
  /\ SHOULD_BE_ON_FREELIST \in Nat
  /\ SHOULD_BE_ON_FREELIST > Cardinality(Threads) + 2

VARIABLES
  initialBlockPoolIndex,
  created,        \* the blocks allocated beyond the initial pool
  freeListHead,
  freeListRefs,   \* reference count + SHOULD_BE_ON_FREELIST if that bit is set
  freeListNext,
  held,           \* the blocks each thread has been given
  th              \* per thread: place and locals

vars == <<initialBlockPoolIndex, created, freeListHead, freeListRefs, freeListNext, held,
          th>>
shared == <<initialBlockPoolIndex, created, freeListHead, freeListRefs, freeListNext, held>>

\* `node` is prevHead of try_get or the node that is added, `seen` the head that add
\* has read, `then` where add returns to.
Idle == [at |-> "idle", head |-> Null, refs |-> 0, next |-> Null, node |-> Null,
         seen |-> Null, then |-> "idle"]

Links == Blocks \cup {Null}
Places == {"idle", "poolIndex", "loadHead", "loadRefs", "acquire", "loadNext", "unlink",
           "take", "release", "loadSeen", "setNext", "setRefs", "link", "relink", "create"}

TypeOK ==
  /\ initialBlockPoolIndex \in 0 .. PoolSize + Cardinality(Threads)
  /\ created \subseteq Blocks
  /\ freeListHead \in Links
  /\ freeListRefs \in [Blocks -> 0 .. 2 * SHOULD_BE_ON_FREELIST - 1]
  /\ freeListNext \in [Blocks -> Links]
  /\ held \in [Threads -> SUBSET Blocks]
  /\ th \in [Threads -> [at : Places, head : Links, refs : Nat, next : Links,
                         node : Links, seen : Links, then : {"idle", "loadRefs"}]]

Init ==
  /\ initialBlockPoolIndex = 0 /\ created = {}
  /\ freeListHead = Null
  /\ freeListRefs = [b \in Blocks |-> 0] /\ freeListNext = [b \in Blocks |-> Null]
  /\ held = [t \in Threads |-> {}]
  /\ th = [t \in Threads |-> Idle]

At(t, place) == th[t].at = place
Goto(t, place) == th' = [th EXCEPT ![t].at = place]
Return(t) == th' = [th EXCEPT ![t] = Idle]

\* A thread has a block: the call returns it.
Give(t, b) == held' = [held EXCEPT ![t] = @ \cup {b}] /\ Return(t)

------------------------------------------------------------------------------
\* requisition_block.

\* try_get_block_from_initial_pool.
Requisition(t) ==
  /\ At(t, "idle")
  /\ Goto(t, IF initialBlockPoolIndex >= PoolSize THEN "loadHead" ELSE "poolIndex")
  /\ UNCHANGED shared

TakeFromPool(t) ==
  /\ At(t, "poolIndex")
  /\ initialBlockPoolIndex' = initialBlockPoolIndex + 1
  /\ IF initialBlockPoolIndex < PoolSize
     THEN Give(t, initialBlockPoolIndex + 1)
     ELSE Goto(t, "loadHead") /\ UNCHANGED held
  /\ UNCHANGED <<created, freeListHead, freeListRefs, freeListNext>>

\* create<Block>(), or nullptr when memory is out or may not be allocated.
Create(t) ==
  /\ At(t, "create")
  /\ \/ \E b \in PoolSize + 1 .. MaxBlocks :
          /\ b \notin created /\ \A c \in PoolSize + 1 .. b - 1 : c \in created
          /\ created' = created \cup {b} /\ Give(t, b)
     \/ Return(t) /\ UNCHANGED <<created, held>>
  /\ UNCHANGED <<initialBlockPoolIndex, freeListHead, freeListRefs, freeListNext>>

------------------------------------------------------------------------------
\* FreeList::try_get.

LoadHead(t) ==
  /\ At(t, "loadHead")
  /\ th' = [th EXCEPT ![t].head = freeListHead, ![t].at = "loadRefs"]
  /\ UNCHANGED shared

\* The end of the loop, with nullptr.
GetNothing(t) ==
  /\ At(t, "loadRefs") /\ th[t].head = Null
  /\ th' = [th EXCEPT ![t] = [Idle EXCEPT !.at = "create"]]
  /\ UNCHANGED shared

\* Mutant: the count is not looked at.
LoadRefsBlindly(t) ==
  /\ At(t, "loadRefs") /\ th[t].head # Null
  /\ th' = [th EXCEPT ![t].refs = freeListRefs[th[t].head], ![t].at = "acquire"]
  /\ UNCHANGED shared

LoadRefs(t) ==
  /\ At(t, "loadRefs") /\ th[t].head # Null
  /\ LET refs == freeListRefs[th[t].head] IN
     IF refs % SHOULD_BE_ON_FREELIST = 0
     THEN th' = [th EXCEPT ![t] = [Idle EXCEPT !.at = "loadHead"]]
     ELSE th' = [th EXCEPT ![t].refs = refs, ![t].at = "acquire"]
  /\ UNCHANGED shared

Acquire(t) ==
  /\ At(t, "acquire")
  /\ IF freeListRefs[th[t].head] = th[t].refs
     THEN /\ freeListRefs' = [freeListRefs EXCEPT ![th[t].head] = @ + 1]
          /\ th' = [th EXCEPT ![t].at = "loadNext", ![t].refs = 0]
     ELSE /\ th' = [th EXCEPT ![t] = [Idle EXCEPT !.at = "loadHead"]]
          /\ UNCHANGED freeListRefs
  /\ UNCHANGED <<initialBlockPoolIndex, created, freeListHead, freeListNext, held>>

LoadNext(t) ==
  /\ At(t, "loadNext")
  /\ th' = [th EXCEPT ![t].next = freeListNext[th[t].head], ![t].at = "unlink"]
  /\ UNCHANGED shared

\* The compare-and-swap on the head; a failed one leaves the new head in `head`.
Unlink(t) ==
  /\ At(t, "unlink")
  /\ IF freeListHead = th[t].head
     THEN freeListHead' = th[t].next /\ Goto(t, "take")
     ELSE /\ th' = [th EXCEPT ![t].node = th[t].head, ![t].head = freeListHead,
                              ![t].next = Null, ![t].at = "release"]
          /\ UNCHANGED freeListHead
  /\ UNCHANGED <<initialBlockPoolIndex, created, freeListRefs, freeListNext, held>>

\* Mutant: only the own reference is given back.
TakeOnce(t) ==
  /\ At(t, "take")
  /\ freeListRefs' = [freeListRefs EXCEPT ![th[t].head] = @ - 1]
  /\ Give(t, th[t].head)
  /\ UNCHANGED <<initialBlockPoolIndex, created, freeListHead, freeListNext>>

\* The own reference and that of the list.
Take(t) ==
  /\ At(t, "take")
  /\ freeListRefs' = [freeListRefs EXCEPT ![th[t].head] = @ - 2]
  /\ Give(t, th[t].head)
  /\ UNCHANGED <<initialBlockPoolIndex, created, freeListHead, freeListNext>>

\* The head was another one; whoever is the last to let the node go adds it.
Release(t) ==
  /\ At(t, "release")
  /\ freeListRefs' = [freeListRefs EXCEPT ![th[t].node] = @ - 1]
  /\ IF freeListRefs[th[t].node] = SHOULD_BE_ON_FREELIST + 1
     THEN th' = [th EXCEPT ![t].at = "loadSeen", ![t].then = "loadRefs"]
     ELSE th' = [th EXCEPT ![t].at = "loadRefs", ![t].node = Null]
  /\ UNCHANGED <<initialBlockPoolIndex, created, freeListHead, freeListNext, held>>

------------------------------------------------------------------------------
\* FreeList::add, called by add_block_to_free_list.

Add(t, b) ==
  /\ At(t, "idle") /\ b \in held[t]
  /\ held' = [held EXCEPT ![t] = @ \ {b}]
  /\ freeListRefs' = [freeListRefs EXCEPT ![b] = @ + SHOULD_BE_ON_FREELIST]
  /\ IF freeListRefs[b] = 0
     THEN th' = [th EXCEPT ![t].at = "loadSeen", ![t].node = b]
     ELSE UNCHANGED th
  /\ UNCHANGED <<initialBlockPoolIndex, created, freeListHead, freeListNext>>

\* add_knowing_refcount_is_zero.
LoadSeen(t) ==
  /\ At(t, "loadSeen")
  /\ th' = [th EXCEPT ![t].seen = freeListHead, ![t].at = "setNext"]
  /\ UNCHANGED shared

SetNext(t) ==
  /\ At(t, "setNext")
  /\ freeListNext' = [freeListNext EXCEPT ![th[t].node] = th[t].seen]
  /\ Goto(t, "setRefs")
  /\ UNCHANGED <<initialBlockPoolIndex, created, freeListHead, freeListRefs, held>>

SetRefs(t) ==
  /\ At(t, "setRefs")
  /\ freeListRefs' = [freeListRefs EXCEPT ![th[t].node] = 1]
  /\ Goto(t, "link")
  /\ UNCHANGED <<initialBlockPoolIndex, created, freeListHead, freeListNext, held>>

\* add has returned, to the caller or to try_get.
Added(t) == IF th[t].then = "idle" THEN Idle
            ELSE [Idle EXCEPT !.at = "loadRefs", !.head = th[t].head]

Link(t) ==
  /\ At(t, "link")
  /\ IF freeListHead = th[t].seen
     THEN freeListHead' = th[t].node /\ th' = [th EXCEPT ![t] = Added(t)]
     ELSE /\ th' = [th EXCEPT ![t].seen = freeListHead, ![t].at = "relink"]
          /\ UNCHANGED freeListHead
  /\ UNCHANGED <<initialBlockPoolIndex, created, freeListRefs, freeListNext, held>>

\* Linking failed: try again when nobody else refers to the node, else leave it to them.
Relink(t) ==
  /\ At(t, "relink")
  /\ freeListRefs' = [freeListRefs EXCEPT ![th[t].node] = @ + SHOULD_BE_ON_FREELIST - 1]
  /\ IF freeListRefs[th[t].node] = 1
     THEN Goto(t, "setNext")
     ELSE th' = [th EXCEPT ![t] = Added(t)]
  /\ UNCHANGED <<initialBlockPoolIndex, created, freeListHead, freeListNext, held>>

------------------------------------------------------------------------------
InCall(t) ==
  \/ TakeFromPool(t) \/ Create(t)
  \/ LoadHead(t) \/ GetNothing(t) \/ LoadRefs(t) \/ Acquire(t) \/ LoadNext(t)
  \/ Unlink(t) \/ Take(t) \/ Release(t)
  \/ LoadSeen(t) \/ SetNext(t) \/ SetRefs(t) \/ Link(t) \/ Relink(t)

Next == \E t \in Threads : Requisition(t) \/ (\E b \in Blocks : Add(t, b)) \/ InCall(t)

Spec == Init /\ [][Next]_vars

\* Only the threads of Fair are certain to go on; the others may stop anywhere.
FairSpec == Spec /\ \A t \in Fair : WF_vars(InCall(t))

------------------------------------------------------------------------------
\* Properties.

\* The nodes that the links of f lead to from x: the smallest set that contains x and, with
\* each node, the one after it.
Reach(x, f) ==
  {b \in Blocks : \A S \in SUBSET Blocks :
                    x \in S \cup {Null} /\ (\A c \in S : f[c] \in S \cup {Null}) => b \in S}

\* The nodes on the list.
OnList == Reach(freeListHead, freeListNext)

\* The threads that hold a reference to b.
Referring(b) ==
  {t \in Threads : \/ th[t].at \in {"loadNext", "unlink", "take"} /\ th[t].head = b
                   \/ th[t].at = "release" /\ th[t].node = b}
\* The threads that are linking b and have not set its count yet, or have.
Preparing(b) == {t \in Threads : th[t].at \in {"loadSeen", "setNext", "setRefs"}
                                 /\ th[t].node = b}
Linking(b) == {t \in Threads : th[t].at \in {"link", "relink"} /\ th[t].node = b}
\* The threads that have taken b off the list and still count its reference.
Taking(b) == {t \in Threads : th[t].at = "take" /\ th[t].head = b}

\* Every block has one place: with one thread, on the list, on its way from or to it, or
\* waiting for the last thread that refers to it (concurrentqueue.h:1438-1517).
OnePlace ==
  \A b \in Blocks :
    Cardinality({t \in Threads : b \in held[t]}) + (IF b \in OnList THEN 1 ELSE 0)
      + Cardinality(Taking(b)) + Cardinality(Preparing(b)) + Cardinality(Linking(b)) <= 1

\* The reference count counts the threads that refer to the node, the list or the thread
\* that is linking it (concurrentqueue.h:1461, 1475, 1482, 1508).
RefsAreCounted ==
  \A b \in Blocks :
    freeListRefs[b] % SHOULD_BE_ON_FREELIST =
      Cardinality(Referring(b))
        + (IF b \in OnList \/ Taking(b) # {} \/ Linking(b) # {} THEN 1 ELSE 0)

\* A thread that is about to swap the head for `next` finds, if the head is still the one
\* it refers to, that `next` is still the one after it: there is no ABA
\* (concurrentqueue.h:1466-1469).
NextIsStable ==
  \A t \in Threads :
    At(t, "unlink") /\ freeListHead = th[t].head => th[t].next = freeListNext[th[t].head]

\* The assertion of try_get (concurrentqueue.h:1472): a node taken off the list is not
\* marked to be put on it.
TakenIsUnmarked ==
  \A t \in Threads : At(t, "take") => freeListRefs[th[t].head] < SHOULD_BE_ON_FREELIST

\* When no call is under way every block is held or on the list: none is lost between the
\* threads that leave its adding to each other (concurrentqueue.h:1445-1449, 1482-1485, 1509-1513).
NoneIsLost ==
  (\A t \in Threads : At(t, "idle")) =>
    \A b \in ((1 .. PoolSize) \cap (1 .. initialBlockPoolIndex)) \cup created :
      b \in OnList \/ \E t \in Threads : b \in held[t]

\* The invariant of the free list.
FreeListInv ==
  /\ TypeOK /\ OnePlace /\ RefsAreCounted /\ NextIsStable /\ TakenIsUnmarked /\ NoneIsLost

Pool == INSTANCE BlockPool WITH Users <- Threads
PoolStep == UNCHANGED held \/ Pool!Next

\* The pool gives a block to one thread at a time (concurrentqueue.h:3072-3092): the free
\* list implements BlockPool.
FreeListIsPool == Pool!Spec

\* The free list is lock-free: while a scheduled thread stays in a call, calls return,
\* even when the others stop anywhere (concurrentqueue.h:1425).
SomeCallReturns ==
  \A t \in Fair :
    []<>At(t, "idle") \/ []<><<\E u \in Threads : th[u].at # "idle" /\ th'[u].at = "idle">>_vars
==============================================================================
