--------------------------------- MODULE Producers ---------------------------------
(***************************************************************************)
(* The producers of concurrentqueue.h and how they are found: by a thread   *)
(* through the hash of thread ids, which grows by chaining tables, and by a  *)
(* token that holds one.  A producer that nobody uses any more is inactive   *)
(* and is used again.  A step is one access to a shared variable.            *)
(***************************************************************************)
EXTENDS Integers, Sequences, FiniteSets, SequencesExt

CONSTANTS
  Threads,
  Ids,            \* what thread_id() returns; an id may come back after its thread is gone
  HashOf,         \* hash_thread_id
  Tokens, NoToken,
  INITIAL_IMPLICIT_PRODUCER_HASH_SIZE,
  MemoryMayRunOut,
  ThreadLocalSupported   \* MOODYCAMEL_CPP11_THREAD_LOCAL_SUPPORTED

ProducersAssumption ==
  /\ IsFiniteSet(Threads) /\ NoToken \notin Tokens /\ Threads \cap (Tokens \cup {NoToken}) = {}
  /\ Ids \subseteq Nat \ {0} /\ HashOf \in [Ids -> Nat]
  /\ INITIAL_IMPLICIT_PRODUCER_HASH_SIZE \in Nat \ {0}
  /\ {MemoryMayRunOut, ThreadLocalSupported} \subseteq BOOLEAN

VARIABLES
  tables,         \* implicitProducerHash and its predecessors, the newest last
  implicitProducerHashCount,
  implicitProducerHashResizeInProgress,
  producers,      \* the list, its tail last: [isExplicit, inactive, token]
  alive,          \* the queue is not destroyed
  loc             \* place and locals of the threads and the tokens

vars == <<tables, implicitProducerHashCount, implicitProducerHashResizeInProgress, producers,
          alive, loc>>

Null == 0
invalid_thread_id == 0
invalid_thread_id2 == -1
Keys == Ids \cup {invalid_thread_id, invalid_thread_id2}

\* `table`, `index` and `ptr` are where a search is; `listener` is the producer whose
\* threadExitListener the thread has subscribed.  A token that exists is at "use".
Out == [at |-> "out", id |-> Null, main |-> 0, table |-> 0, index |-> 0, ptr |-> Null,
        newCount |-> 0, producer |-> Null, listener |-> Null]

TypeOK ==
  /\ \A h \in DOMAIN tables :
       /\ DOMAIN tables[h] = 0 .. Cardinality(DOMAIN tables[h]) - 1
       /\ \A i \in DOMAIN tables[h] :
            tables[h][i] \in [key : Keys, value : DOMAIN producers \cup {Null}]
  /\ implicitProducerHashCount \in 0 .. Len(producers) + Cardinality(Threads)
  /\ implicitProducerHashResizeInProgress \in BOOLEAN /\ alive \in BOOLEAN
  /\ producers \in Seq([isExplicit : BOOLEAN, inactive : BOOLEAN, token : Tokens \cup {NoToken}])
  /\ \A a \in Threads \cup Tokens :
       /\ loc[a].id \in Ids \cup {Null}
       /\ {loc[a].main, loc[a].table} \subseteq 0 .. Len(tables)
       /\ {loc[a].ptr, loc[a].producer, loc[a].listener} \subseteq 0 .. Len(producers)

EmptyTable(capacity) ==
  [i \in 0 .. capacity - 1 |-> [key |-> invalid_thread_id, value |-> Null]]

Init ==
  /\ tables = <<EmptyTable(INITIAL_IMPLICIT_PRODUCER_HASH_SIZE)>>
  /\ implicitProducerHashCount = 0
  /\ implicitProducerHashResizeInProgress = FALSE
  /\ producers = <<>>
  /\ alive = TRUE
  /\ loc = [a \in Threads \cup Tokens |-> Out]

------------------------------------------------------------------------------
Capacity(h) == Cardinality(DOMAIN tables[h])

\* What a probe of a thread reads, and where it goes on.
Here(t) == loc[t].index % Capacity(loc[t].table)
Probed(t) == tables[loc[t].table][Here(t)].key
ProbedValue(t) == tables[loc[t].table][Here(t)].value
From(l, h) == [l EXCEPT !.table = h, !.index = HashOf[l.id]]
Returned(l) == [Out EXCEPT !.at = "idle", !.id = l.id, !.listener = l.listener]

GoTo(t, place) == loc' = [loc EXCEPT ![t].at = place]
HashUnchanged == UNCHANGED <<tables, implicitProducerHashCount,
                             implicitProducerHashResizeInProgress>>

\* A thread starts; no running thread has its id.
Start(t, id) ==
  /\ loc[t].at = "out" /\ \A u \in Threads : loc[u].id # id
  /\ loc' = [loc EXCEPT ![t] = [Out EXCEPT !.at = "idle", !.id = id]]
  /\ HashUnchanged /\ UNCHANGED <<producers, alive>>

------------------------------------------------------------------------------
\* get_or_add_implicit_producer, at the start of every enqueue without a token.

Begin(t) ==
  /\ loc[t].at = "idle" /\ alive
  /\ loc' = [loc EXCEPT ![t] = From([@ EXCEPT !.at = "probe", !.main = Len(tables)],
                                    Len(tables))]
  /\ HashUnchanged /\ UNCHANGED <<producers, alive>>

Probe(t) ==
  /\ loc[t].at = "probe"
  /\ loc' = [loc EXCEPT ![t] =
       IF Probed(t) = @.id
       THEN LET found == [@ EXCEPT !.producer = ProbedValue(t)]
            IN  IF @.table = @.main THEN [found EXCEPT !.at = "use"]
                ELSE From([found EXCEPT !.at = "adopt"], @.main)
       ELSE IF Probed(t) = invalid_thread_id
       THEN IF @.table > 1 THEN From(@, @.table - 1) ELSE [@ EXCEPT !.at = "count"]
       ELSE [@ EXCEPT !.index = Here(t) + 1]]
  /\ HashUnchanged /\ UNCHANGED <<producers, alive>>

Takable == {invalid_thread_id} \cup IF ThreadLocalSupported THEN {invalid_thread_id2} ELSE {}

\* The producer is entered in the main table; a new one has its listener subscribed before.
Enter(t) ==
  /\ loc[t].at \in {"adopt", "insert"}
  /\ IF Probed(t) \in Takable
     THEN /\ tables' = [tables EXCEPT ![loc[t].table][Here(t)] =
                          [key |-> loc[t].id, value |-> loc[t].producer]]
          /\ loc' = [loc EXCEPT ![t].at = "use",
                       ![t].listener = IF loc[t].at = "insert" /\ ThreadLocalSupported
                                       THEN loc[t].producer ELSE @]
     ELSE loc' = [loc EXCEPT ![t].index = Here(t) + 1] /\ UNCHANGED tables
  /\ UNCHANGED <<implicitProducerHashCount, implicitProducerHashResizeInProgress, producers,
                 alive>>

Count(t) ==
  /\ loc[t].at = "count"
  /\ implicitProducerHashCount' = implicitProducerHashCount + 1
  /\ loc' = [loc EXCEPT ![t].newCount = implicitProducerHashCount', ![t].at = "lock"]
  /\ UNCHANGED <<tables, implicitProducerHashResizeInProgress, producers, alive>>

Half(capacity) == capacity \div 2
ThreeQuarters(capacity) == capacity \div 2 + capacity \div 4

\* Half full: whoever gets the flag allocates.
Lock(t) ==
  /\ loc[t].at = "lock"
  /\ IF loc[t].newCount >= Half(Capacity(loc[t].main))
     THEN /\ implicitProducerHashResizeInProgress' = TRUE
          /\ GoTo(t, IF implicitProducerHashResizeInProgress THEN "room" ELSE "grow")
     ELSE GoTo(t, "room") /\ UNCHANGED implicitProducerHashResizeInProgress
  /\ UNCHANGED <<tables, implicitProducerHashCount, producers, alive>>

\* The capacities that are not half full with that many, and whose half is.
Enlarged(capacity, count) ==
  {c \in 2 * capacity .. 2 * capacity + 4 * count :
     /\ Half(Half(c)) <= count /\ count < Half(c)
     /\ \E k \in 1 .. count + 1 : c = capacity * 2 ^ k}

Grow(t) ==
  /\ loc[t].at = "grow"
  /\ LET c == Capacity(Len(tables)) IN
     IF loc[t].newCount >= Half(c)
     THEN \E d \in Enlarged(c, loc[t].newCount) : tables' = Append(tables, EmptyTable(d))
     ELSE UNCHANGED tables
  /\ loc' = [loc EXCEPT ![t].main = Len(tables'), ![t].at = "unlock"]
  /\ UNCHANGED <<implicitProducerHashCount, implicitProducerHashResizeInProgress, producers,
                 alive>>

\* The allocation fails: the count first, then the flag.
CannotGrow(t) ==
  /\ loc[t].at = "grow" /\ MemoryMayRunOut
  /\ loc[t].newCount >= Half(Capacity(Len(tables)))
  /\ implicitProducerHashCount' = implicitProducerHashCount - 1
  /\ loc' = [loc EXCEPT ![t].newCount = 0, ![t].at = "unlock"]
  /\ UNCHANGED <<tables, implicitProducerHashResizeInProgress, producers, alive>>

Unlock(t) ==
  /\ loc[t].at = "unlock"
  /\ implicitProducerHashResizeInProgress' = FALSE
  /\ loc' = [loc EXCEPT ![t] = IF @.newCount = 0 THEN Returned(@) ELSE [@ EXCEPT !.at = "room"]]
  /\ UNCHANGED <<tables, implicitProducerHashCount, producers, alive>>

\* Less than three quarters full: on with it; else wait for whoever allocates.
Room(t) ==
  /\ loc[t].at = "room"
  /\ loc' = [loc EXCEPT ![t] =
       IF @.newCount < ThreeQuarters(Capacity(@.main))
       THEN [@ EXCEPT !.ptr = Len(producers), !.at = "traverse"]
       ELSE [@ EXCEPT !.main = Len(tables), !.at = "lock"]]
  /\ HashUnchanged /\ UNCHANGED <<producers, alive>>

------------------------------------------------------------------------------
\* recycle_or_create_producer, for a thread or for a token that is constructed.

Explicit(a) == a \in Tokens

\* It has one: back to the thread, which has been counted for nothing if the producer is
\* recycled, or to the constructor of the token.
Obtained(a, p, recycled) ==
  LET l == [loc[a] EXCEPT !.ptr = Null, !.producer = p] IN
  loc' = [loc EXCEPT ![a] = IF Explicit(a) THEN [l EXCEPT !.at = "use"]
                            ELSE IF recycled \/ p = Null THEN [l EXCEPT !.at = "uncount"]
                            ELSE From([l EXCEPT !.at = "insert"], l.main)]

\* The token of a producer that token a has obtained; a thread's has none.
TokenOf(a, old) == IF Explicit(a) THEN a ELSE old

\* Mutant: the flag is read, and not exchanged.
RecycleUnmarked(a) ==
  /\ loc[a].at = "traverse" /\ loc[a].ptr # Null
  /\ IF producers[loc[a].ptr].inactive /\ producers[loc[a].ptr].isExplicit = Explicit(a)
     THEN /\ producers' = [producers EXCEPT ![loc[a].ptr].token = TokenOf(a, @)]
          /\ Obtained(a, loc[a].ptr, TRUE)
     ELSE loc' = [loc EXCEPT ![a].ptr = @ - 1] /\ UNCHANGED producers
  /\ HashUnchanged /\ UNCHANGED alive

Recycle(a) ==
  /\ loc[a].at = "traverse" /\ loc[a].ptr # Null
  /\ IF producers[loc[a].ptr].inactive /\ producers[loc[a].ptr].isExplicit = Explicit(a)
     THEN /\ producers' = [producers EXCEPT ![loc[a].ptr].inactive = FALSE,
                                            ![loc[a].ptr].token = TokenOf(a, @)]
          /\ Obtained(a, loc[a].ptr, TRUE)
     ELSE loc' = [loc EXCEPT ![a].ptr = @ - 1] /\ UNCHANGED producers
  /\ HashUnchanged /\ UNCHANGED alive

\* add_producer: it becomes the tail of the list.
AddProducer(a) ==
  /\ loc[a].at = "traverse" /\ loc[a].ptr = Null
  /\ producers' = Append(producers, [isExplicit |-> Explicit(a), inactive |-> FALSE,
                                     token |-> TokenOf(a, NoToken)])
  /\ Obtained(a, Len(producers'), FALSE)
  /\ HashUnchanged /\ UNCHANGED alive

NoProducer(a) ==
  /\ loc[a].at = "traverse" /\ loc[a].ptr = Null /\ MemoryMayRunOut
  /\ Obtained(a, Null, FALSE)
  /\ HashUnchanged /\ UNCHANGED <<producers, alive>>

Uncount(t) ==
  /\ loc[t].at = "uncount"
  /\ implicitProducerHashCount' = implicitProducerHashCount - 1
  /\ loc' = [loc EXCEPT ![t] = IF @.producer = Null THEN Returned(@)
                               ELSE From([@ EXCEPT !.at = "insert"], @.main)]
  /\ UNCHANGED <<tables, implicitProducerHashResizeInProgress, producers, alive>>

\* The enqueue that asked for the producer is over.
Enqueued(t) ==
  /\ loc[t].at = "use"
  /\ loc' = [loc EXCEPT ![t] = Returned(@)]
  /\ HashUnchanged /\ UNCHANGED <<producers, alive>>

------------------------------------------------------------------------------
\* A thread ends; if it has a listener subscribed, implicit_producer_thread_exited is called
\* (what that does in a queue that is gone is undefined; NoListenerIsLeft is about it).

Exit(t) ==
  /\ loc[t].at = "idle"
  /\ loc' = [loc EXCEPT ![t] = IF @.listener = Null \/ ~alive THEN Out
                               ELSE From([@ EXCEPT !.at = "forget"], Len(tables))]
  /\ HashUnchanged /\ UNCHANGED <<producers, alive>>

NextTable(l) == IF l.table > 1 THEN From(l, l.table - 1) ELSE [l EXCEPT !.at = "retire"]

Forget(t) ==
  /\ loc[t].at = "forget"
  /\ IF Probed(t) = loc[t].id
     THEN tables' = [tables EXCEPT ![loc[t].table][Here(t)].key = invalid_thread_id2]
     ELSE UNCHANGED tables
  /\ loc' = [loc EXCEPT ![t] = IF Probed(t) \in {@.id, invalid_thread_id} THEN NextTable(@)
                               ELSE [@ EXCEPT !.index = Here(t) + 1]]
  /\ UNCHANGED <<implicitProducerHashCount, implicitProducerHashResizeInProgress, producers,
                 alive>>

\* Of a thread that ends, or of a token that is destroyed.
Retire(a) ==
  /\ loc[a].at = "retire"
  /\ LET p == IF Explicit(a) THEN loc[a].producer ELSE loc[a].listener IN
     producers' = [producers EXCEPT ![p].inactive = TRUE]
  /\ loc' = [loc EXCEPT ![a] = Out]
  /\ HashUnchanged /\ UNCHANGED alive

------------------------------------------------------------------------------
\* Tokens.

ConstructToken(k) ==
  /\ loc[k].at = "out" /\ alive
  /\ loc' = [loc EXCEPT ![k] = [Out EXCEPT !.at = "traverse", !.ptr = Len(producers)]]
  /\ HashUnchanged /\ UNCHANGED <<producers, alive>>

\* ~ProducerToken: the producer forgets the token, then it is inactive.
DestroyToken(k) ==
  /\ loc[k].at = "use"
  /\ IF loc[k].producer = Null
     THEN loc' = [loc EXCEPT ![k] = Out] /\ UNCHANGED producers
     ELSE /\ producers' = [producers EXCEPT ![loc[k].producer].token = NoToken]
          /\ GoTo(k, "retire")
  /\ HashUnchanged /\ UNCHANGED alive

\* The move constructor: token l takes the producer of k.
MoveToken(k, l) ==
  /\ loc[k].at = "use" /\ loc[l].at = "out"
  /\ loc' = [loc EXCEPT ![k].producer = Null,
                        ![l] = [Out EXCEPT !.at = "use", !.producer = loc[k].producer]]
  /\ producers' = [p \in DOMAIN producers |->
                     IF p = loc[k].producer THEN [producers[p] EXCEPT !.token = l]
                     ELSE producers[p]]
  /\ HashUnchanged /\ UNCHANGED alive

\* swap and the move assignment.
SwapTokens(k, l) ==
  /\ loc[k].at = "use" /\ loc[l].at = "use" /\ k # l
  /\ loc' = [loc EXCEPT ![k].producer = loc[l].producer, ![l].producer = loc[k].producer]
  /\ producers' = [p \in DOMAIN producers |->
                     CASE p = loc[l].producer -> [producers[p] EXCEPT !.token = k]
                       [] p = loc[k].producer -> [producers[p] EXCEPT !.token = l]
                       [] OTHER -> producers[p]]
  /\ HashUnchanged /\ UNCHANGED alive

\* ~ConcurrentQueue, by thread t while no call is under way.  Tokens become invalid;
\* unsubscribe looks for each listener among those of the calling thread.
DestroyQueue(t) ==
  /\ alive /\ alive' = FALSE
  /\ loc[t].at = "idle"
  /\ \A u \in Threads : loc[u].at \in {"idle", "out"}
  /\ \A k \in Tokens : loc[k].at \in {"use", "out"}
  /\ loc' = [a \in Threads \cup Tokens |->
       IF \E p \in DOMAIN producers : producers[p].token = a
       THEN [loc[a] EXCEPT !.producer = Null]
       ELSE IF a = t THEN [loc[a] EXCEPT !.listener = Null] ELSE loc[a]]
  /\ HashUnchanged /\ UNCHANGED producers

------------------------------------------------------------------------------
Call(t) ==
  \/ Probe(t) \/ Enter(t) \/ Count(t) \/ Lock(t) \/ Grow(t) \/ CannotGrow(t) \/ Unlock(t)
  \/ Room(t) \/ Recycle(t) \/ AddProducer(t) \/ NoProducer(t) \/ Uncount(t) \/ Enqueued(t)

ThreadStep(t) ==
  \/ (\E id \in Ids : Start(t, id)) \/ Begin(t) \/ Call(t)
  \/ Exit(t) \/ Forget(t) \/ Retire(t) \/ DestroyQueue(t)

TokenStep(k) ==
  \/ ConstructToken(k) \/ Recycle(k) \/ AddProducer(k) \/ NoProducer(k)
  \/ DestroyToken(k) \/ Retire(k)
  \/ \E l \in Tokens : MoveToken(k, l) \/ SwapTokens(k, l)

Next == (\E t \in Threads : ThreadStep(t)) \/ (\E k \in Tokens : TokenStep(k))

Spec == Init /\ [][Next]_vars

\* A thread that is in a call goes on with it.
FairSpec == Spec /\ \A t \in Threads : WF_vars(Call(t))

------------------------------------------------------------------------------
\* Properties.

\* Whose a producer is: a thread's from when it has obtained it until it is inactive, as
\* long as the queue exists; a token's as long as the token holds it.
Has(a) ==
  IF Explicit(a) THEN loc[a].producer
  ELSE IF loc[a].producer # Null THEN loc[a].producer ELSE loc[a].listener

\* "We caught one! It's been marked as activated, the caller can have it"
\* (concurrentqueue.h:3219-3222): a sub-queue has one producer, however threads and tokens
\* come and go.
OneOwner ==
  alive => \A a, b \in Threads \cup Tokens : a # b /\ Has(a) # Null => Has(a) # Has(b)

\* "If it's not found, it must not be in there yet, since this same thread would have added
\* it previously to one of the tables that we traversed" (concurrentqueue.h:3380-3382): no
\* table has another producer for a thread, and none that a thread has left behind.
EntriesAgree ==
  \A t \in Threads :
    loc[t].at = "use" =>
      \A h \in DOMAIN tables : \A i \in DOMAIN tables[h] :
        /\ tables[h][i].key = loc[t].id => tables[h][i].value = loc[t].producer
        /\ tables[h][i].key \in Ids /\ tables[h][i].value = loc[t].producer
             => tables[h][i].key = loc[t].id

\* "Note there's guaranteed to be room in the current hash table"
\* (concurrentqueue.h:3405-3407): whoever has to enter a producer finds a slot.
RoomToEnter ==
  \A t \in Threads :
    loc[t].at \in {"adopt", "insert"} =>
      \E i \in DOMAIN tables[loc[t].main] : tables[loc[t].main][i].key \in Takable

\* "Not an infinite loop because at least one slot is free in the hash table"
\* (concurrentqueue.h:3398).
SomeSlotIsFree ==
  \A h \in DOMAIN tables : \E i \in DOMAIN tables[h] : tables[h][i].key = invalid_thread_id

\* "Number of slots logically used" (concurrentqueue.h:3659): one for each implicit producer,
\* and one for each call that has counted and not yet created its own.
CountsProducers ==
  implicitProducerHashCount =
    Cardinality({p \in DOMAIN producers : ~producers[p].isExplicit})
      + Cardinality({t \in Threads :
           \/ loc[t].at \in {"lock", "grow", "room", "traverse", "uncount"}
           \/ loc[t].at = "unlock" /\ loc[t].newCount # 0})

\* "A token is always valid unless ... The associated queue was destroyed"
\* (concurrentqueue.h:664-668): token and producer know each other, and no token is left
\* with a producer of a queue that is gone.
TokensAreValid ==
  \A k \in Tokens :
    loc[k].at = "use" /\ loc[k].producer # Null =>
      alive /\ producers[loc[k].producer].token = k

\* The invariant of the producers and their hash.
ProducersInv ==
  /\ TypeOK /\ OneOwner /\ EntriesAgree /\ RoomToEnter /\ CountsProducers /\ TokensAreValid
  /\ ThreadLocalSupported \/ SomeSlotIsFree

\* "Unregister ourselves for thread termination notification" (concurrentqueue.h:2424): no
\* thread has a listener subscribed in a queue that is gone.
NoListenerIsLeft == \A t \in Threads : loc[t].listener # Null => alive

\* A call ends, whether or not it has to wait for a thread that allocates
\* (concurrentqueue.h:3519-3521).
CallsReturn ==
  \A t \in Threads : loc[t].at \in {"probe", "lock"} ~> loc[t].at \in {"use", "idle"}
==============================================================================
