--------------------------------- MODULE ThreadExit ---------------------------------
(***************************************************************************)
(* What concurrentqueue.h does when a thread exits, if thread exit tracking  *)
(* is on: the thread-local list of the listeners of the producers that it     *)
(* uses, which may belong to several queues, and the list's destructor, which *)
(* hands the producers back one by one.  The tables from thread ids to        *)
(* producers are in Producers; here one is a function of the thread.          *)
(***************************************************************************)
EXTENDS Integers, FiniteSets

CONSTANTS
  Threads,
  Queues,
  ProducersOf,    \* per queue: the producers it may create
  Null

ThreadExitAssumption ==
  /\ \A q, r \in Queues : q # r => ProducersOf[q] \cap ProducersOf[r] = {}
  /\ \A q \in Queues : Null \notin ProducersOf[q]

Producers == UNION {ProducersOf[q] : q \in Queues}

VARIABLES
  hash,           \* per queue and thread: its producer
  inactive,       \* per producer that has been created
  next,           \* per producer: the next of its listener
  tail,           \* per thread: the tail of its notifier
  alive,          \* the queues that are not destroyed
  loc             \* per thread: place, and the producer it is at

vars == <<hash, inactive, next, tail, alive, loc>>
lists == <<next, tail>>

Places == {"out", "in", "subscribe", "callback", "recyclable", "next"}

TypeOK ==
  /\ DOMAIN hash = Queues
  /\ \A q \in Queues :
       hash[q] \in [Threads -> (ProducersOf[q] \cap DOMAIN inactive) \cup {Null}]
  /\ DOMAIN inactive \subseteq UNION {ProducersOf[q] : q \in alive}
  /\ \A p \in DOMAIN inactive : inactive[p] \in BOOLEAN
  /\ next \in [Producers -> Producers \cup {Null}]
  /\ tail \in [Threads -> Producers \cup {Null}]
  /\ alive \subseteq Queues
  /\ loc \in [Threads -> [at : Places, p : Producers \cup {Null}]]

At(place, p) == [at |-> place, p |-> p]

Init ==
  /\ hash = [q \in Queues |-> [t \in Threads |-> Null]]
  /\ inactive = [p \in {} |-> FALSE]
  /\ next = [p \in Producers |-> Null] /\ tail = [t \in Threads |-> Null]
  /\ alive = Queues
  /\ loc = [t \in Threads |-> At("out", Null)]

------------------------------------------------------------------------------
ParentOf(p) == CHOOSE q \in Queues : p \in ProducersOf[q]

\* The listeners from the tail on.
ListOf(t) ==
  {p \in Producers :
     \A S \in SUBSET Producers :
       tail[t] \in S \cup {Null} /\ (\A r \in S : next[r] \in S \cup {Null}) => p \in S}

\* ThreadExitNotifier::unsubscribe, called by t: p's listener leaves t's list, if it is in it,
\* and keeps its own next.
Unsubscribe(t, p) ==
  IF p \notin ListOf(t) THEN UNCHANGED lists
  ELSE /\ tail' = [tail EXCEPT ![t] = IF @ = p THEN next[p] ELSE @]
       /\ next' = [r \in Producers |-> IF r \in ListOf(t) /\ next[r] = p THEN next[p]
                                       ELSE next[r]]

------------------------------------------------------------------------------
Start(t) ==
  /\ loc[t].at = "out"
  /\ loc' = [loc EXCEPT ![t] = At("in", Null)]
  /\ UNCHANGED <<hash, inactive, lists, alive>>

\* The first enqueue of t in p's queue: p is inactive and is used again, or p is created (the
\* search of the list may have passed a producer that has become inactive since).
RecycleOrCreate(t, p) ==
  /\ loc[t].at = "in" /\ ParentOf(p) \in alive /\ hash[ParentOf(p)][t] = Null
  /\ p \in DOMAIN inactive => inactive[p]
  /\ inactive' = [r \in DOMAIN inactive \cup {p} |-> IF r = p THEN FALSE ELSE inactive[r]]
  /\ loc' = [loc EXCEPT ![t] = At("subscribe", p)]
  /\ UNCHANGED <<hash, lists, alive>>

\* ThreadExitNotifier::subscribe, and the entry in the table.
Subscribe(t) ==
  /\ loc[t].at = "subscribe"
  /\ LET p == loc[t].p IN
     /\ next' = [next EXCEPT ![p] = tail[t]]
     /\ tail' = [tail EXCEPT ![t] = p]
     /\ hash' = [hash EXCEPT ![ParentOf(p)][t] = p]
  /\ loc' = [loc EXCEPT ![t] = At("in", Null)]
  /\ UNCHANGED <<inactive, alive>>

------------------------------------------------------------------------------
\* The loop of ~ThreadExitNotifier.
Visit(p) == IF p = Null THEN At("out", Null) ELSE At("callback", p)

Exit(t) ==
  /\ loc[t].at = "in"
  /\ loc' = [loc EXCEPT ![t] = Visit(tail[t])]
  /\ UNCHANGED <<hash, inactive, lists, alive>>

\* Mutant: the producer can be used again before it is out of the table and the list.
CallbackLate(t) ==
  /\ loc[t].at = "callback"
  /\ inactive' = [inactive EXCEPT ![loc[t].p] = TRUE]
  /\ loc' = [loc EXCEPT ![t].at = "recyclable"]
  /\ UNCHANGED <<hash, lists, alive>>

\* implicit_producer_thread_exited: out of the list, and whatever t has in the table of that
\* queue is taken out.
Callback(t) ==
  /\ loc[t].at = "callback"
  /\ Unsubscribe(t, loc[t].p)
  /\ hash' = [hash EXCEPT ![ParentOf(loc[t].p)][t] = Null]
  /\ loc' = [loc EXCEPT ![t].at = "recyclable"]
  /\ UNCHANGED <<inactive, alive>>

MarkRecyclable(t) ==
  /\ loc[t].at = "recyclable"
  /\ inactive' = [inactive EXCEPT ![loc[t].p] = TRUE]
  /\ loc' = [loc EXCEPT ![t].at = "next"]
  /\ UNCHANGED <<hash, lists, alive>>

\* ptr->next is read when another thread may have the producer already.
NextListener(t) ==
  /\ loc[t].at = "next"
  /\ loc' = [loc EXCEPT ![t] = Visit(next[@.p])]
  /\ UNCHANGED <<hash, inactive, lists, alive>>

\* Thread t destroys q, in which no other thread has a producer (else listeners are left
\* behind, NoListenerIsLeft in Producers): its own one unsubscribes.
DestroyQueue(t, q) ==
  /\ loc[t].at = "in" /\ q \in alive
  /\ \A u \in Threads \ {t} : hash[q][u] = Null /\ loc[u].p \notin ProducersOf[q]
  /\ IF hash[q][t] = Null THEN UNCHANGED lists ELSE Unsubscribe(t, hash[q][t])
  /\ alive' = alive \ {q}
  /\ hash' = [hash EXCEPT ![q] = [u \in Threads |-> Null]]
  /\ inactive' = [p \in DOMAIN inactive \ ProducersOf[q] |-> inactive[p]]
  /\ UNCHANGED loc

Next ==
  \E t \in Threads :
    \/ Start(t) \/ Subscribe(t) \/ Exit(t) \/ Callback(t) \/ MarkRecyclable(t)
    \/ NextListener(t)
    \/ \E p \in Producers : RecycleOrCreate(t, p)
    \/ \E q \in Queues : DestroyQueue(t, q)

Spec == Init /\ [][Next]_vars

------------------------------------------------------------------------------
\* Properties.

Uses(t, p) == p = hash[ParentOf(p)][t] \/ loc[t] = At("subscribe", p)

\* "We caught one! It's been marked as activated, the caller can have it"
\* (concurrentqueue.h:3221): a producer that another thread could catch is nobody's any more,
\* and no two threads have the same one.
OneOwner ==
  \A p \in DOMAIN inactive :
    /\ inactive[p] => \A t \in Threads : ~Uses(t, p)
    /\ Cardinality({t \in Threads : Uses(t, p)}) <= 1

\* "This thread is about to exit, let everyone know!" (concurrentqueue.h:598): once a thread
\* is gone, no queue has a producer for it.
EveryoneKnows ==
  \A t \in Threads : loc[t].at = "out" => \A q \in Queues : hash[q][t] = Null

\* No producer is lost: it is used, or on its way back from a thread that exits, or can be
\* caught.
NoneIsForgotten ==
  \A p \in DOMAIN inactive :
    inactive[p] \/ \E t \in Threads : Uses(t, p) \/ loc[t] = At("recyclable", p)

\* The list of a running thread holds the listeners of the producers it uses, and no others,
\* whatever was recycled and destroyed in between.
ListsAreRight ==
  \A t \in Threads : loc[t].at = "in" =>
    ListOf(t) = {hash[q][t] : q \in Queues} \ {Null}

\* The invariant of the listeners.
ExitInv == TypeOK /\ OneOwner /\ EveryoneKnows /\ NoneIsForgotten /\ ListsAreRight
==============================================================================
