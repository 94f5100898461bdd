------------------------------- MODULE ConsumerTokens -------------------------------
(***************************************************************************)
(* How the consumers of concurrentqueue.h choose among its sub-queues: by    *)
(* size or in turn without a token; with one, from the producer where the    *)
(* token is, and all tokens move on by one when any of them has had its       *)
(* quota.  A sub-queue is the number of its items: what it promises of them   *)
(* is in SubQueueFIFO.                                                       *)
(***************************************************************************)
EXTENDS Integers, FiniteSets, SequencesExt

CONSTANTS
  Consumers,
  HasToken,       \* the consumers that use a token
  Operations,     \* what they call: {FALSE} try_dequeue, {TRUE} try_dequeue_bulk, or both
  InitialProducers, MaxProducers,   \* how many producers there are before any call, and in all
  EXPLICIT_CONSUMER_CONSUMPTION_QUOTA_BEFORE_ROTATE,
  MaxBulk,        \* the largest max a bulk operation is called with
  OffsetValues,   \* how many values the global offset has; a wrap around shifts the places of
                  \* tokens unless it is a multiple of the number of producers
  MaxItems        \* bound: how many items a sub-queue holds at most

QUOTA == EXPLICIT_CONSUMER_CONSUMPTION_QUOTA_BEFORE_ROTATE

ASSUME ConsumerTokensAssumption ==
  /\ HasToken \subseteq Consumers /\ Operations \subseteq BOOLEAN
  /\ MaxProducers \in Nat /\ InitialProducers \in 0 .. MaxProducers
  /\ {QUOTA, MaxBulk, OffsetValues, MaxItems} \subseteq Nat \ {0}

VARIABLES
  producerListTail,   \* producers are numbered as they are added; next_prod of p is p - 1
  producerCount,
  items,              \* per producer
  nextExplicitConsumerId,
  globalExplicitConsumerOffset,
  token,              \* per consumer
  con                 \* per consumer: place and locals of its call

vars == <<producerListTail, producerCount, items, nextExplicitConsumerId,
          globalExplicitConsumerOffset, token, con>>
queue == <<producerListTail, producerCount, items, nextExplicitConsumerId>>

Null == 0
Producers == 1 .. MaxProducers

NoToken == [initialOffset |-> Null, lastKnownGlobalOffset |-> OffsetValues - 1,
            itemsConsumedFromCurrent |-> 0, currentProducer |-> Null,
            desiredProducer |-> Null, constructed |-> FALSE]

\* `max` is how many items are still wanted; `bulk`, `tail`, `ptr` to `nonEmpty` and `prods`
\* are locals.  History: `listed` is the tail of the list when the call began, `asked` the
\* producers that have appeared empty since.
Idle == [at |-> "idle", max |-> 0, bulk |-> FALSE, tail |-> Null, ptr |-> Null, best |-> Null,
         bestSize |-> 0, nonEmpty |-> 0, prods |-> 0, listed |-> Null, asked |-> {}]

TypeOK ==
  /\ producerListTail \in 0 .. MaxProducers /\ producerCount \in 0 .. MaxProducers
  /\ items \in [Producers -> 0 .. MaxItems]
  /\ nextExplicitConsumerId \in Nat
  /\ globalExplicitConsumerOffset \in 0 .. OffsetValues - 1
  /\ \A c \in Consumers :
       /\ token[c].lastKnownGlobalOffset \in 0 .. OffsetValues - 1
       /\ token[c].itemsConsumedFromCurrent \in 0 .. QUOTA + MaxBulk
       /\ {token[c].currentProducer, token[c].desiredProducer} \subseteq 0 .. producerListTail
       /\ con[c].at \in {"idle", "score", "best", "others", "tail", "count", "offset",
                         "current", "turn", "around", "pass", "fails"}
       /\ con[c].max \in 0 .. MaxBulk /\ con[c].asked \subseteq Producers

Init ==
  /\ producerListTail = InitialProducers /\ producerCount = InitialProducers
  /\ items = [p \in Producers |-> 0]
  /\ nextExplicitConsumerId = 0 /\ globalExplicitConsumerOffset = 0
  /\ token = [c \in Consumers |-> NoToken]
  /\ con = [c \in Consumers |-> Idle]

------------------------------------------------------------------------------
\* Producers.

\* Mutant: the list first.
AddToList ==
  /\ producerListTail = producerCount /\ producerListTail < MaxProducers
  /\ producerListTail' = producerListTail + 1
  /\ UNCHANGED <<producerCount, items, nextExplicitConsumerId, globalExplicitConsumerOffset,
                 token, con>>

\* add_producer: the count first, the list second.
CountProducer ==
  /\ producerListTail = producerCount /\ producerCount < MaxProducers
  /\ producerCount' = producerCount + 1
  /\ UNCHANGED <<producerListTail, items, nextExplicitConsumerId,
                 globalExplicitConsumerOffset, token, con>>

ListProducer ==
  /\ producerListTail < producerCount
  /\ producerListTail' = producerCount
  /\ UNCHANGED <<producerCount, items, nextExplicitConsumerId, globalExplicitConsumerOffset,
                 token, con>>

\* enqueue, enqueue_bulk and their try_ variants, by whoever owns producer p.
Enqueue(p) ==
  /\ p <= producerListTail /\ items[p] < MaxItems
  /\ items' = [items EXCEPT ![p] = @ + 1]
  /\ UNCHANGED <<producerListTail, producerCount, nextExplicitConsumerId,
                 globalExplicitConsumerOffset, token, con>>

------------------------------------------------------------------------------
\* What the dequeue of a sub-queue may yield: as many items as there are and are wanted, or
\* fewer if another consumer is in a call and gets in the way.

Least(m, n) == IF m < n THEN m ELSE n
Yields(c, p) ==
  LET most == Least(items[p], con[c].max) IN
  IF \A d \in Consumers \ {c} : con[d].at = "idle" THEN {most} ELSE 0 .. most

\* The call with n more items from p: who yields less than is wanted appeared empty.
With(c, p, n) ==
  [con[c] EXCEPT !.max = @ - n, !.asked = IF n < con[c].max THEN @ \cup {p} ELSE @]

TakeFrom(p, n) == items' = [items EXCEPT ![p] = @ - n]

\* The call returns; if it got less than was wanted, "fails" is where it does.
Return(l) == IF l.max = 0 THEN Idle ELSE [l EXCEPT !.at = "fails"]

BeginCall(place, max, bulk) ==
  [Idle EXCEPT !.at = place, !.max = max, !.bulk = bulk, !.listed = producerListTail]

Fails(c) ==
  /\ con[c].at = "fails"
  /\ con' = [con EXCEPT ![c] = Idle]
  /\ UNCHANGED <<queue, globalExplicitConsumerOffset, token>>

------------------------------------------------------------------------------
\* try_dequeue: the largest of the first three that are not empty, then all others.

TryDequeue(c) ==
  /\ con[c].at = "idle" /\ c \notin HasToken
  /\ con' = [con EXCEPT ![c] =
       LET l == [BeginCall("score", 1, FALSE) EXCEPT !.ptr = producerListTail]
       IN  IF l.ptr = Null THEN Return(l) ELSE l]
  /\ UNCHANGED <<queue, globalExplicitConsumerOffset, token>>

\* The call after a look at the size of a sub-queue.
Scored(l) ==
  LET size == items[l.ptr] IN
  IF size = 0 THEN [l EXCEPT !.asked = @ \cup {l.ptr}]
  ELSE [l EXCEPT !.nonEmpty = @ + 1,
                 !.best = IF size > l.bestSize THEN l.ptr ELSE @,
                 !.bestSize = IF size > @ THEN size ELSE @]

Score(c) ==
  /\ con[c].at = "score"
  /\ con' = [con EXCEPT ![c] =
       LET l == Scored(@) IN
       IF l.nonEmpty < 3 /\ l.ptr > 1 THEN [l EXCEPT !.ptr = @ - 1]
       ELSE IF l.nonEmpty > 0 THEN [l EXCEPT !.at = "best"] ELSE Return(l)]
  /\ UNCHANGED <<queue, globalExplicitConsumerOffset, token>>

Best(c) ==
  /\ con[c].at = "best"
  /\ \E n \in Yields(c, con[c].best) :
       /\ TakeFrom(con[c].best, n)
       /\ con' = [con EXCEPT ![c] =
            IF n = 1 THEN Idle
            ELSE [With(c, con[c].best, n) EXCEPT !.at = "others", !.ptr = producerListTail]]
  /\ UNCHANGED <<producerListTail, producerCount, nextExplicitConsumerId,
                 globalExplicitConsumerOffset, token>>

\* The next one in the list, or return.
Onward(l) == IF l.max > 0 /\ l.ptr > 1 THEN [l EXCEPT !.ptr = @ - 1] ELSE Return(l)

Others(c) ==
  /\ con[c].at = "others"
  /\ IF con[c].ptr = con[c].best
     THEN con' = [con EXCEPT ![c] = Onward(@)] /\ UNCHANGED items
     ELSE \E n \in Yields(c, con[c].ptr) :
            /\ TakeFrom(con[c].ptr, n)
            /\ con' = [con EXCEPT ![c] = Onward(With(c, con[c].ptr, n))]
  /\ UNCHANGED <<producerListTail, producerCount, nextExplicitConsumerId,
                 globalExplicitConsumerOffset, token>>

\* try_dequeue_non_interleaved, which wants one, and try_dequeue_bulk without a token.
TryInOrder(c, max) ==
  /\ con[c].at = "idle" /\ c \notin HasToken
  /\ con' = [con EXCEPT ![c] =
       LET l == [BeginCall("pass", max, TRUE) EXCEPT !.ptr = producerListTail]
       IN  IF l.ptr = Null THEN Return(l) ELSE l]
  /\ UNCHANGED <<queue, globalExplicitConsumerOffset, token>>

Pass(c) ==
  /\ con[c].at = "pass"
  /\ \E n \in Yields(c, con[c].ptr) :
       /\ TakeFrom(con[c].ptr, n)
       /\ con' = [con EXCEPT ![c] = Onward(With(c, con[c].ptr, n))]
  /\ UNCHANGED <<producerListTail, producerCount, nextExplicitConsumerId,
                 globalExplicitConsumerOffset, token>>

\* try_dequeue_from_producer and try_dequeue_bulk_from_producer.
TryFromProducer(c, p, max) ==
  /\ con[c].at = "idle" /\ c \notin HasToken /\ p <= producerListTail
  /\ TakeFrom(p, Least(items[p], max))
  /\ UNCHANGED <<producerListTail, producerCount, nextExplicitConsumerId,
                 globalExplicitConsumerOffset, token, con>>

------------------------------------------------------------------------------
\* try_dequeue and try_dequeue_bulk with a token.

ConstructConsumerToken(c) ==
  /\ c \in HasToken /\ ~token[c].constructed
  /\ token' = [token EXCEPT ![c].initialOffset = nextExplicitConsumerId,
                            ![c].constructed = TRUE]
  /\ nextExplicitConsumerId' = nextExplicitConsumerId + 1
  /\ UNCHANGED <<producerListTail, producerCount, items, globalExplicitConsumerOffset, con>>

TryWithToken(c, max, bulk) ==
  /\ con[c].at = "idle" /\ token[c].constructed /\ (max = 1 \/ bulk)
  /\ LET rotate == \/ token[c].desiredProducer = Null
                   \/ token[c].lastKnownGlobalOffset # globalExplicitConsumerOffset
     IN  con' = [con EXCEPT ![c] =
                   BeginCall(IF rotate THEN "tail" ELSE "current", max, bulk)]
  /\ UNCHANGED <<queue, globalExplicitConsumerOffset, token>>

\* update_current_producer_after_rotation: three loads, then the place of the token.
LoadTail(c) ==
  /\ con[c].at = "tail"
  /\ con' = [con EXCEPT ![c] =
       IF token[c].desiredProducer = Null /\ producerListTail = Null THEN Return(@)
       ELSE [@ EXCEPT !.tail = producerListTail, !.at = "count"]]
  /\ UNCHANGED <<queue, globalExplicitConsumerOffset, token>>

LoadCount(c) ==
  /\ con[c].at = "count"
  /\ con' = [con EXCEPT ![c].prods = producerCount, ![c].at = "offset"]
  /\ UNCHANGED <<queue, globalExplicitConsumerOffset, token>>

\* The next producer in the list, and from its end back to its tail; that n times over.
NextProd(p, tail) == IF p > 1 THEN p - 1 ELSE tail
Walk(p, tail, n) == ((p - 1 - n) % tail) + 1

\* Mutant: the walk starts at the producer that was counted last, listed or not.
PlaceByCount(t, l) ==
  LET delta == (globalExplicitConsumerOffset - t.lastKnownGlobalOffset) % OffsetValues
      start == IF t.desiredProducer = Null
               THEN Walk(l.prods, l.prods, l.prods - 1 - (t.initialOffset % l.prods))
               ELSE t.desiredProducer
  IN  Walk(start, l.prods, delta % l.prods)

Place(t, l) ==
  LET delta == (globalExplicitConsumerOffset - t.lastKnownGlobalOffset) % OffsetValues
      start == IF t.desiredProducer = Null
               THEN Walk(l.tail, l.tail, l.prods - 1 - (t.initialOffset % l.prods))
               ELSE t.desiredProducer
  IN  Walk(start, l.tail, delta % l.prods)

Rotate(c) ==
  /\ con[c].at = "offset" /\ con[c].prods > 0
  /\ LET p == Place(token[c], con[c]) IN
     token' = [token EXCEPT ![c].desiredProducer = p, ![c].currentProducer = p,
                            ![c].lastKnownGlobalOffset = globalExplicitConsumerOffset,
                            ![c].itemsConsumedFromCurrent = 0]
  /\ con' = [con EXCEPT ![c].at = "current", ![c].prods = 0, ![c].tail = Null]
  /\ UNCHANGED <<queue, globalExplicitConsumerOffset>>

\* try_dequeue notices that the quota is reached, try_dequeue_bulk also that it is passed;
\* how far it is passed makes no difference.
HadQuota(n, bulk) == IF bulk THEN n >= QUOTA ELSE n = QUOTA

Current(c) ==
  /\ con[c].at = "current"
  /\ \E n \in Yields(c, token[c].currentProducer) :
       LET l == With(c, token[c].currentProducer, n)
           consumed == Least(token[c].itemsConsumedFromCurrent + n, QUOTA + MaxBulk)
       IN
       /\ TakeFrom(token[c].currentProducer, n)
       /\ token' = [token EXCEPT ![c].itemsConsumedFromCurrent = consumed]
       /\ globalExplicitConsumerOffset' =
            IF l.max = 0 /\ HadQuota(consumed, con[c].bulk)
            THEN (globalExplicitConsumerOffset + 1) % OffsetValues
            ELSE globalExplicitConsumerOffset
       /\ con' = [con EXCEPT ![c] = IF l.max = 0 THEN Idle ELSE [l EXCEPT !.at = "turn"]]
  /\ UNCHANGED <<producerListTail, producerCount, nextExplicitConsumerId>>

\* Mutant: the list is not started again from its tail.
TurnToEnd(c) ==
  /\ con[c].at = "turn"
  /\ con' = [con EXCEPT ![c] =
       [@ EXCEPT !.tail = 1, !.ptr = NextProd(token[c].currentProducer, 1), !.at = "around"]]
  /\ UNCHANGED <<queue, globalExplicitConsumerOffset, token>>

Turn(c) ==
  /\ con[c].at = "turn"
  /\ con' = [con EXCEPT ![c] =
       [@ EXCEPT !.tail = producerListTail, !.at = "around",
                 !.ptr = NextProd(token[c].currentProducer, producerListTail)]]
  /\ UNCHANGED <<queue, globalExplicitConsumerOffset, token>>

\* Once around, from wherever the token is now.
Around(c) ==
  /\ con[c].at = "around"
  /\ IF con[c].ptr = token[c].currentProducer
     THEN con' = [con EXCEPT ![c] = Return(@)] /\ UNCHANGED <<items, token>>
     ELSE \E n \in Yields(c, con[c].ptr) :
       LET l == With(c, con[c].ptr, n) IN
       /\ TakeFrom(con[c].ptr, n)
       /\ token' = IF n = 0 THEN token
                   ELSE [token EXCEPT ![c].currentProducer = con[c].ptr,
                                      ![c].itemsConsumedFromCurrent = n]
       /\ con' = [con EXCEPT ![c] =
            IF l.max = 0 THEN Idle ELSE [l EXCEPT !.ptr = NextProd(@, con[c].tail)]]
  /\ UNCHANGED <<producerListTail, producerCount, nextExplicitConsumerId,
                 globalExplicitConsumerOffset>>

------------------------------------------------------------------------------
Call(c) ==
  \/ Score(c) \/ Best(c) \/ Others(c) \/ Pass(c) \/ Fails(c)
  \/ LoadTail(c) \/ LoadCount(c) \/ Rotate(c) \/ Current(c) \/ Turn(c) \/ Around(c)

BeginStep(c) ==
  \/ TryDequeue(c)
  \/ \E max \in 1 .. MaxBulk :
       \/ TryInOrder(c, max)
       \/ \E bulk \in Operations : TryWithToken(c, max, bulk)
       \/ \E p \in Producers : TryFromProducer(c, p, max)

Next ==
  \/ CountProducer \/ ListProducer \/ (\E p \in Producers : Enqueue(p))
  \/ \E c \in Consumers : ConstructConsumerToken(c) \/ BeginStep(c) \/ Call(c)

Spec == Init /\ [][Next]_vars

\* Calls go on; a consumer with a token keeps asking for items.
FairSpec ==
  /\ Spec
  /\ \A c \in Consumers : WF_vars(Call(c))
  /\ \A c \in HasToken :
       /\ WF_vars(ConstructConsumerToken(c))
       /\ WF_vars(\E bulk \in Operations : TryWithToken(c, 1, bulk))

------------------------------------------------------------------------------
\* Properties.

\* "Returns false if all producer streams appeared empty at the time they were checked"
\* (concurrentqueue.h:1100-1101): a call that gets less than it wants has asked every
\* producer that was there when it began, wherever it started and whatever rotated.
EverybodyIsAsked ==
  \A c \in Consumers : con[c].at = "fails" => 1 .. con[c].listed \subseteq con[c].asked

\* The tokens divide by the number of producers (concurrentqueue.h:1384, 1396): once there
\* is a producer in the list, the count has it too.
CountIsNotZero == \A c \in Consumers : con[c].at = "offset" => con[c].prods > 0

\* "Figure out our local position" (concurrentqueue.h:1382-1391): tokens that have noticed
\* the same rotations are spread evenly over the producers, if those were there all along
\* and the offset has not wrapped around to another place.
TokensAreSpread ==
  InitialProducers = MaxProducers /\ OffsetValues % MaxProducers = 0 =>
    LET At(p) == {c \in HasToken : token[c].desiredProducer = p} IN
    /\ nextExplicitConsumerId = Cardinality(HasToken)
    /\ \A c, d \in HasToken :
         /\ token[c].lastKnownGlobalOffset = token[d].lastKnownGlobalOffset
         /\ token[c].desiredProducer # Null
    => \A p, q \in Producers : Cardinality(At(p)) <= Cardinality(At(q)) + 1

\* "The number of items that an explicit consumer (i.e. one with a token) must consume before
\* it causes all consumers to rotate and move on" (concurrentqueue.h:365-367): a consumer with
\* a token serves every producer, however fast the others are fed.
EverybodyIsServed ==
  \A p \in Producers : []<>(items[p] = 0) \/ []<><<items'[p] < items[p]>>_vars

\* The loop over the producers comes to an end, although it starts again whenever it finds
\* something (concurrentqueue.h:1251-1266).
CallsEnd == \A c \in Consumers : con[c].at # "idle" ~> con[c].at = "idle"
==============================================================================
