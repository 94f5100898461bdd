----------------------------- MODULE ConsumerTokensProofs -----------------------------
(***************************************************************************)
(* Theorems about ConsumerTokens: whatever number of consumers, producers    *)
(* and rotations, a call that fails has asked everybody, and no token        *)
(* divides by zero.                                                          *)
(***************************************************************************)
EXTENDS ConsumerTokens, TLAPS

CallPlaces == {"idle", "score", "best", "others", "tail", "count", "offset",
               "current", "turn", "around", "pass", "fails"}

CallType ==
  [at : CallPlaces, max : 0 .. MaxBulk, bulk : BOOLEAN, tail : Nat, ptr : Nat, best : Nat,
   bestSize : Nat, nonEmpty : Nat, prods : Nat, listed : Nat, asked : SUBSET Producers]

TokenType ==
  [initialOffset : Nat, lastKnownGlobalOffset : 0 .. OffsetValues - 1,
   itemsConsumedFromCurrent : 0 .. QUOTA + MaxBulk, currentProducer : Nat,
   desiredProducer : Nat, constructed : BOOLEAN]

\* A producer is counted before it is listed.
QueueInv ==
  /\ producerListTail \in Nat /\ producerCount \in 0 .. MaxProducers
  /\ producerListTail <= producerCount
  /\ items \in [Producers -> 0 .. MaxItems]
  /\ nextExplicitConsumerId \in Nat
  /\ globalExplicitConsumerOffset \in 0 .. OffsetValues - 1

\* A token is nowhere, or at producers among the n that are listed.
TokenInv(t, n) ==
  /\ t.currentProducer <= n /\ t.desiredProducer <= n
  /\ t.currentProducer = Null <=> t.desiredProducer = Null

\* All producers from i to j are among those asked by call l.
Asked(l, i, j) == \A p \in Producers : i <= p /\ p <= j => p \in l.asked

\* What a call l of a consumer with token t knows, when n producers are listed.
ScoreInv(l, n) ==
  l.at = "score" =>
    /\ l.max = 1 /\ l.ptr \in 1 .. n
    /\ l.nonEmpty = 0 => l.bestSize = 0 /\ Asked(l, l.ptr + 1, l.listed)
    /\ l.nonEmpty # 0 => l.best \in 1 .. n
BestInv(l, n) ==
  l.at \in {"best", "others"} =>
    /\ l.max = 1 /\ l.best \in 1 .. n
    /\ l.at = "others" => l.best \in l.asked
OnwardInv(l, n) ==
  l.at \in {"others", "pass"} => l.ptr \in 1 .. n /\ Asked(l, l.ptr + 1, l.listed)
PlacingInv(l, t, n) ==
  l.at \in {"count", "offset"} =>
    /\ l.tail \in 1 .. n /\ t.desiredProducer <= l.tail
    /\ l.at = "offset" => l.prods > 0
CurrentInv(l, t) ==
  l.at \in {"current", "turn", "around"} =>
    /\ t.currentProducer # Null
    /\ l.at # "current" => t.currentProducer \in l.asked

\* Going around, all from the token's producer c to ptr have been asked: those below c and
\* above ptr, or those below c and those at the end of the list.
RoundInv(l, c) ==
  l.at = "around" =>
    /\ l.listed <= l.tail /\ c <= l.tail /\ l.ptr \in 1 .. l.tail
    /\ l.ptr < c => Asked(l, l.ptr + 1, c - 1)
    /\ c <= l.ptr => Asked(l, 1, c - 1) /\ Asked(l, l.ptr + 1, l.tail)
FailsInv(l) == l.at = "fails" => Asked(l, 1, l.listed)

CallInv(l, t, n) ==
  /\ l.listed <= n /\ l.tail <= n
  /\ ScoreInv(l, n) /\ BestInv(l, n) /\ OnwardInv(l, n)
  /\ PlacingInv(l, t, n) /\ CurrentInv(l, t) /\ RoundInv(l, t.currentProducer)
  /\ FailsInv(l)

IInv ==
  /\ QueueInv
  /\ con \in [Consumers -> CallType] /\ token \in [Consumers -> TokenType]
  /\ \A c \in Consumers :
       TokenInv(token[c], producerListTail) /\ CallInv(con[c], token[c], producerListTail)

------------------------------------------------------------------------------
\* What is true while n producers are listed stays true when there are more.
LEMMA MoreListed ==
  ASSUME NEW l \in CallType, NEW t \in TokenType, NEW n \in Nat, NEW m \in Nat, n <= m,
         TokenInv(t, n), CallInv(l, t, n)
  PROVE  TokenInv(t, m) /\ CallInv(l, t, m)
<1>1. TokenInv(t, m)
  BY DEF TokenInv, TokenType
<1>2. l.listed <= m /\ l.tail <= m
  BY DEF CallInv, CallType
<1>3. ScoreInv(l, m) /\ BestInv(l, m) /\ OnwardInv(l, m)
  BY DEF CallInv, ScoreInv, BestInv, OnwardInv, CallType
<1>4. PlacingInv(l, t, m)
  BY DEF CallInv, PlacingInv, CallType
<1> QED
  BY <1>1, <1>2, <1>3, <1>4 DEF CallInv

\* A step of consumer c concerns its own call and token, and the items.
LEMMA OneConsumerMoves ==
  ASSUME IInv, NEW c \in Consumers, NEW l \in CallType, NEW t \in TokenType,
         con' = [con EXCEPT ![c] = l], token' = [token EXCEPT ![c] = t],
         producerListTail' = producerListTail, producerCount' = producerCount,
         items' \in [Producers -> 0 .. MaxItems], nextExplicitConsumerId' \in Nat,
         globalExplicitConsumerOffset' \in 0 .. OffsetValues - 1,
         TokenInv(t, producerListTail), CallInv(l, t, producerListTail)
  PROVE  IInv'
<1>1. QueueInv'
  BY DEF IInv, QueueInv
<1>2. /\ con' \in [Consumers -> CallType] /\ token' \in [Consumers -> TokenType]
      /\ \A d \in Consumers :
           /\ con'[d] = IF d = c THEN l ELSE con[d]
           /\ token'[d] = IF d = c THEN t ELSE token[d]
  BY DEF IInv
<1>3. ASSUME NEW d \in Consumers
      PROVE  TokenInv(token'[d], producerListTail) /\ CallInv(con'[d], token'[d], producerListTail)
  BY <1>2 DEF IInv
<1>4. \A d \in Consumers :
        TokenInv(token[d], producerListTail)' /\ CallInv(con[d], token[d], producerListTail)'
  BY <1>3 DEF TokenInv, CallInv, ScoreInv, BestInv, OnwardInv, PlacingInv, CurrentInv, RoundInv,
              FailsInv, Asked
<1> QED
  BY <1>1, <1>2, <1>4 DEF IInv

\* Most steps leave tokens and items as they are.
LEMMA OnlyCallMoves ==
  ASSUME IInv, NEW c \in Consumers, NEW l \in CallType, con' = [con EXCEPT ![c] = l],
         UNCHANGED <<queue, globalExplicitConsumerOffset, token>>,
         CallInv(l, token[c], producerListTail)
  PROVE  IInv'
<1>1. token[c] \in TokenType /\ TokenInv(token[c], producerListTail)
  BY DEF IInv
<1>2. token' = [token EXCEPT ![c] = token[c]]
  BY DEF queue, IInv
<1> QED
  BY <1>1, <1>2, OneConsumerMoves DEF queue, IInv, QueueInv

\* Nobody is in a call that asks nobody.
LEMMA IdleCall ==
  ASSUME NEW t \in TokenType, NEW n \in Nat
  PROVE  Idle \in CallType /\ CallInv(Idle, t, n)
<1>1. Idle \in CallType
  BY ConsumerTokensAssumption DEF Idle, CallType, CallPlaces, Null
<1>2. Idle.at = "idle" /\ Idle.listed = 0 /\ Idle.tail = 0
  BY DEF Idle, Null
<1> QED
  BY <1>1, <1>2 DEF CallInv, ScoreInv, BestInv, OnwardInv, PlacingInv, CurrentInv, RoundInv,
                    FailsInv

\* A call may return when it has asked everybody, or has what it wanted.
LEMMA CallReturns ==
  ASSUME NEW l \in CallType, NEW t \in TokenType, NEW n \in Nat, l.listed <= n, l.tail <= n,
         l.max # 0 => Asked(l, 1, l.listed)
  PROVE  Return(l) \in CallType /\ CallInv(Return(l), t, n)
<1>1. CASE l.max = 0
  BY <1>1, IdleCall DEF Return
<1>2. CASE l.max # 0
  <2> DEFINE f == [l EXCEPT !.at = "fails"]
  <2>1. /\ f \in CallType /\ f.at = "fails" /\ f.listed = l.listed /\ f.tail = l.tail
        /\ f.asked = l.asked
    BY DEF CallType, CallPlaces
  <2>2. Asked(f, 1, f.listed)
    BY <1>2, <2>1 DEF Asked
  <2>3. CallInv(f, t, n)
    BY <2>1, <2>2 DEF CallInv, ScoreInv, BestInv, OnwardInv, PlacingInv, CurrentInv, RoundInv,
                      FailsInv
  <2> QED
    BY <1>2, <2>1, <2>3 DEF Return
<1> QED
  BY <1>1, <1>2

------------------------------------------------------------------------------
(* The steps of producers, and the calls' beginnings.                       *)

LEMMA InitialTokens == Init => IInv
<1> SUFFICES ASSUME Init PROVE IInv
  OBVIOUS
<1>1. QueueInv
  BY ConsumerTokensAssumption DEF Init, QueueInv, Producers
<1>2. NoToken \in TokenType
  BY ConsumerTokensAssumption DEF NoToken, TokenType, Null
<1>3. NoToken.currentProducer = Null /\ NoToken.desiredProducer = Null
  BY DEF NoToken
<1>4. TokenInv(NoToken, producerListTail)
  BY <1>3, ConsumerTokensAssumption DEF TokenInv, Null, Init
<1>5. Idle \in CallType /\ CallInv(Idle, NoToken, producerListTail)
  BY <1>1, <1>2, IdleCall DEF QueueInv
<1> QED
  BY <1>1, <1>2, <1>4, <1>5 DEF IInv, Init

LEMMA ProducersStep ==
  ASSUME IInv, CountProducer \/ ListProducer \/ \E p \in Producers : Enqueue(p)
  PROVE  IInv'
<1>1. QueueInv' /\ producerListTail' \in Nat /\ producerListTail <= producerListTail'
  <2>1. CASE CountProducer
    BY <2>1, ConsumerTokensAssumption DEF IInv, QueueInv, CountProducer
  <2>2. CASE ListProducer
    BY <2>2, ConsumerTokensAssumption DEF IInv, QueueInv, ListProducer
  <2>3. ASSUME NEW p \in Producers, Enqueue(p)
        PROVE  QueueInv' /\ producerListTail' = producerListTail
    BY <2>3, ConsumerTokensAssumption DEF IInv, QueueInv, Enqueue
  <2> QED
    BY <2>1, <2>2, <2>3 DEF IInv, QueueInv
<1>2. con' = con /\ token' = token
  BY DEF CountProducer, ListProducer, Enqueue
<1>3. ASSUME NEW d \in Consumers
      PROVE  TokenInv(token[d], producerListTail') /\ CallInv(con[d], token[d], producerListTail')
  BY <1>1, MoreListed DEF IInv, QueueInv
<1>4. \A d \in Consumers :
        TokenInv(token[d], producerListTail)' /\ CallInv(con[d], token[d], producerListTail)'
  BY <1>2, <1>3 DEF TokenInv, CallInv, ScoreInv, BestInv, OnwardInv, PlacingInv, CurrentInv,
                    RoundInv, FailsInv, Asked
<1> QED
  BY <1>1, <1>2, <1>4 DEF IInv

LEMMA ConstructStep ==
  ASSUME IInv, NEW c \in Consumers, ConstructConsumerToken(c)
  PROVE  IInv'
<1> DEFINE t == [token[c] EXCEPT !.initialOffset = nextExplicitConsumerId, !.constructed = TRUE]
<1>1. /\ token[c] \in TokenType /\ con[c] \in CallType
      /\ TokenInv(token[c], producerListTail) /\ CallInv(con[c], token[c], producerListTail)
  BY DEF IInv
<1>2. /\ t \in TokenType /\ t.currentProducer = token[c].currentProducer
      /\ t.desiredProducer = token[c].desiredProducer
  BY <1>1 DEF TokenType, IInv, QueueInv
<1>3. TokenInv(t, producerListTail) /\ CallInv(con[c], t, producerListTail)
  BY <1>1, <1>2 DEF TokenInv, CallInv, PlacingInv, CurrentInv
<1>4. token' = [token EXCEPT ![c] = t] /\ con' = [con EXCEPT ![c] = con[c]]
  BY DEF ConstructConsumerToken, IInv
<1> QED
  BY <1>1, <1>2, <1>3, <1>4, OneConsumerMoves DEF ConstructConsumerToken, IInv, QueueInv

\* The records in which calls begin.
LEMMA BegunCall ==
  ASSUME IInv, NEW max \in 1 .. MaxBulk, NEW bulk \in BOOLEAN, NEW place \in CallPlaces
  PROVE  LET l == BeginCall(place, max, bulk) IN
         /\ l \in CallType /\ l.at = place /\ l.max = max /\ l.bulk = bulk
         /\ l.listed = producerListTail /\ l.ptr = 0 /\ l.tail = 0
         /\ l.nonEmpty = 0 /\ l.bestSize = 0
<1> DEFINE l == BeginCall(place, max, bulk)
<1>1. producerListTail \in Nat /\ max \in 0 .. MaxBulk
  BY ConsumerTokensAssumption DEF IInv, QueueInv
<1>2. /\ l.at = place /\ l.max = max /\ l.bulk = bulk /\ l.listed = producerListTail
      /\ l.ptr = 0 /\ l.tail = 0 /\ l.nonEmpty = 0 /\ l.bestSize = 0
  BY DEF BeginCall, Idle, Null
<1>3. Idle \in CallType
  BY ConsumerTokensAssumption DEF Idle, CallType, CallPlaces, Null
<1>4. l \in CallType
  BY <1>1, <1>3 DEF BeginCall, CallType
<1> QED
  BY <1>2, <1>4

LEMMA InOrderBegins ==
  ASSUME IInv, NEW c \in Consumers, NEW max \in 1 .. MaxBulk, NEW bulk \in BOOLEAN,
         NEW place \in {"score", "pass"}, place = "score" => max = 1,
         con' = [con EXCEPT ![c] =
           LET l == [BeginCall(place, max, bulk) EXCEPT !.ptr = producerListTail]
           IN  IF l.ptr = Null THEN Return(l) ELSE l],
         UNCHANGED <<queue, globalExplicitConsumerOffset, token>>
  PROVE  IInv'
<1> DEFINE l == [BeginCall(place, max, bulk) EXCEPT !.ptr = producerListTail]
<1>1. /\ token[c] \in TokenType /\ producerListTail \in Nat
      /\ TokenInv(token[c], producerListTail)
  BY DEF IInv, QueueInv
<1>2. place \in CallPlaces
  BY DEF CallPlaces
<1>3. /\ l \in CallType /\ l.at = place /\ l.max = max
      /\ l.listed = producerListTail /\ l.ptr = producerListTail /\ l.tail = 0
      /\ l.nonEmpty = 0 /\ l.bestSize = 0
  BY <1>1, <1>2, BegunCall DEF BeginCall, CallType
<1>4. CASE l.ptr = Null
  <2>1. Asked(l, 1, l.listed)
    BY <1>1, <1>3, <1>4 DEF Asked, Null, Producers
  <2>2. l.listed <= producerListTail /\ l.tail <= producerListTail
    BY <1>1, <1>3
  <2> HIDE DEF l
  <2>3. Return(l) \in CallType /\ CallInv(Return(l), token[c], producerListTail)
    BY <1>1, <1>3, <2>1, <2>2, CallReturns
  <2> QED
    BY <1>4, <2>3, OnlyCallMoves DEF l
<1>5. CASE l.ptr # Null
  <2>1. l.ptr \in 1 .. producerListTail /\ Asked(l, l.ptr + 1, l.listed)
    BY <1>1, <1>3, <1>5 DEF Asked, Null, Producers
  <2>2. CallInv(l, token[c], producerListTail)
    BY <1>1, <1>3, <2>1 DEF CallInv, ScoreInv, BestInv, OnwardInv, PlacingInv, CurrentInv,
                            RoundInv, FailsInv
  <2> QED
    BY <1>3, <1>5, <2>2, OnlyCallMoves
<1> QED
  BY <1>4, <1>5

LEMMA WithTokenBegins ==
  ASSUME IInv, NEW c \in Consumers, NEW max \in 1 .. MaxBulk, NEW bulk \in BOOLEAN,
         TryWithToken(c, max, bulk)
  PROVE  IInv'
<1> DEFINE place == IF \/ token[c].desiredProducer = Null
                       \/ token[c].lastKnownGlobalOffset # globalExplicitConsumerOffset
                    THEN "tail" ELSE "current"
<1> DEFINE l == BeginCall(place, max, bulk)
<1>1. /\ token[c] \in TokenType /\ producerListTail \in Nat
      /\ TokenInv(token[c], producerListTail)
  BY DEF IInv, QueueInv
<1>2. place \in CallPlaces
  BY DEF CallPlaces
<1>3. l \in CallType /\ l.at = place /\ l.listed = producerListTail /\ l.tail = 0
  BY <1>2, BegunCall
<1>4. place = "current" => token[c].currentProducer # Null
  BY <1>1 DEF TokenInv
<1>5. CallInv(l, token[c], producerListTail)
  BY <1>1, <1>3, <1>4 DEF CallInv, ScoreInv, BestInv, OnwardInv, PlacingInv, CurrentInv,
                          RoundInv, FailsInv
<1> QED
  BY <1>3, <1>5, OnlyCallMoves DEF TryWithToken

\* A consumer that takes from a given producer.
LEMMA FromProducerStep ==
  ASSUME IInv, NEW c \in Consumers, NEW p \in Producers, NEW max \in 1 .. MaxBulk,
         TryFromProducer(c, p, max)
  PROVE  IInv'
<1>1. items' \in [Producers -> 0 .. MaxItems]
  BY ConsumerTokensAssumption DEF TryFromProducer, TakeFrom, Least, IInv, QueueInv
<1>2. /\ token[c] \in TokenType /\ con[c] \in CallType
      /\ TokenInv(token[c], producerListTail) /\ CallInv(con[c], token[c], producerListTail)
  BY DEF IInv
<1>3. token' = [token EXCEPT ![c] = token[c]] /\ con' = [con EXCEPT ![c] = con[c]]
  BY DEF TryFromProducer, IInv
<1> QED
  BY <1>1, <1>2, <1>3, OneConsumerMoves DEF TryFromProducer, IInv, QueueInv

------------------------------------------------------------------------------
(* What a dequeue of a sub-queue does to the call.                          *)

\* The call after n items of p: less than it wanted means that p was asked.
LEMMA CallWith ==
  ASSUME IInv, NEW c \in Consumers, NEW p \in Producers, NEW n \in Yields(c, p)
  PROVE  /\ n \in 0 .. con[c].max /\ n <= items[p]
         /\ [items EXCEPT ![p] = @ - n] \in [Producers -> 0 .. MaxItems]
         /\ With(c, p, n) \in CallType
         /\ con[c].asked \subseteq With(c, p, n).asked
         /\ With(c, p, n).max # 0 => p \in With(c, p, n).asked
         /\ With(c, p, n).max = con[c].max - n /\ With(c, p, n).at = con[c].at
         /\ With(c, p, n).ptr = con[c].ptr /\ With(c, p, n).best = con[c].best
         /\ With(c, p, n).listed = con[c].listed /\ With(c, p, n).tail = con[c].tail
<1>1. con[c] \in CallType /\ items[p] \in 0 .. MaxItems /\ MaxItems \in Nat /\ MaxBulk \in Nat
  BY ConsumerTokensAssumption DEF IInv, QueueInv
<1>2. con[c].max \in 0 .. MaxBulk /\ con[c].asked \in SUBSET Producers
  BY <1>1 DEF CallType
<1>3. n \in 0 .. con[c].max /\ n <= items[p]
  BY <1>1, <1>2 DEF Yields, Least
<1>4. [items EXCEPT ![p] = @ - n] \in [Producers -> 0 .. MaxItems]
  BY <1>1, <1>3 DEF IInv, QueueInv
<1>5. (con[c].max - n) \in 0 .. MaxBulk
  BY <1>1, <1>2, <1>3
<1>6. /\ With(c, p, n).max = con[c].max - n
      /\ With(c, p, n).asked = IF n < con[c].max THEN con[c].asked \cup {p} ELSE con[c].asked
      /\ With(c, p, n) = [con[c] EXCEPT !.max = con[c].max - n, !.asked = With(c, p, n).asked]
  BY <1>1 DEF With, CallType
<1>7. With(c, p, n).asked \in SUBSET Producers
  BY <1>2, <1>6
<1>8. With(c, p, n) \in CallType
  <2> DEFINE q == With(c, p, n).asked
  <2>1. [con[c] EXCEPT !.max = con[c].max - n, !.asked = q] \in CallType
    <3> HIDE DEF q
    <3> QED BY <1>1, <1>5, <1>7 DEF CallType, q
  <2> QED
    BY <1>6, <2>1
<1>9. /\ With(c, p, n).at = con[c].at /\ With(c, p, n).ptr = con[c].ptr
      /\ With(c, p, n).best = con[c].best /\ With(c, p, n).listed = con[c].listed
      /\ With(c, p, n).tail = con[c].tail
  BY <1>1 DEF With, CallType
<1> QED
  BY <1>1, <1>2, <1>3, <1>4, <1>6, <1>8, <1>9

\* Producers that are listed exist.
LEMMA ListedExist ==
  ASSUME IInv, NEW p \in 1 .. producerListTail
  PROVE  p \in Producers
BY ConsumerTokensAssumption DEF IInv, QueueInv, Producers

\* Onwards through the list, when all from ptr on have been asked.
LEMMA CallGoesOn ==
  ASSUME NEW l \in CallType, NEW t \in TokenType, NEW n \in Nat, l.listed <= n, l.tail <= n,
         l.at \in {"others", "pass"}, l.ptr \in 1 .. n, l.max # 0 => Asked(l, l.ptr, l.listed),
         l.at = "others" => l.max \in 0 .. 1 /\ l.best \in 1 .. n /\ l.best \in l.asked
  PROVE  Onward(l) \in CallType /\ CallInv(Onward(l), t, n)
<1>1. CASE l.max > 0 /\ l.ptr > 1
  <2> DEFINE f == [l EXCEPT !.ptr = l.ptr - 1]
  <2>1. /\ f \in CallType /\ f.at = l.at /\ f.max = l.max /\ f.best = l.best
        /\ f.listed = l.listed /\ f.tail = l.tail /\ f.asked = l.asked /\ f.ptr = l.ptr - 1
    BY <1>1 DEF CallType
  <2>2. f.ptr \in 1 .. n /\ f.ptr + 1 = l.ptr /\ (f.at = "others" => f.max = 1)
    BY <1>1, <2>1 DEF CallType
  <2>3. Asked(f, f.ptr + 1, f.listed)
    BY <1>1, <2>1, <2>2 DEF Asked
  <2>4. CallInv(f, t, n)
    BY <2>1, <2>2, <2>3 DEF CallInv, ScoreInv, BestInv, OnwardInv, PlacingInv, CurrentInv,
                            RoundInv, FailsInv
  <2> QED
    BY <1>1, <2>1, <2>4 DEF Onward
<1>2. CASE ~(l.max > 0 /\ l.ptr > 1)
  <2>1. l.max # 0 => l.ptr = 1
    BY <1>2 DEF CallType
  <2>2. l.max # 0 => Asked(l, 1, l.listed)
    BY <2>1
  <2> QED
    BY <1>2, <2>2, CallReturns DEF Onward
<1> QED
  BY <1>1, <1>2

\* A step that takes from p and leaves the tokens alone.
LEMMA TakingMoves ==
  ASSUME IInv, NEW c \in Consumers, NEW p \in Producers, NEW n \in Yields(c, p),
         TakeFrom(p, n), NEW l \in CallType, con' = [con EXCEPT ![c] = l],
         CallInv(l, token[c], producerListTail),
         UNCHANGED <<producerListTail, producerCount, nextExplicitConsumerId,
                     globalExplicitConsumerOffset, token>>
  PROVE  IInv'
<1>1. items' \in [Producers -> 0 .. MaxItems]
  BY CallWith DEF TakeFrom
<1>2. /\ token[c] \in TokenType /\ TokenInv(token[c], producerListTail)
      /\ token' = [token EXCEPT ![c] = token[c]]
  BY DEF IInv
<1> QED
  BY <1>1, <1>2, OneConsumerMoves DEF IInv, QueueInv

------------------------------------------------------------------------------
(* The steps without a token.                                               *)

LEMMA ScoredCall ==
  ASSUME NEW l \in CallType, ScoreInv(l, producerListTail), l.at = "score",
         l.ptr \in Producers, items[l.ptr] \in Nat
  PROVE  /\ Scored(l) \in CallType /\ Scored(l).at = "score" /\ Scored(l).max = 1
         /\ Scored(l).ptr = l.ptr /\ Scored(l).listed = l.listed /\ Scored(l).tail = l.tail
         /\ Scored(l).nonEmpty = 0 =>
              Scored(l).bestSize = 0 /\ Asked(Scored(l), l.ptr, l.listed)
         /\ Scored(l).nonEmpty # 0 => Scored(l).best \in 1 .. producerListTail
<1> DEFINE size == items[l.ptr]
<1>1. /\ l.max = 1 /\ l.ptr \in 1 .. producerListTail
      /\ l.nonEmpty = 0 => l.bestSize = 0 /\ Asked(l, l.ptr + 1, l.listed)
      /\ l.nonEmpty # 0 => l.best \in 1 .. producerListTail
      /\ l.nonEmpty \in Nat /\ l.bestSize \in Nat /\ l.best \in Nat
  BY DEF ScoreInv, CallType
<1>2. CASE size = 0
  <2> DEFINE f == [l EXCEPT !.asked = l.asked \cup {l.ptr}]
  <2>1. /\ f \in CallType /\ f.at = "score" /\ f.max = 1 /\ f.ptr = l.ptr
        /\ f.listed = l.listed /\ f.tail = l.tail /\ f.best = l.best
        /\ f.nonEmpty = l.nonEmpty /\ f.bestSize = l.bestSize
        /\ f.asked = l.asked \cup {l.ptr}
    BY <1>1 DEF CallType
  <2>2. f.nonEmpty = 0 => Asked(f, l.ptr, l.listed)
    BY <1>1, <2>1 DEF Asked, Producers
  <2>3. Scored(l) = f
    BY <1>2 DEF Scored
  <2> HIDE DEF f
  <2> QED
    BY <1>1, <2>1, <2>2, <2>3
<1>3. CASE size # 0
  <2> DEFINE b == IF size > l.bestSize THEN l.ptr ELSE l.best
             z == IF size > l.bestSize THEN size ELSE l.bestSize
             k == l.nonEmpty + 1
             f == [l EXCEPT !.nonEmpty = k, !.best = b, !.bestSize = z]
  <2>1. Scored(l) = f
    BY <1>3 DEF Scored
  <2>2. b \in Nat /\ z \in Nat /\ b \in 1 .. producerListTail
    BY <1>1, <1>3
  <2>0. k \in Nat
    BY <1>1
  <2> HIDE DEF b, z, k
  <2>3. /\ f \in CallType /\ f.at = "score" /\ f.max = 1 /\ f.ptr = l.ptr
        /\ f.listed = l.listed /\ f.tail = l.tail
        /\ f.nonEmpty = k /\ f.best = b
    BY <1>1, <2>0, <2>2 DEF CallType
  <2>4. f.nonEmpty # 0
    BY <1>1, <2>3 DEF k
  <2> HIDE DEF f
  <2> QED
    BY <2>1, <2>2, <2>3, <2>4
<1> QED
  BY <1>2, <1>3

LEMMA ScoreStep == ASSUME IInv, NEW c \in Consumers, Score(c) PROVE IInv'
<1> DEFINE l == Scored(con[c])
<1> DEFINE onward == l.nonEmpty < 3 /\ l.ptr > 1
<1>1. /\ con[c] \in CallType /\ token[c] \in TokenType /\ con[c].at = "score"
      /\ CallInv(con[c], token[c], producerListTail) /\ producerListTail \in Nat
  BY DEF IInv, QueueInv, Score
<1>2. /\ con[c].ptr \in 1 .. producerListTail /\ con[c].ptr \in Producers
      /\ con[c].listed <= producerListTail /\ con[c].tail <= producerListTail
      /\ ScoreInv(con[c], producerListTail)
  BY <1>1, ListedExist DEF CallInv, ScoreInv
<1>3. items[con[c].ptr] \in Nat
  BY <1>2, ConsumerTokensAssumption DEF IInv, QueueInv
<1>4. /\ l \in CallType /\ l.at = "score" /\ l.max = 1 /\ l.ptr \in 1 .. producerListTail
      /\ l.listed <= producerListTail /\ l.tail <= producerListTail
      /\ l.nonEmpty = 0 => l.bestSize = 0 /\ Asked(l, l.ptr, l.listed)
      /\ l.nonEmpty # 0 => l.best \in 1 .. producerListTail
  BY <1>1, <1>2, <1>3, ScoredCall
<1>5. con' = [con EXCEPT ![c] = IF onward THEN [l EXCEPT !.ptr = l.ptr - 1]
                                ELSE IF l.nonEmpty > 0 THEN [l EXCEPT !.at = "best"]
                                ELSE Return(l)]
  BY DEF Score
<1>6. UNCHANGED <<queue, globalExplicitConsumerOffset, token>>
  BY DEF Score
<1> HIDE DEF l
<1>7. CASE onward
  <2> DEFINE f == [l EXCEPT !.ptr = l.ptr - 1]
  <2>0. l.ptr - 1 \in Nat
    BY <1>4, <1>7
  <2>1. /\ f \in CallType /\ f.at = "score" /\ f.max = 1 /\ f.ptr = l.ptr - 1
        /\ f.listed = l.listed /\ f.tail = l.tail /\ f.nonEmpty = l.nonEmpty
        /\ f.bestSize = l.bestSize /\ f.best = l.best /\ f.asked = l.asked
    BY <1>4, <2>0 DEF CallType
  <2>2. f.ptr \in 1 .. producerListTail /\ f.ptr + 1 = l.ptr
    BY <1>1, <1>4, <1>7, <2>1
  <2>3. f.nonEmpty = 0 => f.bestSize = 0 /\ Asked(f, f.ptr + 1, f.listed)
    BY <1>4, <2>1, <2>2 DEF Asked
  <2>4. CallInv(f, token[c], producerListTail)
    BY <1>4, <2>1, <2>2, <2>3
    DEF CallInv, ScoreInv, BestInv, OnwardInv, PlacingInv, CurrentInv, RoundInv, FailsInv
  <2> QED
    BY <1>5, <1>6, <1>7, <2>1, <2>4, OnlyCallMoves
<1>8. CASE ~onward /\ l.nonEmpty > 0
  <2> DEFINE f == [l EXCEPT !.at = "best"]
  <2>1. /\ f \in CallType /\ f.at = "best" /\ f.max = 1 /\ f.best = l.best
        /\ f.listed = l.listed /\ f.tail = l.tail
    BY <1>4 DEF CallType, CallPlaces
  <2>2. f.best \in 1 .. producerListTail
    BY <1>4, <1>8, <2>1
  <2>3. CallInv(f, token[c], producerListTail)
    BY <1>4, <2>1, <2>2
    DEF CallInv, ScoreInv, BestInv, OnwardInv, PlacingInv, CurrentInv, RoundInv, FailsInv
  <2> QED
    BY <1>5, <1>6, <1>8, <2>1, <2>3, OnlyCallMoves
<1>9. CASE ~onward /\ ~(l.nonEmpty > 0)
  <2>1. l.nonEmpty = 0 /\ l.ptr = 1
    BY <1>4, <1>9 DEF CallType
  <2>2. Return(l) \in CallType /\ CallInv(Return(l), token[c], producerListTail)
    BY <1>1, <1>4, <2>1, CallReturns
  <2> QED
    BY <1>5, <1>6, <1>9, <2>2, OnlyCallMoves
<1> QED
  BY <1>7, <1>8, <1>9

LEMMA BestStep == ASSUME IInv, NEW c \in Consumers, Best(c) PROVE IInv'
<1> DEFINE p == con[c].best
<1>1. /\ con[c] \in CallType /\ token[c] \in TokenType /\ con[c].at = "best"
      /\ CallInv(con[c], token[c], producerListTail) /\ producerListTail \in Nat
  BY DEF IInv, QueueInv, Best
<1>2. /\ con[c].max = 1 /\ p \in 1 .. producerListTail /\ p \in Producers
      /\ con[c].listed <= producerListTail /\ con[c].tail <= producerListTail
  BY <1>1, ListedExist DEF CallInv, BestInv
<1>3. PICK n \in Yields(c, p) :
        /\ TakeFrom(p, n)
        /\ con' = [con EXCEPT ![c] =
             IF n = 1 THEN Idle
             ELSE [With(c, p, n) EXCEPT !.at = "others", !.ptr = producerListTail]]
  BY DEF Best
<1> DEFINE w == With(c, p, n)
<1>4. /\ n \in 0 .. 1 /\ w \in CallType /\ w.max = 1 - n
      /\ w.best = p /\ w.listed = con[c].listed /\ w.tail = con[c].tail
      /\ w.max # 0 => p \in w.asked
  BY <1>1, <1>2, CallWith
<1>5. CASE n = 1
  <2>1. Idle \in CallType /\ CallInv(Idle, token[c], producerListTail)
    BY <1>1, IdleCall
  <2> QED
    BY <1>2, <1>3, <1>5, <2>1, TakingMoves DEF Best
<1>6. CASE n # 1
  <2> DEFINE f == [w EXCEPT !.at = "others", !.ptr = producerListTail]
  <2>0. w.max = 1 /\ p \in w.asked
    BY <1>4, <1>6
  <2> HIDE DEF w
  <2>1. /\ f \in CallType /\ f.at = "others" /\ f.max = 1 /\ f.best = p
        /\ f.ptr = producerListTail /\ f.listed = w.listed /\ f.tail = w.tail
        /\ f.asked = w.asked
    BY <1>1, <1>4, <2>0 DEF CallType, CallPlaces
  <2>2. f.best \in f.asked /\ f.ptr \in 1 .. producerListTail
    BY <1>1, <1>2, <1>4, <2>0, <2>1
  <2>3. Asked(f, f.ptr + 1, f.listed)
    BY <1>1, <1>2, <1>4, <2>1 DEF Asked, Producers, CallType
  <2>4. CallInv(f, token[c], producerListTail)
    BY <1>2, <1>4, <2>1, <2>2, <2>3
    DEF CallInv, ScoreInv, BestInv, OnwardInv, PlacingInv, CurrentInv, RoundInv, FailsInv
  <2> QED
    BY <1>2, <1>3, <1>6, <2>1, <2>4, TakingMoves DEF Best, w
<1> QED
  BY <1>5, <1>6

LEMMA OthersStep == ASSUME IInv, NEW c \in Consumers, Others(c) PROVE IInv'
<1> DEFINE p == con[c].ptr
<1>1. /\ con[c] \in CallType /\ token[c] \in TokenType /\ con[c].at = "others"
      /\ CallInv(con[c], token[c], producerListTail) /\ producerListTail \in Nat
  BY DEF IInv, QueueInv, Others
<1>2. /\ con[c].max = 1 /\ p \in 1 .. producerListTail /\ p \in Producers
      /\ con[c].best \in 1 .. producerListTail /\ con[c].best \in con[c].asked
      /\ con[c].listed <= producerListTail /\ con[c].tail <= producerListTail
      /\ Asked(con[c], p + 1, con[c].listed)
  BY <1>1, ListedExist DEF CallInv, BestInv, OnwardInv
<1>3. CASE p = con[c].best
  <2>1. Asked(con[c], p, con[c].listed)
    BY <1>2, <1>3 DEF Asked, Producers
  <2>2. Onward(con[c]) \in CallType /\ CallInv(Onward(con[c]), token[c], producerListTail)
    BY <1>1, <1>2, <2>1, CallGoesOn
  <2>3. /\ con' = [con EXCEPT ![c] = Onward(con[c])]
        /\ UNCHANGED <<queue, globalExplicitConsumerOffset, token>>
    BY <1>3 DEF Others, queue
  <2> QED
    BY <2>2, <2>3, OnlyCallMoves
<1>4. CASE p # con[c].best
  <2>1. PICK n \in Yields(c, p) :
          TakeFrom(p, n) /\ con' = [con EXCEPT ![c] = Onward(With(c, p, n))]
    BY <1>4 DEF Others
  <2> DEFINE w == With(c, p, n)
  <2>2. /\ w \in CallType /\ w.max \in 0 .. 1 /\ w.at = "others" /\ w.ptr = p
        /\ w.best = con[c].best /\ w.listed = con[c].listed /\ w.tail = con[c].tail
        /\ con[c].asked \subseteq w.asked /\ (w.max # 0 => p \in w.asked)
    BY <1>1, <1>2, CallWith
  <2>3. w.max # 0 => Asked(w, p, w.listed)
    BY <1>2, <2>2 DEF Asked, Producers
  <2>4. Onward(w) \in CallType /\ CallInv(Onward(w), token[c], producerListTail)
    <3> HIDE DEF w
    <3> QED BY <1>1, <1>2, <2>2, <2>3, CallGoesOn
  <2> QED
    BY <1>2, <2>1, <2>4, TakingMoves DEF Others
<1> QED
  BY <1>3, <1>4

LEMMA PassStep == ASSUME IInv, NEW c \in Consumers, Pass(c) PROVE IInv'
<1> DEFINE p == con[c].ptr
<1>1. /\ con[c] \in CallType /\ token[c] \in TokenType /\ con[c].at = "pass"
      /\ CallInv(con[c], token[c], producerListTail) /\ producerListTail \in Nat
  BY DEF IInv, QueueInv, Pass
<1>2. /\ p \in 1 .. producerListTail /\ p \in Producers
      /\ con[c].listed <= producerListTail /\ con[c].tail <= producerListTail
      /\ Asked(con[c], p + 1, con[c].listed)
  BY <1>1, ListedExist DEF CallInv, OnwardInv
<1>3. PICK n \in Yields(c, p) :
        TakeFrom(p, n) /\ con' = [con EXCEPT ![c] = Onward(With(c, p, n))]
  BY DEF Pass
<1> DEFINE w == With(c, p, n)
<1>4. /\ w \in CallType /\ w.at = "pass" /\ w.ptr = p
      /\ w.listed = con[c].listed /\ w.tail = con[c].tail
      /\ con[c].asked \subseteq w.asked /\ (w.max # 0 => p \in w.asked)
  BY <1>1, <1>2, CallWith
<1>5. w.max # 0 => Asked(w, p, w.listed)
  BY <1>2, <1>4 DEF Asked, Producers
<1>6. Onward(w) \in CallType /\ CallInv(Onward(w), token[c], producerListTail)
  <2> HIDE DEF w
  <2> QED BY <1>1, <1>2, <1>4, <1>5, CallGoesOn
<1> QED
  BY <1>2, <1>3, <1>6, TakingMoves DEF Pass

LEMMA FailsStep == ASSUME IInv, NEW c \in Consumers, Fails(c) PROVE IInv'
<1>1. Idle \in CallType /\ CallInv(Idle, token[c], producerListTail)
  BY IdleCall DEF IInv, QueueInv
<1> QED
  BY <1>1, OnlyCallMoves DEF Fails

------------------------------------------------------------------------------
(* The steps with a token.                                                  *)

LEMMA LoadTailStep == ASSUME IInv, NEW c \in Consumers, LoadTail(c) PROVE IInv'
<1>1. /\ con[c] \in CallType /\ token[c] \in TokenType /\ con[c].at = "tail"
      /\ CallInv(con[c], token[c], producerListTail) /\ TokenInv(token[c], producerListTail)
      /\ producerListTail \in Nat /\ token[c].desiredProducer \in Nat
      /\ con[c].listed <= producerListTail /\ con[c].tail <= producerListTail
  BY DEF IInv, QueueInv, LoadTail, CallInv, TokenType
<1>2. UNCHANGED <<queue, globalExplicitConsumerOffset, token>>
  BY DEF LoadTail
<1>3. CASE token[c].desiredProducer = Null /\ producerListTail = Null
  <2>1. Asked(con[c], 1, con[c].listed)
    BY <1>1, <1>3 DEF Asked, Null, Producers, CallType
  <2>2. Return(con[c]) \in CallType /\ CallInv(Return(con[c]), token[c], producerListTail)
    BY <1>1, <2>1, CallReturns
  <2>3. con' = [con EXCEPT ![c] = Return(con[c])]
    BY <1>3 DEF LoadTail
  <2> QED
    BY <1>2, <2>2, <2>3, OnlyCallMoves
<1>4. CASE ~(token[c].desiredProducer = Null /\ producerListTail = Null)
  <2> DEFINE f == [con[c] EXCEPT !.tail = producerListTail, !.at = "count"]
  <2>1. /\ f \in CallType /\ f.at = "count" /\ f.tail = producerListTail
        /\ f.listed = con[c].listed
    BY <1>1 DEF CallType, CallPlaces
  <2>2. f.tail \in 1 .. producerListTail /\ token[c].desiredProducer <= f.tail
    BY <1>1, <1>4, <2>1 DEF TokenInv, Null
  <2>3. CallInv(f, token[c], producerListTail)
    BY <1>1, <2>1, <2>2
    DEF CallInv, ScoreInv, BestInv, OnwardInv, PlacingInv, CurrentInv, RoundInv, FailsInv
  <2>4. con' = [con EXCEPT ![c] = f]
    BY <1>4 DEF LoadTail
  <2> QED
    BY <1>2, <2>1, <2>3, <2>4, OnlyCallMoves
<1> QED
  BY <1>3, <1>4

LEMMA LoadCountStep == ASSUME IInv, NEW c \in Consumers, LoadCount(c) PROVE IInv'
<1> DEFINE f == [con[c] EXCEPT !.prods = producerCount, !.at = "offset"]
<1>1. /\ con[c] \in CallType /\ con[c].at = "count"
      /\ CallInv(con[c], token[c], producerListTail)
      /\ producerListTail \in Nat /\ producerCount \in Nat /\ producerListTail <= producerCount
  BY ConsumerTokensAssumption DEF IInv, QueueInv, LoadCount
<1>2. /\ con[c].listed <= producerListTail /\ con[c].tail \in 1 .. producerListTail
      /\ token[c].desiredProducer <= con[c].tail
  BY <1>1 DEF CallInv, PlacingInv
<1>3. /\ f \in CallType /\ f.at = "offset" /\ f.tail = con[c].tail /\ f.prods = producerCount
      /\ f.listed = con[c].listed
  BY <1>1 DEF CallType, CallPlaces
<1>4. f.prods > 0 /\ f.tail <= producerListTail
  BY <1>1, <1>2, <1>3
<1>5. CallInv(f, token[c], producerListTail)
  BY <1>2, <1>3, <1>4
  DEF CallInv, ScoreInv, BestInv, OnwardInv, PlacingInv, CurrentInv, RoundInv, FailsInv
<1>6. con' = [con EXCEPT ![c] = f]
  BY <1>1 DEF LoadCount, IInv
<1> QED
  BY <1>3, <1>5, <1>6, OnlyCallMoves DEF LoadCount

\* However far one walks from wherever, one is at a producer in the list.
LEMMA WalkEnds ==
  ASSUME NEW p \in Int, NEW tail \in Nat \ {0}, NEW n \in Int
  PROVE  Walk(p, tail, n) \in 1 .. tail
<1> DEFINE k == p - 1 - n
<1>1. k \in Int
  OBVIOUS
<1> HIDE DEF k
<1>2. k % tail \in 0 .. tail - 1
  BY <1>1
<1> QED
  BY <1>2 DEF Walk, k

LEMMA RotateStep == ASSUME IInv, NEW c \in Consumers, Rotate(c) PROVE IInv'
<1> DEFINE p == Place(token[c], con[c])
<1> DEFINE t == [token[c] EXCEPT !.desiredProducer = p, !.currentProducer = p,
                                 !.lastKnownGlobalOffset = globalExplicitConsumerOffset,
                                 !.itemsConsumedFromCurrent = 0]
<1> DEFINE f == [con[c] EXCEPT !.at = "current", !.prods = 0, !.tail = Null]
<1>1. /\ con[c] \in CallType /\ token[c] \in TokenType /\ con[c].at = "offset"
      /\ CallInv(con[c], token[c], producerListTail)
      /\ producerListTail \in Nat /\ globalExplicitConsumerOffset \in 0 .. OffsetValues - 1
  BY DEF IInv, QueueInv, Rotate
<1>2. /\ con[c].listed <= producerListTail /\ con[c].tail \in 1 .. producerListTail
      /\ con[c].prods \in Nat \ {0}
  BY <1>1 DEF CallInv, PlacingInv, CallType
<1>3. p \in 1 .. con[c].tail
  <2> DEFINE change == globalExplicitConsumerOffset - token[c].lastKnownGlobalOffset
  <2> DEFINE delta == change % OffsetValues
  <2> DEFINE offset == con[c].prods - 1 - (token[c].initialOffset % con[c].prods)
  <2> DEFINE first == Walk(con[c].tail, con[c].tail, offset)
  <2>1. change \in Int /\ OffsetValues \in Nat \ {0} /\ token[c].initialOffset \in Nat
        /\ token[c].desiredProducer \in Nat /\ con[c].tail \in Nat \ {0}
    BY <1>1, <1>2, ConsumerTokensAssumption DEF TokenType
  <2> HIDE DEF change
  <2>2. delta \in Int
    BY <2>1
  <2> HIDE DEF delta
  <2>3. (delta % con[c].prods) \in Int
    BY <1>2, <2>2
  <2>4. (token[c].initialOffset % con[c].prods) \in Int
    BY <1>2, <2>1
  <2>5. offset \in Int
    BY <1>2, <2>4
  <2> HIDE DEF offset
  <2>6. first \in Int
    <3>1. con[c].tail \in Int
      BY <2>1
    <3>2. first \in 1 .. con[c].tail
      BY <2>1, <2>5, <3>1, WalkEnds
    <3> QED
      BY <2>1, <3>2
  <2> DEFINE start == IF token[c].desiredProducer = Null THEN first ELSE token[c].desiredProducer
  <2>7. start \in Int
    BY <2>1, <2>6
  <2> HIDE DEF first
  <2>8. p = Walk(start, con[c].tail, delta % con[c].prods)
    BY DEF Place, delta, change, offset, first
  <2> HIDE DEF start, p
  <2> QED
    BY <2>1, <2>3, <2>7, <2>8, WalkEnds
<1>4. token' = [token EXCEPT ![c] = t] /\ con' = [con EXCEPT ![c] = f]
  BY <1>1 DEF Rotate, IInv
<1> HIDE DEF p
<1>5. p \in 1 .. producerListTail
  BY <1>1, <1>2, <1>3
<1>6. t \in TokenType /\ t.currentProducer = p /\ t.desiredProducer = p
  <2>1. 0 \in 0 .. QUOTA + MaxBulk /\ p \in Nat
    BY <1>1, <1>5, ConsumerTokensAssumption
  <2> QED
    BY <1>1, <2>1 DEF TokenType
<1>7. TokenInv(t, producerListTail)
  BY <1>1, <1>5, <1>6 DEF TokenInv, Null
<1>8. f \in CallType /\ f.at = "current" /\ f.tail = Null /\ f.listed = con[c].listed
  BY <1>1 DEF CallType, CallPlaces, Null
<1>9. t.currentProducer # Null /\ Null <= producerListTail
  BY <1>1, <1>5, <1>6 DEF Null
<1>10. CallInv(f, t, producerListTail)
  BY <1>2, <1>8, <1>9
  DEF CallInv, ScoreInv, BestInv, OnwardInv, PlacingInv, CurrentInv, RoundInv, FailsInv
<1> HIDE DEF t, f
<1> QED
  BY <1>4, <1>6, <1>7, <1>8, <1>10, OneConsumerMoves DEF Rotate, queue, IInv, QueueInv

LEMMA CurrentStep == ASSUME IInv, NEW c \in Consumers, Current(c) PROVE IInv'
<1> DEFINE p == token[c].currentProducer
<1>1. /\ con[c] \in CallType /\ token[c] \in TokenType /\ con[c].at = "current"
      /\ CallInv(con[c], token[c], producerListTail) /\ TokenInv(token[c], producerListTail)
      /\ producerListTail \in Nat
  BY DEF IInv, QueueInv, Current
<1>2. /\ p \in 1 .. producerListTail /\ p \in Producers
      /\ con[c].listed <= producerListTail /\ con[c].tail <= producerListTail
  BY <1>1, ListedExist DEF CallInv, CurrentInv, TokenInv, TokenType, Null
<1>3. PICK n \in Yields(c, p) :
        LET l == With(c, p, n)
            consumed == Least(token[c].itemsConsumedFromCurrent + n, QUOTA + MaxBulk)
        IN  /\ TakeFrom(p, n)
            /\ token' = [token EXCEPT ![c].itemsConsumedFromCurrent = consumed]
            /\ globalExplicitConsumerOffset' =
                 IF l.max = 0 /\ HadQuota(consumed, con[c].bulk)
                 THEN (globalExplicitConsumerOffset + 1) % OffsetValues
                 ELSE globalExplicitConsumerOffset
            /\ con' = [con EXCEPT ![c] = IF l.max = 0 THEN Idle ELSE [l EXCEPT !.at = "turn"]]
  BY DEF Current
<1> DEFINE l == With(c, p, n)
<1> DEFINE m == Least(token[c].itemsConsumedFromCurrent + n, QUOTA + MaxBulk)
<1> DEFINE t == [token[c] EXCEPT !.itemsConsumedFromCurrent = m]
<1> DEFINE f == IF l.max = 0 THEN Idle ELSE [l EXCEPT !.at = "turn"]
<1>4. /\ n \in Nat /\ l \in CallType /\ l.listed = con[c].listed /\ l.tail = con[c].tail
      /\ l.max # 0 => p \in l.asked
  BY <1>1, <1>2, CallWith DEF CallType
<1>5. items' \in [Producers -> 0 .. MaxItems]
  BY <1>2, <1>3, CallWith DEF TakeFrom
<1>6. m \in 0 .. QUOTA + MaxBulk
  BY <1>1, <1>4, ConsumerTokensAssumption DEF Least, TokenType
<1>7. globalExplicitConsumerOffset' \in 0 .. OffsetValues - 1
  <2>1. globalExplicitConsumerOffset + 1 \in Int /\ OffsetValues \in Nat \ {0}
    BY ConsumerTokensAssumption DEF IInv, QueueInv
  <2>2. (globalExplicitConsumerOffset + 1) % OffsetValues \in 0 .. OffsetValues - 1
    BY <2>1
  <2> QED
    BY <1>3, <2>2 DEF IInv, QueueInv
<1>8. token' = [token EXCEPT ![c] = t] /\ con' = [con EXCEPT ![c] = f]
  BY <1>1, <1>3 DEF IInv
<1> HIDE DEF m, l
<1>9. /\ t \in TokenType /\ t.currentProducer = p
      /\ t.desiredProducer = token[c].desiredProducer
  BY <1>1, <1>6 DEF TokenType
<1>10. TokenInv(t, producerListTail)
  BY <1>1, <1>9 DEF TokenInv
<1>11. f \in CallType /\ CallInv(f, t, producerListTail)
  <2>1. CASE l.max = 0
    BY <1>1, <1>9, <2>1, IdleCall
  <2>2. CASE l.max # 0
    <3> DEFINE g == [l EXCEPT !.at = "turn"]
    <3>1. /\ g \in CallType /\ g.at = "turn" /\ g.listed = l.listed /\ g.tail = l.tail
          /\ g.asked = l.asked
      BY <1>4 DEF CallType, CallPlaces
    <3>2. t.currentProducer # Null /\ t.currentProducer \in g.asked
      BY <1>2, <1>4, <1>9, <2>2, <3>1 DEF Null
    <3>3. CallInv(g, t, producerListTail)
      BY <1>2, <1>4, <3>1, <3>2
      DEF CallInv, ScoreInv, BestInv, OnwardInv, PlacingInv, CurrentInv, RoundInv, FailsInv
    <3> QED
      BY <2>2, <3>1, <3>3
  <2> QED
    BY <2>1, <2>2
<1> HIDE DEF t, f
<1> QED
  BY <1>5, <1>7, <1>8, <1>9, <1>10, <1>11, OneConsumerMoves DEF Current, IInv, QueueInv

\* A round begins at the producer after that of the token, which has been asked.
LEMMA RoundBegins ==
  ASSUME NEW l \in CallType, NEW n \in Nat, l.listed <= n, NEW cur \in 1 .. n
  PROVE  LET f == [l EXCEPT !.tail = n, !.at = "around", !.ptr = NextProd(cur, n)]
         IN  /\ f \in CallType /\ f.at = "around" /\ f.tail = n
             /\ f.listed = l.listed /\ f.asked = l.asked
             /\ RoundInv(f, cur)
<1> DEFINE ptr == NextProd(cur, n)
<1> DEFINE f == [l EXCEPT !.tail = n, !.at = "around", !.ptr = ptr]
<1>1. ptr \in 1 .. n /\ ptr \in Nat
  BY DEF NextProd
<1>2. (ptr = cur - 1 /\ ptr < cur) \/ (cur = 1 /\ ptr = n /\ cur <= ptr)
  BY DEF NextProd
<1> HIDE DEF ptr
<1>3. /\ f \in CallType /\ f.at = "around" /\ f.tail = n /\ f.ptr = ptr
      /\ f.listed = l.listed /\ f.asked = l.asked
  BY <1>1 DEF CallType, CallPlaces
<1> HIDE DEF f
<1>4. RoundInv(f, cur)
  <2>1. CASE ptr = cur - 1 /\ ptr < cur
    <3>1. Asked(f, ptr + 1, cur - 1)
      BY <1>1, <2>1 DEF Asked, Producers
    <3> QED
      BY <1>1, <1>3, <2>1, <3>1 DEF RoundInv
  <2>2. CASE cur = 1 /\ ptr = n /\ cur <= ptr
    <3>1. Asked(f, 1, cur - 1) /\ Asked(f, ptr + 1, n)
      BY <1>1, <2>2 DEF Asked, Producers
    <3> QED
      BY <1>1, <1>3, <2>2, <3>1 DEF RoundInv
  <2> QED
    BY <1>2, <2>1, <2>2
<1> QED
  BY <1>3, <1>4 DEF f, ptr

LEMMA TurnStep == ASSUME IInv, NEW c \in Consumers, Turn(c) PROVE IInv'
<1> DEFINE cur == token[c].currentProducer
<1> DEFINE f == [con[c] EXCEPT !.tail = producerListTail, !.at = "around",
                               !.ptr = NextProd(cur, producerListTail)]
<1>1. /\ con[c] \in CallType /\ con[c].at = "turn" /\ cur \in Nat
      /\ CallInv(con[c], token[c], producerListTail) /\ TokenInv(token[c], producerListTail)
      /\ producerListTail \in Nat
  BY DEF IInv, QueueInv, Turn, TokenType
<1>2. /\ con[c].listed <= producerListTail /\ cur \in 1 .. producerListTail
      /\ cur \in con[c].asked
  BY <1>1 DEF CallInv, CurrentInv, TokenInv, Null
<1>3. /\ f \in CallType /\ f.at = "around" /\ f.tail = producerListTail
      /\ f.listed = con[c].listed /\ f.asked = con[c].asked /\ RoundInv(f, cur)
  BY <1>1, <1>2, RoundBegins
<1>4. con' = [con EXCEPT ![c] = f]
  BY DEF Turn
<1> HIDE DEF f
<1>5. CallInv(f, token[c], producerListTail)
  BY <1>1, <1>2, <1>3
  DEF CallInv, ScoreInv, BestInv, OnwardInv, PlacingInv, CurrentInv, FailsInv, Null
<1> QED
  BY <1>3, <1>4, <1>5, OnlyCallMoves DEF Turn

\* Once the round is over everybody has been asked.
LEMMA RoundOver ==
  ASSUME NEW l \in CallType, NEW cur \in Nat, RoundInv(l, cur), l.at = "around", l.ptr = cur,
         cur \in l.asked
  PROVE  Asked(l, 1, l.listed)
BY DEF RoundInv, Asked, Producers, CallType

\* A producer ptr that has been asked and had less than was wanted; if it had something the
\* round starts again from there (moved), otherwise it goes on.
LEMMA RoundGoesOn ==
  ASSUME NEW l \in CallType, NEW cur \in Nat, RoundInv(l, cur), l.at = "around", l.ptr # cur,
         cur \in 1 .. l.tail, NEW a \in SUBSET Producers, l.asked \subseteq a, l.ptr \in a,
         NEW max \in 0 .. MaxBulk, NEW moved \in BOOLEAN
  PROVE  LET f == [l EXCEPT !.max = max, !.asked = a, !.ptr = NextProd(l.ptr, l.tail)]
         IN  f \in CallType /\ RoundInv(f, IF moved THEN l.ptr ELSE cur)
<1> DEFINE ptr == NextProd(l.ptr, l.tail)
<1> DEFINE f == [l EXCEPT !.max = max, !.asked = a, !.ptr = ptr]
<1>1. /\ l.listed <= l.tail /\ cur <= l.tail /\ l.ptr \in 1 .. l.tail
      /\ l.ptr < cur => Asked(l, l.ptr + 1, cur - 1)
      /\ cur <= l.ptr => Asked(l, 1, cur - 1) /\ Asked(l, l.ptr + 1, l.tail)
      /\ l.tail \in Nat /\ l.ptr \in Nat
  BY DEF RoundInv, CallType
<1>2. /\ ptr \in 1 .. l.tail
      /\ l.ptr > 1 => ptr = l.ptr - 1
      /\ l.ptr = 1 => ptr = l.tail
  BY <1>1 DEF NextProd
<1> HIDE DEF ptr
<1>3. /\ f \in CallType /\ f.at = "around" /\ f.listed = l.listed /\ f.tail = l.tail
      /\ f.ptr = ptr /\ f.asked = a
  <2>1. ptr \in Nat
    BY <1>1, <1>2
  <2> QED
    BY <2>1 DEF CallType
<1>4. CASE moved
  BY <1>1, <1>2, <1>3, <1>4 DEF RoundInv, Asked, Producers, ptr
<1>5. CASE ~moved
  <2>1. CASE l.ptr < cur
    <3>1. Asked(f, l.ptr, cur - 1)
      BY <1>1, <1>3, <2>1 DEF Asked, Producers
    <3> QED
      BY <1>1, <1>2, <1>3, <1>5, <2>1, <3>1 DEF RoundInv, Asked, Producers, ptr
  <2>2. CASE cur < l.ptr
    <3>1. Asked(f, 1, cur - 1) /\ Asked(f, l.ptr, l.tail)
      BY <1>1, <1>3, <2>2 DEF Asked, Producers
    <3>2. ptr = l.ptr - 1 /\ cur <= ptr
      BY <1>1, <1>2, <2>2
    <3> QED
      BY <1>1, <1>2, <1>3, <1>5, <2>2, <3>1, <3>2 DEF RoundInv, Asked, ptr
  <2> QED
    BY <1>1, <2>1, <2>2
<1> QED
  BY <1>4, <1>5

LEMMA AroundStep == ASSUME IInv, NEW c \in Consumers, Around(c) PROVE IInv'
<1> DEFINE cur == token[c].currentProducer
<1> DEFINE p == con[c].ptr
<1>1. /\ con[c] \in CallType /\ token[c] \in TokenType /\ con[c].at = "around"
      /\ CallInv(con[c], token[c], producerListTail) /\ TokenInv(token[c], producerListTail)
      /\ producerListTail \in Nat /\ cur \in Nat
  BY DEF IInv, QueueInv, Around, TokenType
<1>2. /\ RoundInv(con[c], cur) /\ cur \in con[c].asked /\ cur # Null /\ p \in 1 .. con[c].tail
      /\ cur \in 1 .. con[c].tail
      /\ con[c].listed <= producerListTail /\ con[c].tail <= producerListTail
      /\ con[c].tail \in Nat
  BY <1>1 DEF CallInv, CurrentInv, RoundInv, CallType, Null
<1>3. p \in 1 .. producerListTail /\ p \in Producers
  BY <1>1, <1>2, ListedExist
<1>4. CASE p = cur
  <2>1. Asked(con[c], 1, con[c].listed)
    BY <1>1, <1>2, <1>4, RoundOver
  <2>2. Return(con[c]) \in CallType /\ CallInv(Return(con[c]), token[c], producerListTail)
    BY <1>1, <1>2, <2>1, CallReturns
  <2>3. /\ con' = [con EXCEPT ![c] = Return(con[c])]
        /\ UNCHANGED <<queue, globalExplicitConsumerOffset, token>>
    BY <1>4 DEF Around, queue
  <2> QED
    BY <2>2, <2>3, OnlyCallMoves
<1>5. CASE p # cur
  <2>1. PICK n \in Yields(c, p) :
          LET l == With(c, p, n) IN
          /\ TakeFrom(p, n)
          /\ token' = IF n = 0 THEN token
                      ELSE [token EXCEPT ![c].currentProducer = p,
                                         ![c].itemsConsumedFromCurrent = n]
          /\ con' = [con EXCEPT ![c] =
               IF l.max = 0 THEN Idle ELSE [l EXCEPT !.ptr = NextProd(@, con[c].tail)]]
    BY <1>5 DEF Around
  <2> DEFINE l == With(c, p, n)
  <2> DEFINE moved == n # 0
  <2> DEFINE t == IF moved THEN [token[c] EXCEPT !.currentProducer = p,
                                                 !.itemsConsumedFromCurrent = n]
                  ELSE token[c]
  <2> DEFINE f == [l EXCEPT !.ptr = NextProd(p, con[c].tail)]
  <2>2. /\ n \in 0 .. con[c].max /\ n \in 0 .. MaxBulk
        /\ l \in CallType /\ l.max \in 0 .. MaxBulk /\ l.asked \in SUBSET Producers
        /\ con[c].asked \subseteq l.asked /\ (l.max # 0 => p \in l.asked) /\ l.ptr = p
        /\ l = [con[c] EXCEPT !.max = l.max, !.asked = l.asked]
    <3>1. con[c].max \in 0 .. MaxBulk
      BY <1>1 DEF CallType
    <3>2. /\ n \in 0 .. con[c].max /\ l \in CallType
          /\ con[c].asked \subseteq l.asked /\ (l.max # 0 => p \in l.asked) /\ l.ptr = p
      BY <1>3, CallWith
    <3>3. l = [con[c] EXCEPT !.max = l.max, !.asked = l.asked]
      BY <1>1 DEF With, CallType
    <3> HIDE DEF l
    <3>4. l.max \in 0 .. MaxBulk /\ l.asked \in SUBSET Producers
      BY <3>2 DEF CallType
    <3> QED
      BY <3>1, <3>2, <3>3, <3>4, ConsumerTokensAssumption
  <2>3. items' \in [Producers -> 0 .. MaxItems]
    BY <1>3, <2>1, CallWith DEF TakeFrom
  <2>4. /\ token' = [token EXCEPT ![c] = t]
        /\ con' = [con EXCEPT ![c] = IF l.max = 0 THEN Idle ELSE f]
    BY <1>1, <2>1, <2>2 DEF IInv
  <2> HIDE DEF l
  <2>5. /\ t \in TokenType /\ t.desiredProducer = token[c].desiredProducer
        /\ t.currentProducer = IF moved THEN p ELSE cur
    <3>1. n \in 0 .. QUOTA + MaxBulk /\ p \in Nat
      BY <1>3, <2>2, ConsumerTokensAssumption
    <3> QED
      BY <1>1, <3>1 DEF TokenType
  <2>6. TokenInv(t, producerListTail)
    BY <1>1, <1>2, <1>3, <2>5 DEF TokenInv, Null
  <2>7. CASE l.max = 0
    <3>1. Idle \in CallType /\ CallInv(Idle, t, producerListTail)
      BY <1>1, <2>5, IdleCall
    <3> QED
      BY <2>1, <2>3, <2>4, <2>5, <2>6, <2>7, <3>1, OneConsumerMoves DEF Around, IInv, QueueInv
  <2>8. CASE l.max # 0
    <3> DEFINE g == [con[c] EXCEPT !.max = l.max, !.asked = l.asked,
                                   !.ptr = NextProd(p, con[c].tail)]
    <3>1. g \in CallType /\ RoundInv(g, IF moved THEN p ELSE cur)
      BY <1>1, <1>2, <1>5, <2>2, <2>8, RoundGoesOn
    <3>2. f = g
      BY <1>1, <2>2 DEF CallType
    <3>3. /\ g.at = "around" /\ g.listed = con[c].listed /\ g.tail = con[c].tail
          /\ g.asked = l.asked
      BY <1>1 DEF CallType
    <3>4. t.currentProducer # Null /\ t.currentProducer \in g.asked
      BY <1>2, <1>3, <2>2, <2>5, <2>8, <3>3 DEF Null
    <3>5. RoundInv(g, t.currentProducer)
      BY <2>5, <3>1
    <3> HIDE DEF g, f, t, moved
    <3>6. CallInv(g, t, producerListTail)
      BY <1>2, <3>3, <3>4, <3>5
      DEF CallInv, ScoreInv, BestInv, OnwardInv, PlacingInv, CurrentInv, FailsInv
    <3> QED
      BY <2>1, <2>3, <2>4, <2>5, <2>6, <2>8, <3>1, <3>2, <3>6, OneConsumerMoves
      DEF Around, IInv, QueueInv
  <2> QED
    BY <2>7, <2>8
<1> QED
  BY <1>4, <1>5

------------------------------------------------------------------------------
(* The theorems.                                                            *)

LEMMA CallStep == ASSUME IInv, NEW c \in Consumers, Call(c) PROVE IInv'
BY ScoreStep, BestStep, OthersStep, PassStep, FailsStep, LoadTailStep, LoadCountStep,
   RotateStep, CurrentStep, TurnStep, AroundStep DEF Call

LEMMA CallBegins == ASSUME IInv, NEW c \in Consumers, BeginStep(c) PROVE IInv'
<1>1. CASE TryDequeue(c)
  <2>1. 1 \in 1 .. MaxBulk /\ FALSE \in BOOLEAN /\ "score" \in {"score", "pass"}
    BY ConsumerTokensAssumption
  <2>2. /\ con' = [con EXCEPT ![c] =
             LET l == [BeginCall("score", 1, FALSE) EXCEPT !.ptr = producerListTail]
             IN  IF l.ptr = Null THEN Return(l) ELSE l]
        /\ UNCHANGED <<queue, globalExplicitConsumerOffset, token>>
    BY <1>1 DEF TryDequeue
  <2> QED
    BY <2>1, <2>2, InOrderBegins
<1>2. ASSUME NEW max \in 1 .. MaxBulk, TryInOrder(c, max) PROVE IInv'
  BY <1>2, InOrderBegins DEF TryInOrder
<1>3. ASSUME NEW max \in 1 .. MaxBulk, NEW bulk \in Operations, TryWithToken(c, max, bulk)
      PROVE  IInv'
  BY <1>3, WithTokenBegins, ConsumerTokensAssumption
<1>4. ASSUME NEW max \in 1 .. MaxBulk, NEW p \in Producers, TryFromProducer(c, p, max)
      PROVE  IInv'
  BY <1>4, FromProducerStep
<1> QED
  BY <1>1, <1>2, <1>3, <1>4 DEF BeginStep

LEMMA TokensStep == IInv /\ [Next]_vars => IInv'
<1> SUFFICES ASSUME IInv, [Next]_vars PROVE IInv'
  OBVIOUS
<1>1. CASE CountProducer \/ ListProducer \/ \E p \in Producers : Enqueue(p)
  BY <1>1, ProducersStep
<1>2. ASSUME NEW c \in Consumers, ConstructConsumerToken(c) \/ BeginStep(c) \/ Call(c)
      PROVE  IInv'
  BY <1>2, ConstructStep, CallBegins, CallStep
<1>3. CASE UNCHANGED vars
  BY <1>3 DEF vars, IInv, QueueInv, TokenInv, CallInv, ScoreInv, BestInv, OnwardInv,
              PlacingInv, CurrentInv, RoundInv, FailsInv, Asked
<1> QED
  BY <1>1, <1>2, <1>3 DEF Next

\* The invariant: where every call stands, and whom it has asked.
THEOREM TokensInvariant == Spec => []IInv
BY InitialTokens, TokensStep, PTL DEF Spec

\* A call that gets less than it wants has asked every producer that was listed when it began
\* (concurrentqueue.h:1100-1101), whatever the others do meanwhile.
THEOREM CallsAskEverybody == Spec => []EverybodyIsAsked
<1>1. IInv => EverybodyIsAsked
  <2> SUFFICES ASSUME IInv, NEW c \in Consumers, con[c].at = "fails",
                      NEW p \in 1 .. con[c].listed
               PROVE  p \in con[c].asked
    BY DEF EverybodyIsAsked
  <2>1. /\ con[c].listed <= producerListTail /\ con[c].listed \in Nat
        /\ producerListTail \in Nat /\ Asked(con[c], 1, con[c].listed)
    BY DEF IInv, QueueInv, CallInv, FailsInv, CallType
  <2>2. p \in 1 .. producerListTail
    BY <2>1
  <2> QED
    BY <2>1, <2>2, ListedExist DEF Asked
<1> QED
  BY <1>1, TokensInvariant, PTL

\* No token divides by a count of zero (concurrentqueue.h:1384, 1396).
THEOREM NoDivisionByZero == Spec => []CountIsNotZero
<1>1. IInv => CountIsNotZero
  <2> SUFFICES ASSUME IInv, NEW c \in Consumers, con[c].at = "offset"
               PROVE  con[c].prods > 0
    BY DEF CountIsNotZero
  <2>1. PlacingInv(con[c], token[c], producerListTail)
    BY DEF IInv, CallInv
  <2> QED
    BY <2>1 DEF PlacingInv
<1> QED
  BY <1>1, TokensInvariant, PTL

\* Every variable has its type.
THEOREM TokensTypeCorrect == Spec => []TypeOK
<1>1. IInv => TypeOK
  <2> SUFFICES ASSUME IInv PROVE TypeOK
    OBVIOUS
  <2>1. producerListTail \in 0 .. MaxProducers
    BY ConsumerTokensAssumption DEF IInv, QueueInv
  <2>2. ASSUME NEW c \in Consumers
        PROVE  /\ token[c].lastKnownGlobalOffset \in 0 .. OffsetValues - 1
               /\ token[c].itemsConsumedFromCurrent \in 0 .. QUOTA + MaxBulk
               /\ {token[c].currentProducer, token[c].desiredProducer} \subseteq 0 .. producerListTail
               /\ con[c].at \in CallPlaces
               /\ con[c].max \in 0 .. MaxBulk /\ con[c].asked \subseteq Producers
    BY DEF IInv, QueueInv, TokenInv, TokenType, CallType
  <2> QED
    BY <2>1, <2>2 DEF IInv, QueueInv, TypeOK, CallPlaces
<1> QED
  BY <1>1, TokensInvariant, PTL
==============================================================================
