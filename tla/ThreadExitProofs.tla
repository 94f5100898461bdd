--------------------------- MODULE ThreadExitProofs ---------------------------
(***************************************************************************)
(* Theorems about the listeners of exiting threads, for one queue and any   *)
(* number of threads and producers: with two, OneOwner does not hold         *)
(* (MCThreadExitTwo).                                                      *)
(***************************************************************************)
EXTENDS ThreadExit, FiniteSetTheorems, TLAPS

Q == CHOOSE q : Queues = {q}
OneQueue == Queues = {Q}

\* The producer of a thread, from the call that obtains it until others may.
Has(t) == IF loc[t].at \in {"subscribe", "callback", "recyclable"} THEN loc[t].p
          ELSE hash[Q][t]

------------------------------------------------------------------------------
(* The inductive invariant                                                  *)

\* A thread has one listener at most, that of the producer it is entered with.
ThreadInv(t) ==
  /\ loc[t].at = "in" => tail[t] = hash[Q][t]
  /\ loc[t].at = "callback" => tail[t] = loc[t].p /\ hash[Q][t] = loc[t].p
  /\ loc[t].at \notin {"in", "callback"} => tail[t] = Null /\ hash[Q][t] = Null
  /\ loc[t].at \in {"subscribe", "callback", "recyclable", "next"} => loc[t].p \in Producers

\* Until it can be caught, a producer is one thread's; and it can be caught or is a thread's.
OwnersInv ==
  /\ \A t, u \in Threads : t # u /\ Has(t) # Null => Has(t) # Has(u)
  /\ \A t \in Threads : Has(t) # Null => Has(t) \in DOMAIN inactive /\ inactive[Has(t)] = FALSE
  /\ \A p \in DOMAIN inactive : inactive[p] \/ \E t \in Threads : Has(t) = p

IInv ==
  /\ TypeOK /\ OwnersInv
  /\ \A p \in Producers : next[p] = Null
  /\ \A t \in Threads : ThreadInv(t)

------------------------------------------------------------------------------
LEMMA TheQueue ==
  ASSUME ThreadExitAssumption, OneQueue
  PROVE  /\ Q \in Queues /\ Null \notin Producers /\ Producers = ProducersOf[Q]
         /\ \A p \in Producers : ParentOf(p) = Q
<1>1. Producers = ProducersOf[Q]
  BY DEF OneQueue, Producers
<1>2. \A p \in Producers : ParentOf(p) = Q
  BY <1>1 DEF OneQueue, ParentOf
<1> QED
  BY <1>1, <1>2 DEF OneQueue, ThreadExitAssumption

\* What the invariant says of the state's types.
LEMMA Types ==
  ASSUME ThreadExitAssumption, OneQueue, TypeOK
  PROVE  /\ hash[Q] \in [Threads -> (Producers \cap DOMAIN inactive) \cup {Null}]
         /\ DOMAIN hash = {Q} /\ DOMAIN inactive \subseteq Producers
         /\ DOMAIN inactive # {} => Q \in alive
         /\ \A t \in Threads : Has(t) \in Producers \cup {Null}
<1>1. /\ Q \in Queues /\ Producers = ProducersOf[Q]
      /\ hash[Q] \in [Threads -> (Producers \cap DOMAIN inactive) \cup {Null}]
  BY TheQueue DEF TypeOK
<1>2. DOMAIN inactive \subseteq Producers /\ (DOMAIN inactive # {} => Q \in alive)
  BY <1>1 DEF TypeOK, OneQueue
<1> QED
  BY <1>1, <1>2 DEF TypeOK, Has, OneQueue

\* The types after a step that leaves the queue alive.
LEMMA TypeStep ==
  ASSUME ThreadExitAssumption, OneQueue, TypeOK, alive' = alive,
         NEW h \in [Threads -> Producers \cup {Null}], DOMAIN hash' = {Q}, hash'[Q] = h,
         \A t \in Threads : h[t] \in DOMAIN inactive' \cup {Null},
         DOMAIN inactive' \subseteq Producers, DOMAIN inactive' # {} => Q \in alive,
         \A p \in DOMAIN inactive' : inactive'[p] \in BOOLEAN,
         next' \in [Producers -> Producers \cup {Null}],
         tail' \in [Threads -> Producers \cup {Null}],
         loc' \in [Threads -> [at : Places, p : Producers \cup {Null}]]
  PROVE  TypeOK'
<1>1. Q \in Queues /\ Producers = ProducersOf[Q]
  BY TheQueue, Types
<1>2. DOMAIN hash' = Queues
  BY DEF OneQueue
<1>3. \A q \in Queues :
        hash'[q] \in [Threads -> (ProducersOf[q] \cap DOMAIN inactive') \cup {Null}]
  BY <1>1, <1>2 DEF OneQueue
<1>4. DOMAIN inactive' \subseteq UNION {ProducersOf[q] : q \in alive'}
  BY <1>1
<1> QED
  BY <1>2, <1>3, <1>4 DEF TypeOK

\* The list of a thread has its tail, and no more.
LEMMA ListIsTail ==
  ASSUME TypeOK, Null \notin Producers, \A p \in Producers : next[p] = Null,
         NEW t \in Threads
  PROVE  ListOf(t) = {tail[t]} \ {Null}
<1>1. tail[t] \in Producers \cup {Null}
  BY DEF TypeOK
<1>2. ListOf(t) \subseteq {tail[t]} \ {Null}
  <2> DEFINE S == {tail[t]} \ {Null}
  <2>1. S \in SUBSET Producers /\ tail[t] \in S \cup {Null}
    BY <1>1
  <2>2. \A r \in S : next[r] \in S \cup {Null}
    BY <2>1
  <2> QED
    BY <2>1, <2>2 DEF ListOf
<1>3. ASSUME tail[t] # Null
      PROVE  tail[t] \in ListOf(t)
  BY <1>1, <1>3 DEF ListOf
<1> QED
  BY <1>2, <1>3

LEMMA UnsubscribeStep ==
  ASSUME TypeOK, Null \notin Producers, \A p \in Producers : next[p] = Null,
         NEW t \in Threads, NEW p \in Producers, Unsubscribe(t, p)
  PROVE  /\ next' = next
         /\ tail' = [tail EXCEPT ![t] = IF @ = p THEN Null ELSE @]
<1>1. ListOf(t) = {tail[t]} \ {Null}
  BY ListIsTail
<1>2. next \in [Producers -> Producers \cup {Null}] /\ tail \in [Threads -> Producers \cup {Null}]
  BY DEF TypeOK
<1>3. CASE tail[t] = p
  <2>1. p \in ListOf(t)
    BY <1>1, <1>3
  <2>2. next' = [r \in Producers |-> IF r \in ListOf(t) /\ next[r] = p THEN next[p] ELSE next[r]]
    BY <2>1 DEF Unsubscribe
  <2>3. next' = next
    BY <1>2, <2>2
  <2>4. tail' = [tail EXCEPT ![t] = IF @ = p THEN next[p] ELSE @]
    BY <2>1 DEF Unsubscribe
  <2> QED
    BY <1>3, <2>3, <2>4
<1>4. CASE tail[t] # p
  <2>1. p \notin ListOf(t)
    BY <1>1, <1>4
  <2>2. next' = next /\ tail' = tail
    BY <2>1 DEF Unsubscribe, lists
  <2> QED
    BY <1>2, <1>4, <2>2
<1> QED
  BY <1>3, <1>4

\* Who has what after a step of one thread that takes nothing from anybody.
LEMMA OwnersStep ==
  ASSUME ThreadExitAssumption, OneQueue, IInv, NEW t \in Threads,
         \A u \in Threads : u # t => Has(u)' = Has(u),
         \/ Has(t)' = Has(t) /\ inactive' = inactive
         \/ /\ Has(t) = Null /\ Has(t)' \in Producers
            /\ Has(t)' \in DOMAIN inactive => inactive[Has(t)']
            /\ inactive' = [r \in DOMAIN inactive \cup {Has(t)'} |->
                              IF r = Has(t)' THEN FALSE ELSE inactive[r]]
         \/ /\ Has(t) # Null /\ Has(t)' = Null
            /\ inactive' = [inactive EXCEPT ![Has(t)] = TRUE]
  PROVE  OwnersInv'
<1>1. /\ OwnersInv /\ Null \notin Producers /\ \A u \in Threads : Has(u) \in Producers \cup {Null}
      /\ \A p \in DOMAIN inactive : inactive[p] \in BOOLEAN
      /\ DOMAIN inactive \subseteq Producers
  BY TheQueue, Types DEF IInv, TypeOK
<1>2. CASE Has(t)' = Has(t) /\ inactive' = inactive
  BY <1>1, <1>2 DEF OwnersInv
<1>3. CASE /\ Has(t) = Null /\ Has(t)' \in Producers
           /\ Has(t)' \in DOMAIN inactive => inactive[Has(t)']
           /\ inactive' = [r \in DOMAIN inactive \cup {Has(t)'} |->
                             IF r = Has(t)' THEN FALSE ELSE inactive[r]]
  <2>1. \A u \in Threads : Has(u) # Has(t)'
    BY <1>1, <1>3 DEF OwnersInv
  <2>2. \A u, v \in Threads : u # v /\ Has(u)' # Null => Has(u)' # Has(v)'
    BY <1>1, <2>1 DEF OwnersInv
  <2>3. ASSUME NEW u \in Threads, Has(u)' # Null
        PROVE  Has(u)' \in DOMAIN inactive' /\ inactive'[Has(u)'] = FALSE
    <3>1. CASE u = t
      BY <1>3, <3>1
    <3>2. CASE u # t
      <4>1. /\ Has(u)' = Has(u) /\ Has(u) # Has(t)' /\ Has(u) \in DOMAIN inactive
            /\ inactive[Has(u)] = FALSE
        BY <1>1, <2>1, <2>3, <3>2 DEF OwnersInv
      <4> QED
        BY <1>3, <4>1
    <3> QED
      BY <3>1, <3>2
  <2>4. ASSUME NEW p \in DOMAIN inactive'
        PROVE  inactive'[p] \/ \E u \in Threads : Has(u)' = p
    <3>1. CASE p = Has(t)'
      BY <3>1
    <3>2. CASE p # Has(t)'
      <4>1. p \in DOMAIN inactive /\ inactive'[p] = inactive[p] /\ p # Null
        BY <1>1, <1>3, <3>2
      <4>2. inactive[p] \/ \E u \in Threads : Has(u) = p
        BY <1>1, <4>1 DEF OwnersInv
      <4> QED
        BY <1>3, <4>1, <4>2
    <3> QED
      BY <3>1, <3>2
  <2> QED
    BY <2>2, <2>3, <2>4 DEF OwnersInv
<1>4. CASE /\ Has(t) # Null /\ Has(t)' = Null
           /\ inactive' = [inactive EXCEPT ![Has(t)] = TRUE]
  <2>1. \A u \in Threads : u # t => Has(u) # Has(t)
    BY <1>1, <1>4 DEF OwnersInv
  <2>2. \A u, v \in Threads : u # v /\ Has(u)' # Null => Has(u)' # Has(v)'
    BY <1>1, <1>4 DEF OwnersInv
  <2>3. \A u \in Threads : Has(u)' # Null =>
          Has(u)' \in DOMAIN inactive' /\ inactive'[Has(u)'] = FALSE
    BY <1>1, <1>4, <2>1 DEF OwnersInv
  <2>4. ASSUME NEW p \in DOMAIN inactive'
        PROVE  inactive'[p] \/ \E u \in Threads : Has(u)' = p
    <3>1. p \in DOMAIN inactive
      BY <1>4
    <3>2. CASE p = Has(t)
      BY <1>4, <3>1, <3>2
    <3>3. CASE p # Has(t)
      BY <1>1, <1>4, <3>1, <3>3 DEF OwnersInv
    <3> QED
      BY <3>2, <3>3
  <2> QED
    BY <2>2, <2>3, <2>4 DEF OwnersInv
<1> QED
  BY <1>2, <1>3, <1>4

------------------------------------------------------------------------------
(* The steps                                                                *)

\* A step that changes only what thread t is at.
LEMMA PlaceStep ==
  ASSUME ThreadExitAssumption, OneQueue, IInv, NEW t \in Threads,
         NEW l \in [at : Places, p : Producers \cup {Null}], loc' = [loc EXCEPT ![t] = l],
         hash' = hash, next' = next, tail' = tail, alive' = alive, inactive' = inactive,
         ThreadInv(t)', Has(t)' = Has(t)
  PROVE  IInv'
<1>1. loc' \in [Threads -> [at : Places, p : Producers \cup {Null}]]
  BY DEF IInv, TypeOK
<1>2. TypeOK'
  BY <1>1 DEF IInv, TypeOK
<1>3. \A u \in Threads : u # t => loc'[u] = loc[u]
  BY DEF IInv, TypeOK
<1>4. \A u \in Threads : u # t => Has(u)' = Has(u)
  BY <1>3 DEF Has
<1>5. OwnersInv'
  BY <1>4, OwnersStep
<1>6. \A u \in Threads : ThreadInv(u)'
  BY <1>3 DEF IInv, ThreadInv
<1> QED
  BY <1>2, <1>5, <1>6 DEF IInv

LEMMA StartStep ==
  ASSUME ThreadExitAssumption, OneQueue, IInv, NEW t \in Threads, Start(t)
  PROVE  IInv'
<1>1. /\ At("in", Null) \in [at : Places, p : Producers \cup {Null}] /\ loc'[t] = At("in", Null)
      /\ loc[t].at = "out" /\ hash' = hash /\ tail' = tail
  BY DEF At, Places, Start, IInv, TypeOK, lists
<1>2. ThreadInv(t)' /\ Has(t)' = Has(t)
  BY <1>1 DEF IInv, ThreadInv, Has, At
<1> QED
  BY <1>1, <1>2, PlaceStep DEF Start, lists

LEMMA ExitStep ==
  ASSUME ThreadExitAssumption, OneQueue, IInv, NEW t \in Threads, Exit(t)
  PROVE  IInv'
<1>1. /\ tail[t] \in Producers \cup {Null} /\ loc[t].at = "in" /\ ThreadInv(t)
      /\ loc'[t] = Visit(tail[t]) /\ hash' = hash /\ tail' = tail
  BY DEF Exit, IInv, TypeOK, lists
<1>2. /\ Visit(tail[t]) \in [at : Places, p : Producers \cup {Null}]
      /\ tail[t] # Null => Visit(tail[t]).at = "callback" /\ Visit(tail[t]).p = tail[t]
      /\ tail[t] = Null => Visit(tail[t]).at = "out"
  BY <1>1 DEF Visit, At, Places
<1>3. ThreadInv(t)' /\ Has(t)' = Has(t)
  BY <1>1, <1>2 DEF ThreadInv, Has
<1> QED
  BY <1>1, <1>2, <1>3, PlaceStep DEF Exit, lists

LEMMA NextListenerStep ==
  ASSUME ThreadExitAssumption, OneQueue, IInv, NEW t \in Threads, NextListener(t)
  PROVE  IInv'
<1>1. /\ loc[t].at = "next" /\ ThreadInv(t) /\ loc' = [loc EXCEPT ![t] = Visit(next[loc[t].p])]
      /\ hash' = hash /\ tail' = tail /\ loc[t].p \in Producers
  BY DEF NextListener, IInv, TypeOK, lists, ThreadInv
<1>2. Visit(next[loc[t].p]) = At("out", Null)
  BY <1>1 DEF IInv, Visit
<1>3. loc'[t] = At("out", Null) /\ At("out", Null) \in [at : Places, p : Producers \cup {Null}]
  BY <1>1, <1>2 DEF IInv, TypeOK, At, Places
<1>4. ThreadInv(t)' /\ Has(t)' = Has(t)
  BY <1>1, <1>3 DEF ThreadInv, Has, At
<1> QED
  BY <1>1, <1>2, <1>3, <1>4, PlaceStep DEF NextListener, lists

\* A step in which thread t, its entry and its list change.
LEMMA ThreadStep ==
  ASSUME ThreadExitAssumption, OneQueue, IInv, NEW t \in Threads, alive' = alive, next' = next,
         loc' \in [Threads -> [at : Places, p : Producers \cup {Null}]],
         tail' \in [Threads -> Producers \cup {Null}],
         DOMAIN hash' = {Q}, hash'[Q] \in [Threads -> Producers \cup {Null}],
         \A u \in Threads : u # t => /\ loc'[u] = loc[u] /\ tail'[u] = tail[u]
                                     /\ hash'[Q][u] = hash[Q][u],
         ThreadInv(t)', hash'[Q][t] \in DOMAIN inactive' \cup {Null},
         Q \in alive, DOMAIN inactive' \subseteq Producers,
         \/ Has(t)' = Has(t) /\ inactive' = inactive
         \/ /\ Has(t) = Null /\ Has(t)' \in Producers
            /\ Has(t)' \in DOMAIN inactive => inactive[Has(t)']
            /\ inactive' = [r \in DOMAIN inactive \cup {Has(t)'} |->
                              IF r = Has(t)' THEN FALSE ELSE inactive[r]]
         \/ /\ Has(t) # Null /\ Has(t)' = Null
            /\ inactive' = [inactive EXCEPT ![Has(t)] = TRUE]
  PROVE  IInv'
<1>1. /\ TypeOK /\ hash[Q] \in [Threads -> (Producers \cap DOMAIN inactive) \cup {Null}]
      /\ next \in [Producers -> Producers \cup {Null}]
      /\ \A r \in DOMAIN inactive : inactive[r] \in BOOLEAN
  BY Types DEF IInv, TypeOK
<1>2. DOMAIN inactive \subseteq DOMAIN inactive'
  OBVIOUS
<1>3. ASSUME NEW p \in DOMAIN inactive'
      PROVE  inactive'[p] \in BOOLEAN
  <2>1. CASE inactive' = inactive
    BY <1>1, <2>1
  <2>2. CASE inactive' = [r \in DOMAIN inactive \cup {Has(t)'} |->
                            IF r = Has(t)' THEN FALSE ELSE inactive[r]]
    <3>1. p # Has(t)' => p \in DOMAIN inactive
      BY <2>2
    <3> QED
      BY <1>1, <2>2, <3>1
  <2>3. CASE inactive' = [inactive EXCEPT ![Has(t)] = TRUE]
    <3>1. p \in DOMAIN inactive
      BY <2>3
    <3> QED
      BY <1>1, <2>3, <3>1
  <2> QED
    BY <2>1, <2>2, <2>3
<1>4. \A u \in Threads : hash'[Q][u] \in DOMAIN inactive' \cup {Null}
  BY <1>1, <1>2
<1>5. TypeOK'
  BY <1>1, <1>3, <1>4, TypeStep
<1>6. \A u \in Threads : u # t => Has(u)' = Has(u) /\ ThreadInv(u)'
  BY DEF Has, ThreadInv, IInv
<1>7. OwnersInv'
  BY <1>6, OwnersStep
<1> QED
  BY <1>5, <1>6, <1>7 DEF IInv

\* What the invariant gives a step of thread t.
LEMMA Before ==
  ASSUME ThreadExitAssumption, OneQueue, IInv, NEW t \in Threads
  PROVE  /\ ThreadInv(t) /\ OwnersInv /\ TypeOK /\ \A r \in Producers : next[r] = Null
         /\ next \in [Producers -> Producers \cup {Null}] /\ DOMAIN inactive \subseteq Producers
         /\ \A r \in DOMAIN inactive : inactive[r] \in BOOLEAN
         /\ tail \in [Threads -> Producers \cup {Null}] /\ DOMAIN hash = {Q}
         /\ hash[Q] \in [Threads -> Producers \cup {Null}]
         /\ loc \in [Threads -> [at : Places, p : Producers \cup {Null}]]
         /\ DOMAIN inactive # {} => Q \in alive
         /\ Null \notin Producers /\ Producers = ProducersOf[Q]
         /\ \A p \in Producers : ParentOf(p) = Q
  BY Types, TheQueue DEF IInv, TypeOK

LEMMA RecycleOrCreateStep ==
  ASSUME ThreadExitAssumption, OneQueue, IInv, NEW t \in Threads, NEW p \in Producers,
         RecycleOrCreate(t, p)
  PROVE  IInv'
<1>1. /\ loc[t].at = "in" /\ Q \in alive /\ hash[Q][t] = Null /\ tail[t] = Null
      /\ p \in DOMAIN inactive => inactive[p]
  BY Before DEF RecycleOrCreate, ThreadInv
<1>2. /\ inactive' = [r \in DOMAIN inactive \cup {p} |-> IF r = p THEN FALSE ELSE inactive[r]]
      /\ alive' = alive /\ hash' = hash /\ next' = next /\ tail' = tail
      /\ loc' = [loc EXCEPT ![t] = At("subscribe", p)]
  BY DEF RecycleOrCreate, lists
<1>3. /\ loc' \in [Threads -> [at : Places, p : Producers \cup {Null}]]
      /\ loc'[t].at = "subscribe" /\ loc'[t].p = p
      /\ \A u \in Threads : u # t => loc'[u] = loc[u]
  BY <1>2, Before DEF At, Places
<1>4. Has(t) = Null /\ Has(t)' = p
  BY <1>1, <1>3 DEF Has
<1>5. ThreadInv(t)'
  BY <1>1, <1>2, <1>3 DEF ThreadInv
<1>6. /\ Has(t)' \in Producers /\ Has(t)' \in DOMAIN inactive => inactive[Has(t)']
      /\ inactive' = [r \in DOMAIN inactive \cup {Has(t)'} |->
                        IF r = Has(t)' THEN FALSE ELSE inactive[r]]
  BY <1>1, <1>2, <1>4
<1>7. DOMAIN inactive' \subseteq Producers
  BY <1>2, Before
<1> QED
  BY <1>1, <1>2, <1>3, <1>4, <1>5, <1>6, <1>7, Before, ThreadStep

LEMMA SubscribeStep ==
  ASSUME ThreadExitAssumption, OneQueue, IInv, NEW t \in Threads, Subscribe(t)
  PROVE  IInv'
<1> DEFINE p == loc[t].p
<1>1. /\ loc[t].at = "subscribe" /\ p \in Producers /\ tail[t] = Null /\ Has(t) = p
      /\ ParentOf(p) = Q
  BY Before DEF Subscribe, ThreadInv, Has
<1>2. p \in DOMAIN inactive /\ Q \in alive
  BY <1>1, Before DEF OwnersInv
<1>3. /\ next' = [next EXCEPT ![p] = tail[t]] /\ tail' = [tail EXCEPT ![t] = p]
      /\ hash' = [hash EXCEPT ![Q][t] = p] /\ loc' = [loc EXCEPT ![t] = At("in", Null)]
      /\ alive' = alive /\ inactive' = inactive
  BY <1>1 DEF Subscribe
<1> HIDE DEF p
<1>4. /\ loc' \in [Threads -> [at : Places, p : Producers \cup {Null}]] /\ loc'[t].at = "in"
      /\ \A u \in Threads : u # t => loc'[u] = loc[u]
  BY <1>3, Before DEF At, Places
<1>5. next' = next
  BY <1>1, <1>3, Before
<1>6. /\ tail' \in [Threads -> Producers \cup {Null}] /\ tail'[t] = p
      /\ \A u \in Threads : u # t => tail'[u] = tail[u]
  BY <1>1, <1>3, Before
<1>7. /\ DOMAIN hash' = {Q} /\ hash'[Q] \in [Threads -> Producers \cup {Null}]
      /\ hash'[Q][t] = p /\ \A u \in Threads : u # t => hash'[Q][u] = hash[Q][u]
  BY <1>1, <1>3, Before
<1>8. Has(t)' = Has(t)
  BY <1>1, <1>4, <1>7 DEF Has
<1>9. ThreadInv(t)'
  BY <1>4, <1>6, <1>7 DEF ThreadInv
<1> QED
  BY <1>2, <1>3, <1>4, <1>5, <1>6, <1>7, <1>8, <1>9, Before, ThreadStep

LEMMA CallbackStep ==
  ASSUME ThreadExitAssumption, OneQueue, IInv, NEW t \in Threads, Callback(t)
  PROVE  IInv'
<1> DEFINE p == loc[t].p
<1>1. /\ loc[t].at = "callback" /\ p \in Producers /\ tail[t] = p /\ Has(t) = p
      /\ ParentOf(p) = Q
  BY Before DEF Callback, ThreadInv, Has
<1>2. p \in DOMAIN inactive /\ Q \in alive
  BY <1>1, Before DEF OwnersInv
<1>3. /\ hash' = [hash EXCEPT ![Q][t] = Null] /\ alive' = alive /\ inactive' = inactive
      /\ loc' = [loc EXCEPT ![t].at = "recyclable"]
  BY <1>1 DEF Callback
<1>4. /\ loc' \in [Threads -> [at : Places, p : Producers \cup {Null}]]
      /\ loc'[t].at = "recyclable" /\ loc'[t].p = p
      /\ \A u \in Threads : u # t => loc'[u] = loc[u]
  BY <1>3, Before DEF Places
<1>5. /\ next' = next /\ tail' \in [Threads -> Producers \cup {Null}] /\ tail'[t] = Null
      /\ \A u \in Threads : u # t => tail'[u] = tail[u]
  <2>1. Unsubscribe(t, p)
    BY DEF Callback
  <2> HIDE DEF p
  <2>2. next' = next /\ tail' = [tail EXCEPT ![t] = IF @ = p THEN Null ELSE @]
    BY <1>1, <2>1, Before, UnsubscribeStep
  <2> QED
    BY <1>1, <2>2, Before
<1>6. /\ DOMAIN hash' = {Q} /\ hash'[Q] \in [Threads -> Producers \cup {Null}]
      /\ hash'[Q][t] = Null /\ \A u \in Threads : u # t => hash'[Q][u] = hash[Q][u]
  BY <1>3, Before
<1>7. Has(t)' = Has(t)
  BY <1>1, <1>4 DEF Has
<1>8. ThreadInv(t)'
  BY <1>1, <1>4, <1>5, <1>6 DEF ThreadInv
<1> QED
  BY <1>2, <1>3, <1>4, <1>5, <1>6, <1>7, <1>8, Before, ThreadStep

LEMMA MarkRecyclableStep ==
  ASSUME ThreadExitAssumption, OneQueue, IInv, NEW t \in Threads, MarkRecyclable(t)
  PROVE  IInv'
<1> DEFINE p == loc[t].p
<1>1. /\ loc[t].at = "recyclable" /\ p \in Producers /\ tail[t] = Null /\ Has(t) = p
      /\ hash[Q][t] = Null
  BY Before DEF MarkRecyclable, ThreadInv, Has
<1>2. p \in DOMAIN inactive /\ Q \in alive /\ Has(t) # Null
  BY <1>1, Before DEF OwnersInv
<1>3. /\ inactive' = [inactive EXCEPT ![p] = TRUE] /\ alive' = alive /\ hash' = hash
      /\ next' = next /\ tail' = tail /\ loc' = [loc EXCEPT ![t].at = "next"]
  BY DEF MarkRecyclable, lists
<1>4. /\ loc' \in [Threads -> [at : Places, p : Producers \cup {Null}]]
      /\ loc'[t].at = "next" /\ loc'[t].p = p
      /\ \A u \in Threads : u # t => loc'[u] = loc[u]
  BY <1>3, Before DEF Places
<1>5. Has(t)' = Null
  BY <1>1, <1>3, <1>4 DEF Has
<1>6. inactive' = [inactive EXCEPT ![Has(t)] = TRUE]
  BY <1>1, <1>3
<1>7. ThreadInv(t)'
  BY <1>1, <1>3, <1>4 DEF ThreadInv
<1>8. DOMAIN inactive' \subseteq Producers
  BY <1>3, Before
<1> QED
  BY <1>1, <1>2, <1>3, <1>4, <1>5, <1>6, <1>7, <1>8, Before, ThreadStep

\* No other thread has anything of the queue that is destroyed, and t has nothing left.
LEMMA DestroyQueueStep ==
  ASSUME ThreadExitAssumption, OneQueue, IInv, NEW t \in Threads, NEW q \in Queues,
         DestroyQueue(t, q)
  PROVE  IInv'
<1>1. /\ TypeOK /\ OwnersInv /\ ThreadInv(t) /\ \A r \in Producers : next[r] = Null
      /\ next \in [Producers -> Producers \cup {Null}] /\ DOMAIN inactive \subseteq Producers
      /\ tail \in [Threads -> Producers \cup {Null}] /\ DOMAIN hash = {Q}
      /\ hash[Q] \in [Threads -> (Producers \cap DOMAIN inactive) \cup {Null}]
      /\ loc \in [Threads -> [at : Places, p : Producers \cup {Null}]] /\ alive \subseteq Queues
      /\ q = Q /\ Producers = ProducersOf[Q] /\ Null \notin Producers
  BY Types, TheQueue DEF IInv, TypeOK, OneQueue
<1>2. /\ loc[t].at = "in" /\ alive' = alive \ {Q} /\ loc' = loc
      /\ \A u \in Threads \ {t} : hash[Q][u] = Null /\ loc[u].p \notin Producers
      /\ hash' = [hash EXCEPT ![Q] = [u \in Threads |-> Null]]
      /\ inactive' = [p \in DOMAIN inactive \ Producers |-> inactive[p]]
  BY <1>1 DEF DestroyQueue
<1>3. next' = next /\ tail' = [tail EXCEPT ![t] = Null]
  <2>1. tail[t] = hash[Q][t]
    BY <1>1, <1>2 DEF ThreadInv
  <2>2. CASE hash[Q][t] = Null
    BY <1>1, <2>1, <2>2 DEF DestroyQueue, lists
  <2>3. CASE hash[Q][t] # Null
    <3>1. hash[Q][t] \in Producers /\ Unsubscribe(t, hash[Q][t])
      BY <1>1, <2>3 DEF DestroyQueue
    <3>2. next' = next /\ tail' = [tail EXCEPT ![t] = IF @ = hash[Q][t] THEN Null ELSE @]
      BY <1>1, <3>1, UnsubscribeStep
    <3> QED
      BY <2>1, <3>2
  <2> QED
    BY <2>2, <2>3
<1>4. /\ hash'[Q] = [u \in Threads |-> Null] /\ DOMAIN hash' = Queues
      /\ \A u \in Threads : hash'[Q][u] = Null
      /\ DOMAIN inactive' = {}
  BY <1>1, <1>2 DEF OneQueue
<1>5. TypeOK'
  <2>1. tail' \in [Threads -> Producers \cup {Null}] /\ alive' \subseteq Queues
    BY <1>1, <1>2, <1>3
  <2>2. \A r \in Queues :
          hash'[r] \in [Threads -> (ProducersOf[r] \cap DOMAIN inactive') \cup {Null}]
    BY <1>4 DEF OneQueue
  <2> QED
    BY <1>1, <1>2, <1>3, <1>4, <2>1, <2>2 DEF TypeOK
<1>6. ASSUME NEW u \in Threads
      PROVE  ThreadInv(u)' /\ Has(u)' = Null
  <2>1. CASE u = t
    BY <1>1, <1>2, <1>3, <1>4, <2>1 DEF ThreadInv, Has
  <2>2. CASE u # t
    <3>1. ThreadInv(u) /\ loc[u].p \notin Producers /\ hash[Q][u] = Null
      BY <1>2, <2>2 DEF IInv
    <3>2. /\ tail'[u] = tail[u] /\ loc[u].at \notin {"subscribe", "callback", "recyclable", "next"}
          /\ tail[u] = Null
      BY <1>1, <1>3, <2>2, <3>1 DEF ThreadInv
    <3> QED
      BY <1>2, <1>4, <3>2 DEF ThreadInv, Has
  <2> QED
    BY <2>1, <2>2
<1>7. OwnersInv'
  BY <1>4, <1>6 DEF OwnersInv
<1> QED
  BY <1>1, <1>3, <1>5, <1>6, <1>7 DEF IInv

------------------------------------------------------------------------------
LEMMA InitStep ==
  ASSUME ThreadExitAssumption, OneQueue, Init
  PROVE  IInv
<1>1. /\ hash = [q \in Queues |-> [t \in Threads |-> Null]] /\ alive = Queues
      /\ inactive = [p \in {} |-> FALSE] /\ DOMAIN inactive = {}
      /\ next = [p \in Producers |-> Null] /\ tail = [t \in Threads |-> Null]
      /\ loc = [t \in Threads |-> [at |-> "out", p |-> Null]]
  BY DEF Init, At
<1>2. /\ \A t \in Threads : hash[Q][t] = Null /\ loc[t].at = "out" /\ tail[t] = Null
      /\ \A p \in Producers : next[p] = Null
  BY <1>1, TheQueue
<1>3. TypeOK
  <2>1. \A q \in Queues :
          hash[q] \in [Threads -> (ProducersOf[q] \cap DOMAIN inactive) \cup {Null}]
    BY <1>1
  <2>2. loc \in [Threads -> [at : Places, p : Producers \cup {Null}]]
    BY <1>1 DEF Places
  <2> QED
    BY <1>1, <2>1, <2>2 DEF TypeOK
<1>4. \A t \in Threads : ThreadInv(t) /\ Has(t) = Null
  BY <1>2 DEF ThreadInv, Has
<1>5. OwnersInv
  BY <1>1, <1>4 DEF OwnersInv
<1> QED
  BY <1>2, <1>3, <1>4, <1>5 DEF IInv

LEMMA StutterStep ==
  ASSUME IInv, UNCHANGED vars
  PROVE  IInv'
<1>1. \A t \in Threads : Has(t)' = Has(t) /\ (ThreadInv(t) => ThreadInv(t)')
  BY DEF vars, lists, Has, ThreadInv
<1>2. TypeOK'
  BY DEF vars, lists, IInv, TypeOK
<1>3. OwnersInv'
  BY <1>1 DEF vars, lists, IInv, OwnersInv
<1> QED
  BY <1>1, <1>2, <1>3 DEF vars, lists, IInv

LEMMA Invariant ==
  ASSUME ThreadExitAssumption, OneQueue
  PROVE  Spec => []IInv
<1>1. Init => IInv
  BY InitStep
<1>2. IInv /\ [Next]_vars => IInv'
  <2>1. ASSUME IInv, NEW t \in Threads,
               \/ Start(t) \/ Subscribe(t) \/ Exit(t) \/ Callback(t) \/ MarkRecyclable(t)
               \/ NextListener(t)
               \/ \E p \in Producers : RecycleOrCreate(t, p)
               \/ \E q \in Queues : DestroyQueue(t, q)
        PROVE  IInv'
    BY <2>1, StartStep, SubscribeStep, ExitStep, CallbackStep, MarkRecyclableStep,
       NextListenerStep, RecycleOrCreateStep, DestroyQueueStep
  <2>2. ASSUME IInv, UNCHANGED vars
        PROVE  IInv'
    BY <2>2, StutterStep
  <2> QED
    BY <2>1, <2>2 DEF Next
<1> QED
  BY <1>1, <1>2, PTL DEF Spec

------------------------------------------------------------------------------
\* A producer's users are among the threads that have it.
LEMMA UsersHave ==
  ASSUME ThreadExitAssumption, OneQueue, IInv, NEW p \in Producers, NEW t \in Threads
  PROVE  Uses(t, p) => Has(t) = p
<1>1. /\ ParentOf(p) = Q /\ Null \notin Producers /\ ThreadInv(t)
  BY TheQueue DEF IInv
<1> QED
  BY <1>1 DEF Uses, Has, ThreadInv, At

LEMMA InvariantSuffices ==
  ASSUME ThreadExitAssumption, OneQueue, IInv
  PROVE  ExitInv
<1>1. /\ Null \notin Producers /\ Producers = ProducersOf[Q] /\ Queues = {Q}
      /\ \A p \in Producers : ParentOf(p) = Q
      /\ TypeOK /\ DOMAIN inactive \subseteq Producers /\ OwnersInv
      /\ \A t \in Threads : ThreadInv(t)
  BY TheQueue, Types DEF OneQueue, IInv
<1>2. OneOwner
  <2> SUFFICES ASSUME NEW p \in DOMAIN inactive
               PROVE  /\ inactive[p] => \A t \in Threads : ~Uses(t, p)
                      /\ Cardinality({t \in Threads : Uses(t, p)}) <= 1
    BY DEF OneOwner
  <2>1. \A t \in Threads : Uses(t, p) => Has(t) = p
    BY <1>1, UsersHave
  <2>2. inactive[p] => \A t \in Threads : ~Uses(t, p)
    BY <1>1, <2>1 DEF OwnersInv
  <2>3. ASSUME \A t \in Threads : ~Uses(t, p)
        PROVE  Cardinality({t \in Threads : Uses(t, p)}) <= 1
    <3>1. {t \in Threads : Uses(t, p)} = {}
      BY <2>3
    <3> QED
      BY <3>1, FS_EmptySet
  <2>4. ASSUME NEW t \in Threads, Uses(t, p)
        PROVE  Cardinality({u \in Threads : Uses(u, p)}) <= 1
    <3>1. Uses(t, p)
      BY <2>4
    <3>2. \A u \in Threads : Uses(u, p) => u = t
      BY <1>1, <2>1, <3>1 DEF OwnersInv
    <3>3. {u \in Threads : Uses(u, p)} = {t}
      BY <3>1, <3>2
    <3> QED
      BY <3>3, FS_Singleton
  <2>5. Cardinality({t \in Threads : Uses(t, p)}) <= 1
    BY <2>3, <2>4
  <2> QED
    BY <2>2, <2>5
<1>3. EveryoneKnows
  BY <1>1 DEF EveryoneKnows, ThreadInv
<1>4. NoneIsForgotten
  <2> SUFFICES ASSUME NEW p \in DOMAIN inactive, ~inactive[p]
               PROVE  \E t \in Threads : Uses(t, p) \/ loc[t] = At("recyclable", p)
    BY DEF NoneIsForgotten
  <2>1. PICK t \in Threads : Has(t) = p
    BY <1>1 DEF OwnersInv
  <2>2. /\ loc[t] \in [at : Places, p : Producers \cup {Null}] /\ p \in Producers
        /\ ParentOf(p) = Q /\ ThreadInv(t)
    BY <1>1 DEF TypeOK
  <2>3. loc[t] = [at |-> loc[t].at, p |-> loc[t].p]
    BY <2>2
  <2> QED
    BY <2>1, <2>2, <2>3 DEF Has, Uses, At, ThreadInv
<1>5. ListsAreRight
  <2> SUFFICES ASSUME NEW t \in Threads, loc[t].at = "in"
               PROVE  ListOf(t) = {hash[q][t] : q \in Queues} \ {Null}
    BY DEF ListsAreRight
  <2>1. ListOf(t) = {tail[t]} \ {Null}
    BY <1>1, ListIsTail DEF IInv
  <2> QED
    BY <1>1, <2>1 DEF ThreadInv
<1> QED
  BY <1>1, <1>2, <1>3, <1>4, <1>5 DEF ExitInv

\* Of one queue, and with any number of threads and producers: a producer that can be caught
\* is no thread's, no two threads use the same one, nobody that has exited is in the table, no
\* producer is lost, and a thread's list holds the listener of its producer
\* (ThreadExitNotifier and implicit_producer_thread_exited, concurrentqueue.h:558-624, 3660).
THEOREM ExitsAreRight ==
  ASSUME ThreadExitAssumption, OneQueue
  PROVE  Spec => []ExitInv
<1>1. IInv => ExitInv
  BY InvariantSuffices
<1> QED
  BY <1>1, Invariant, PTL
==============================================================================
