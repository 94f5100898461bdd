--------------------------- MODULE ProducersProofs ---------------------------
(***************************************************************************)
(* The producers of a queue and their hash, for any number of threads, ids   *)
(* and tokens and for every hash function.                                   *)
(***************************************************************************)
EXTENDS Producers, FiniteSetTheorems, SequenceTheorems, TLAPS

Agents == Threads \cup Tokens
Slots == [key : Keys, value : Nat]
HashTables == UNION {[0 .. c - 1 -> Slots] : c \in Nat \ {0}}
ProducerRecords == [isExplicit : BOOLEAN, inactive : BOOLEAN, token : Tokens \cup {NoToken}]
Places == {"out", "idle", "use", "forget", "retire", "probe", "adopt", "count", "lock", "grow",
           "unlock", "room", "traverse", "uncount", "insert"}
Locals == [at : Places, id : Ids \cup {Null}, main : Nat, table : Nat, index : Nat, ptr : Nat,
           newCount : Nat, producer : Nat, listener : Nat]

\* Numbers of tables and of producers are in range.
LocalsInRange(l) ==
  /\ l.main <= Len(tables) /\ l.table <= Len(tables)
  /\ l.ptr <= Len(producers) /\ l.producer <= Len(producers) /\ l.listener <= Len(producers)

TypeInv ==
  /\ tables \in Seq(HashTables) /\ Len(tables) # 0
  /\ implicitProducerHashCount \in Int
  /\ implicitProducerHashResizeInProgress \in BOOLEAN /\ alive \in BOOLEAN
  /\ producers \in Seq(ProducerRecords)
  /\ loc \in [Agents -> Locals]
  /\ \A h \in DOMAIN tables : \A i \in DOMAIN tables[h] : tables[h][i].value <= Len(producers)
  /\ \A a \in Agents : LocalsInRange(loc[a])

------------------------------------------------------------------------------
(* Remainders, and numbers of threads                                       *)

\* A number is a multiple and a remainder.
LEMMA Division ==
  ASSUME NEW m \in Nat \ {0}, NEW x \in Int
  PROVE  /\ x \div m \in Int
         /\ x % m \in 0 .. m - 1
         /\ x = m * (x \div m) + (x % m)
OBVIOUS

\* Numbers less than m apart that differ by a multiple of m are equal.
LEMMA EqualRemainders ==
  ASSUME NEW m \in Nat \ {0}, NEW a \in Int,
         NEW x \in 0 .. m - 1, NEW y \in 0 .. m - 1, x - y = m * a
  PROVE  x = y
<1>1. CASE a > 0
  <2>1. m * a >= m
    BY <1>1, SMT
  <2> QED
    BY <2>1
<1>2. CASE a < 0
  <2>1. m * a <= - m
    BY <1>2, SMT
  <2> QED
    BY <2>1
<1>3. CASE a = 0
  BY <1>3
<1> QED
  BY <1>1, <1>2, <1>3

\* A finite set of threads with one more, or one less.
LEMMA ThreadEnters ==
  ASSUME NEW All, IsFiniteSet(All), NEW S \in SUBSET All, NEW t \in All, t \notin S
  PROVE  Cardinality(S) \in Nat /\ Cardinality(S \cup {t}) = Cardinality(S) + 1
BY FS_Subset, FS_CardinalityType, FS_AddElement

LEMMA ThreadLeaves ==
  ASSUME NEW All, IsFiniteSet(All), NEW S \in SUBSET All, NEW t \in S
  PROVE  Cardinality(S) \in Nat /\ Cardinality(S \ {t}) = Cardinality(S) - 1
BY FS_Subset, FS_CardinalityType, FS_RemoveElement

------------------------------------------------------------------------------
(* The inductive invariant                                                  *)

\* An id in a table, and with which producer it is in one of the tables.
HasKey(h, x) == \E i \in DOMAIN tables[h] : tables[h][i].key = x
Entered(x, p) ==
  \E h \in DOMAIN tables : \E i \in DOMAIN tables[h] :
    tables[h][i].key = x /\ tables[h][i].value = p

\* Calls that have counted; and those that did not find an entry.
CountedPlaces == {"lock", "grow", "room", "traverse", "uncount"}
MissingPlaces == CountedPlaces \cup {"count", "unlock", "insert"}
Counted == {t \in Threads : \/ loc[t].at \in CountedPlaces
                            \/ loc[t].at = "unlock" /\ loc[t].newCount # 0}
ImplicitProducers == {p \in DOMAIN producers : ~producers[p].isExplicit}

ThreadPlace(t) ==
  /\ loc[t].at = "out" <=> loc[t].id = Null
  /\ loc[t].at = "out" => loc[t].listener = Null
  /\ loc[t].at \notin {"out", "idle"} => alive
  /\ loc[t].producer # Null => loc[t].at \in {"adopt", "insert", "use", "uncount"}
  /\ loc[t].at \in {"adopt", "insert", "use"} => loc[t].producer # Null
  /\ loc[t].at \in CountedPlaces \cup {"insert"} => loc[t].newCount # 0
  /\ loc[t].at \in {"probe", "adopt"} \cup MissingPlaces => loc[t].main # 0
  /\ loc[t].at \in {"probe", "forget", "adopt", "insert"} => loc[t].table # 0
  /\ loc[t].at = "probe" => loc[t].table <= loc[t].main
  /\ loc[t].at \in {"adopt", "insert"} => loc[t].table = loc[t].main
  /\ loc[t].at \in {"forget", "retire"} => loc[t].listener # Null
  /\ loc[t].listener # Null => ThreadLocalSupported
  /\ loc[t].at \in {"traverse", "uncount", "insert"} =>
       loc[t].newCount < ThreeQuarters(Capacity(loc[t].main))

\* The listener that a thread has subscribed is that of the producer it is entered with.
ThreadListener(t) ==
  /\ loc[t].producer # Null /\ loc[t].listener # Null => loc[t].producer = loc[t].listener
  /\ alive /\ loc[t].listener # Null /\ loc[t].at \notin {"forget", "retire"} =>
       Entered(loc[t].id, loc[t].listener)

\* How far slot i of table h is from where the search for an id begins, round the end of the
\* table, and whether a search has been there.
Distance(b, i, capacity) == IF b <= i THEN i - b ELSE i + capacity - b
Offset(h, x, i) == Distance(HashOf[x] % Capacity(h), i, Capacity(h))
Passed(t, i) ==
  Offset(loc[t].table, loc[t].id, i) < Offset(loc[t].table, loc[t].id, Here(t))

\* What a search has seen so far.
ThreadSearch(t) ==
  /\ loc[t].at \in {"probe", "forget"} =>
       /\ \A h \in DOMAIN tables : h > loc[t].table => ~HasKey(h, loc[t].id)
       /\ \A i \in DOMAIN tables[loc[t].table] :
            Passed(t, i) => tables[loc[t].table][i].key # loc[t].id
  /\ loc[t].at \in {"adopt", "insert"} =>
       /\ ~HasKey(loc[t].main, loc[t].id)
       /\ \A i \in DOMAIN tables[loc[t].table] :
            Passed(t, i) => tables[loc[t].table][i].key # invalid_thread_id
  /\ loc[t].at = "adopt" =>
       /\ Entered(loc[t].id, loc[t].producer)
       /\ \E h \in DOMAIN tables : h <= loc[t].main /\ HasKey(h, loc[t].id)
  /\ loc[t].at \in MissingPlaces \cup {"retire"} =>
       \A h \in DOMAIN tables : ~HasKey(h, loc[t].id)

ThreadInv(t) == ThreadPlace(t) /\ ThreadListener(t) /\ ThreadSearch(t)

TokenInv(k) ==
  /\ loc[k].at \in {"out", "traverse", "use", "retire"}
  /\ loc[k].at \notin {"out", "use"} => alive
  /\ loc[k].at \in {"out", "traverse"} => loc[k].producer = Null
  /\ loc[k].at = "retire" => loc[k].producer # Null

IdsDiffer ==
  \A t, u \in Threads : t # u /\ loc[t].id # Null => loc[t].id # loc[u].id

OwnersInv ==
  alive =>
    /\ \A a, b \in Agents : a # b /\ Has(a) # Null => Has(a) # Has(b)
    /\ \A a \in Agents : Has(a) # Null =>
         ~producers[Has(a)].inactive /\ producers[Has(a)].isExplicit = Explicit(a)

\* A producer that is entered is a thread's, and nobody's but that of the id.
EntryInv(x, p) ==
  /\ p \in DOMAIN producers /\ ~producers[p].isExplicit /\ ~producers[p].inactive
  /\ \A a \in Agents : Has(a) = p => a \in Threads /\ loc[a].id = x
  /\ \A t \in Threads : loc[t].id = x => Has(t) \in {Null, p}
  /\ \A y \in Ids, q \in Nat : Entered(y, q) => (x = y <=> p = q)

EntriesInv == alive => \A x \in Ids, p \in Nat : Entered(x, p) => EntryInv(x, p)

\* An id is once in a table, and every slot on the way to it is in use.
TableInv(h) ==
  /\ \A i, j \in DOMAIN tables[h] : tables[h][i].key \in Ids =>
       /\ tables[h][j].key = tables[h][i].key => i = j
       /\ Offset(h, tables[h][i].key, j) < Offset(h, tables[h][i].key, i) =>
            tables[h][j].key # invalid_thread_id
  /\ \A i \in DOMAIN tables[h] :
       tables[h][i].key = invalid_thread_id2 => ThreadLocalSupported
TablesInv ==
  alive =>
    /\ \A h \in DOMAIN tables : TableInv(h)
    /\ \A g, h \in DOMAIN tables : g < h => Capacity(g) <= Capacity(h)

\* The ids that may be entered in a table three quarters of which are at most n slots more
\* than one: never more than n.
Claims(t) == t \in Counted \/ loc[t].at = "insert"
Reserved(n) ==
  {x \in Ids :
     \/ \E h \in DOMAIN tables : ThreeQuarters(Capacity(h)) <= n + 1 /\ HasKey(h, x)
     \/ \E t \in Threads : loc[t].id = x /\ loc[t].newCount <= n /\ Claims(t)}
RoomInv == alive => \A n \in Nat : Cardinality(Reserved(n)) <= n

AgentsInv == (\A t \in Threads : ThreadInv(t)) /\ (\A k \in Tokens : TokenInv(k))

HashInv ==
  /\ TypeInv /\ AgentsInv /\ IdsDiffer /\ OwnersInv /\ EntriesInv /\ TablesInv /\ RoomInv
  /\ CountsProducers /\ TokensAreValid

------------------------------------------------------------------------------
(* Tables                                                                   *)

LEMMA TableIsFunction ==
  ASSUME NEW T \in HashTables
  PROVE  /\ Cardinality(DOMAIN T) \in Nat \ {0}
         /\ DOMAIN T = 0 .. Cardinality(DOMAIN T) - 1
         /\ T \in [0 .. Cardinality(DOMAIN T) - 1 -> Slots]
<1>1. PICK c \in Nat \ {0} : T \in [0 .. c - 1 -> Slots]
  BY DEF HashTables
<1>2. Cardinality(0 .. c - 1) = c
  BY FS_Interval, <1>1
<1> QED
  BY <1>1, <1>2

LEMMA Capacities ==
  ASSUME TypeInv, NEW h \in DOMAIN tables
  PROVE  /\ tables[h] \in HashTables
         /\ Capacity(h) \in Nat \ {0}
         /\ DOMAIN tables[h] = 0 .. Capacity(h) - 1
         /\ \A i \in DOMAIN tables[h] : tables[h][i] \in Slots
<1>1. tables[h] \in HashTables
  BY DEF TypeInv
<1>2. tables[h] \in [0 .. Capacity(h) - 1 -> Slots] /\ Capacity(h) \in Nat \ {0}
  BY <1>1, TableIsFunction DEF Capacity
<1> QED
  BY <1>1, <1>2

LEMMA EmptyTableType ==
  ASSUME NEW c \in Nat \ {0}
  PROVE  /\ EmptyTable(c) \in HashTables
         /\ Cardinality(DOMAIN EmptyTable(c)) = c
         /\ \A i \in DOMAIN EmptyTable(c) : EmptyTable(c)[i].key = invalid_thread_id
         /\ \A i \in DOMAIN EmptyTable(c) : EmptyTable(c)[i].value = Null
<1>1. EmptyTable(c) \in [0 .. c - 1 -> Slots]
  BY DEF EmptyTable, Slots, Keys, Null
<1>2. EmptyTable(c) \in HashTables
  BY <1>1 DEF HashTables
<1>3. Cardinality(0 .. c - 1) = c
  BY FS_Interval
<1>4. DOMAIN EmptyTable(c) = 0 .. c - 1
  BY DEF EmptyTable
<1> QED
  BY <1>2, <1>3, <1>4 DEF EmptyTable

\* The slot of a table that is written.
LEMMA SlotWritten ==
  ASSUME TypeInv, NEW h \in DOMAIN tables, NEW i \in DOMAIN tables[h], NEW e \in Slots,
         tables' = [tables EXCEPT ![h][i] = e]
  PROVE  /\ tables' \in Seq(HashTables)
         /\ Len(tables') = Len(tables) /\ DOMAIN tables' = DOMAIN tables
         /\ \A g \in DOMAIN tables :
              /\ DOMAIN tables'[g] = DOMAIN tables[g]
              /\ Capacity(g)' = Capacity(g)
              /\ \A j \in DOMAIN tables[g] :
                   tables'[g][j] = IF g = h /\ j = i THEN e ELSE tables[g][j]
<1> DEFINE T == [tables[h] EXCEPT ![i] = e]
<1>1. tables' = [tables EXCEPT ![h] = T]
  OBVIOUS
<1>2. T \in HashTables
  <2>1. T \in [0 .. Capacity(h) - 1 -> Slots]
    BY Capacities
  <2> QED
    BY <2>1, Capacities DEF HashTables
<1>3. tables \in Seq(HashTables)
  BY DEF TypeInv
<1> HIDE DEF T
<1>4. tables' \in Seq(HashTables) /\ Len(tables') = Len(tables) /\ DOMAIN tables' = DOMAIN tables
  <2>1. h \in 1 .. Len(tables)
    BY <1>3
  <2>2. /\ [tables EXCEPT ![h] = T] \in Seq(HashTables)
        /\ Len([tables EXCEPT ![h] = T]) = Len(tables)
    BY <1>2, <1>3, <2>1, ExceptSeq
  <2> QED
    BY <1>1, <2>2
<1>5. ASSUME NEW g \in DOMAIN tables
      PROVE  /\ DOMAIN tables'[g] = DOMAIN tables[g]
             /\ \A j \in DOMAIN tables[g] :
                  tables'[g][j] = IF g = h /\ j = i THEN e ELSE tables[g][j]
  BY <1>1 DEF T
<1> QED
  BY <1>4, <1>5 DEF Capacity

\* A table that is chained.
LEMMA TableChained ==
  ASSUME TypeInv, NEW c \in Nat \ {0}, tables' = Append(tables, EmptyTable(c))
  PROVE  /\ tables' \in Seq(HashTables)
         /\ Len(tables') = Len(tables) + 1 /\ DOMAIN tables \subseteq DOMAIN tables'
         /\ DOMAIN tables' = DOMAIN tables \cup {Len(tables')}
         /\ \A g \in DOMAIN tables : tables'[g] = tables[g] /\ Capacity(g)' = Capacity(g)
         /\ tables'[Len(tables')] = EmptyTable(c)
         /\ Cardinality(DOMAIN tables'[Len(tables')]) = c
<1>1. tables \in Seq(HashTables) /\ EmptyTable(c) \in HashTables
  BY EmptyTableType DEF TypeInv
<1>2. /\ tables' \in Seq(HashTables) /\ Len(tables') = Len(tables) + 1
      /\ \A g \in DOMAIN tables : tables'[g] = tables[g]
      /\ tables'[Len(tables')] = EmptyTable(c)
  BY <1>1
<1> QED
  BY <1>1, <1>2, EmptyTableType DEF Capacity

\* A step that writes only keys of id x, and removes none but that: other ids stay where
\* they are.
TablesStep(x) ==
  /\ DOMAIN tables \subseteq DOMAIN tables' /\ Len(tables) <= Len(tables')
  /\ \A h \in DOMAIN tables :
       /\ DOMAIN tables'[h] = DOMAIN tables[h] /\ Capacity(h)' = Capacity(h)
       /\ \A i \in DOMAIN tables[h] :
            \/ tables'[h][i] = tables[h][i]
            \/ /\ tables[h][i].key \in {x, invalid_thread_id, invalid_thread_id2}
               /\ tables'[h][i].key \in {x, invalid_thread_id2}
  /\ \A h \in DOMAIN tables' \ DOMAIN tables : \A i \in DOMAIN tables'[h] :
       tables'[h][i].key = invalid_thread_id

LEMMA SameTables ==
  ASSUME TypeInv, tables' = tables, NEW x
  PROVE  TablesStep(x)
BY DEF TablesStep, Capacity, TypeInv

LEMMA OtherKeys ==
  ASSUME NEW x, TablesStep(x), NEW y, y \notin {x, invalid_thread_id, invalid_thread_id2}
  PROVE  /\ \A h \in DOMAIN tables' : HasKey(h, y)' <=> h \in DOMAIN tables /\ HasKey(h, y)
         /\ \A p : Entered(y, p)' <=> Entered(y, p)
<1>1. ASSUME NEW h \in DOMAIN tables, NEW i \in DOMAIN tables[h]
      PROVE  /\ DOMAIN tables'[h] = DOMAIN tables[h] /\ h \in DOMAIN tables'
             /\ tables'[h][i].key = y <=> tables[h][i].key = y
             /\ tables[h][i].key = y => tables'[h][i] = tables[h][i]
  BY <1>1 DEF TablesStep
<1>2. ASSUME NEW h \in DOMAIN tables' \ DOMAIN tables, NEW i \in DOMAIN tables'[h]
      PROVE  tables'[h][i].key # y
  BY <1>2 DEF TablesStep
<1>3. ASSUME NEW h \in DOMAIN tables'
      PROVE  HasKey(h, y)' <=> h \in DOMAIN tables /\ HasKey(h, y)
  BY <1>1, <1>2, <1>3 DEF HasKey, TablesStep
<1>4. ASSUME NEW p
      PROVE  Entered(y, p)' <=> Entered(y, p)
  <2>1. Entered(y, p) => Entered(y, p)'
    BY <1>1 DEF Entered
  <2>2. Entered(y, p)' => Entered(y, p)
    <3>1. SUFFICES ASSUME NEW h \in DOMAIN tables', NEW i \in DOMAIN tables'[h],
                          tables'[h][i].key = y, tables'[h][i].value = p
                   PROVE  Entered(y, p)
      BY DEF Entered
    <3>2. h \in DOMAIN tables
      BY <1>2, <3>1
    <3>3. i \in DOMAIN tables[h]
      BY <3>1, <3>2 DEF TablesStep
    <3>4. tables'[h][i] = tables[h][i]
      BY <1>1, <3>1, <3>2, <3>3
    <3>5. tables[h][i].key = y /\ tables[h][i].value = p
      BY <3>1, <3>4
    <3> QED
      BY <3>2, <3>3, <3>5 DEF Entered
  <2> QED
    BY <2>1, <2>2
<1> QED
  BY <1>3, <1>4

LEMMA LocalsStep ==
  ASSUME TypeInv, NEW a \in Agents, NEW l \in Locals, loc' = [loc EXCEPT ![a] = l]
  PROVE  /\ loc' \in [Agents -> Locals] /\ loc'[a] = l
         /\ \A b \in Agents : b # a => loc'[b] = loc[b]
BY DEF TypeInv

LEMMA IdOfThread ==
  ASSUME ProducersAssumption, TypeInv, NEW t \in Threads, ThreadPlace(t), loc[t].at # "out"
  PROVE  loc[t].id \in Ids /\ loc[t].id \notin {invalid_thread_id, invalid_thread_id2}
BY DEF TypeInv, Agents, Locals, ThreadPlace, ProducersAssumption, Null, invalid_thread_id,
       invalid_thread_id2

\* A thread that takes no part in a step goes on as before.
LEMMA ThreadRests ==
  ASSUME ProducersAssumption, TypeInv, NEW t \in Threads, ThreadInv(t), loc'[t] = loc[t],
         alive' = alive, NEW x, TablesStep(x), x \notin {loc[t].id, invalid_thread_id}
  PROVE  ThreadInv(t)'
<1> DEFINE y == loc[t].id
<1>1. loc[t] \in Locals /\ LocalsInRange(loc[t])
  BY DEF TypeInv, Agents
<1>2. ASSUME NEW h \in Nat, h <= Len(tables), h # 0
      PROVE  /\ h \in DOMAIN tables /\ DOMAIN tables'[h] = DOMAIN tables[h]
             /\ Capacity(h)' = Capacity(h)
  BY <1>2 DEF TypeInv, TablesStep
<1>3. ThreadPlace(t)'
  <2>1. loc[t].main # 0 => Capacity(loc[t].main)' = Capacity(loc[t].main)
    BY <1>1, <1>2 DEF Locals, LocalsInRange
  <2> QED
    BY <2>1, <1>1 DEF ThreadInv, ThreadPlace, Locals, CountedPlaces, MissingPlaces
<1>4. CASE loc[t].at = "out"
  <2>1. loc[t].listener = Null
    BY <1>4 DEF ThreadInv, ThreadPlace
  <2> QED
    BY <1>3, <1>4, <2>1 DEF ThreadInv, ThreadListener, ThreadSearch, MissingPlaces,
       CountedPlaces
<1>5. CASE loc[t].at # "out"
  <2>1. /\ \A h \in DOMAIN tables' : HasKey(h, y)' <=> h \in DOMAIN tables /\ HasKey(h, y)
        /\ \A p : Entered(y, p)' <=> Entered(y, p)
        /\ y \notin {invalid_thread_id, invalid_thread_id2}
    <3>1. ThreadPlace(t)
      BY DEF ThreadInv
    <3>2. y \notin {x, invalid_thread_id, invalid_thread_id2}
      BY <1>5, <3>1, IdOfThread
    <3> QED
      BY <3>2, OtherKeys
  <2>2. ThreadListener(t)'
    BY <2>1 DEF ThreadInv, ThreadListener
  <2>3. ASSUME loc[t].table # 0, NEW i \in DOMAIN tables'[loc[t].table]
        PROVE  /\ i \in DOMAIN tables[loc[t].table]
               /\ Passed(t, i)' <=> Passed(t, i)
               /\ tables'[loc[t].table][i].key = y => tables[loc[t].table][i].key = y
               /\ tables'[loc[t].table][i].key = invalid_thread_id =>
                    tables[loc[t].table][i].key = invalid_thread_id
    <3> DEFINE h == loc[t].table
    <3>1. h \in DOMAIN tables /\ DOMAIN tables'[h] = DOMAIN tables[h]
          /\ Capacity(h)' = Capacity(h)
      BY <1>1, <1>2, <2>3 DEF Locals, LocalsInRange
    <3>2. Passed(t, i)' <=> Passed(t, i)
      BY <3>1 DEF Passed, Offset, Here
    <3>3. \/ tables'[h][i] = tables[h][i]
          \/ tables'[h][i].key \in {x, invalid_thread_id2}
      BY <3>1, <2>3 DEF TablesStep
    <3>4. tables'[h][i].key = y => tables[h][i].key = y
      BY <3>3, <2>1
    <3>5. invalid_thread_id2 # invalid_thread_id
      BY DEF invalid_thread_id, invalid_thread_id2
    <3> QED
      BY <2>3, <3>1, <3>2, <3>3, <3>4, <3>5
  <2>4. loc[t].table # 0 =>
          loc[t].table \in DOMAIN tables /\ DOMAIN tables'[loc[t].table] = DOMAIN tables[loc[t].table]
    BY <1>1, <1>2 DEF Locals, LocalsInRange
  <2>5. loc[t].main # 0 => loc[t].main \in DOMAIN tables /\ loc[t].main \in DOMAIN tables'
    BY <1>1, <1>2 DEF Locals, LocalsInRange, TablesStep
  <2> DEFINE l == loc[t]
  <2>6. l.at \in {"probe", "forget"} =>
          /\ \A h \in DOMAIN tables' : h > l.table => ~HasKey(h, y)'
          /\ \A i \in DOMAIN tables'[l.table] : Passed(t, i)' => tables'[l.table][i].key # y
    BY <2>1, <2>3, <2>4 DEF ThreadInv, ThreadSearch, ThreadPlace
  <2>7. l.at \in {"adopt", "insert"} =>
          /\ ~HasKey(l.main, y)'
          /\ \A i \in DOMAIN tables'[l.table] :
               Passed(t, i)' => tables'[l.table][i].key # invalid_thread_id
    BY <2>1, <2>3, <2>4, <2>5 DEF ThreadInv, ThreadSearch, ThreadPlace, MissingPlaces
  <2>8. l.at = "adopt" =>
          /\ Entered(y, l.producer)'
          /\ \E h \in DOMAIN tables' : h <= l.main /\ HasKey(h, y)'
    BY <2>1 DEF ThreadInv, ThreadSearch, TablesStep
  <2>9. l.at \in MissingPlaces \cup {"retire"} => \A h \in DOMAIN tables' : ~HasKey(h, y)'
    BY <2>1 DEF ThreadInv, ThreadSearch
  <2>10. ThreadSearch(t)'
    BY <2>6, <2>7, <2>8, <2>9 DEF ThreadSearch
  <2> QED
    BY <1>3, <2>2, <2>10 DEF ThreadInv
<1> QED
  BY <1>4, <1>5

LEMMA HasType ==
  ASSUME TypeInv, NEW a \in Agents
  PROVE  Has(a) \in Nat /\ (Has(a) # Null => Has(a) \in DOMAIN producers)
<1>1. loc[a] \in Locals /\ LocalsInRange(loc[a])
  BY DEF TypeInv
<1>2. Has(a) \in Nat /\ Has(a) <= Len(producers)
  BY <1>1 DEF Has, Locals, LocalsInRange
<1>3. Len(producers) \in Nat /\ DOMAIN producers = 1 .. Len(producers)
  BY DEF TypeInv
<1> QED
  BY <1>2, <1>3 DEF Null

\* Who has what after a step by one of them.
LEMMA HasStep ==
  ASSUME NEW a, NEW b, loc'[b] = loc[b]
  PROVE  Has(b)' = Has(b)
BY DEF Has, Explicit

\* A step that changes only the locals of one thread or token, and the count and the flag.
LEMMA LocalStep ==
  ASSUME ProducersAssumption, HashInv, NEW a \in Agents, NEW l \in Locals,
         loc' = [loc EXCEPT ![a] = l],
         tables' = tables, producers' = producers, alive' = alive,
         implicitProducerHashResizeInProgress' \in BOOLEAN, implicitProducerHashCount' \in Int,
         LocalsInRange(l),
         a \in Threads => ThreadInv(a)',
         a \in Tokens => TokenInv(a)',
         \A u \in Threads : a \in Threads /\ u # a /\ l.id # Null => loc[u].id # l.id,
         alive => \/ Has(a)' = Null
                  \/ Has(a)' = Has(a) /\ l.id = loc[a].id
                  \/ a \in Threads /\ l.id \in Ids /\ Entered(l.id, Has(a)'),
         a \in Tokens /\ l.at = "use" /\ l.producer # Null =>
           alive /\ producers[l.producer].token = a,
         CountsProducers', RoomInv'
  PROVE  HashInv'
<1>1. TypeInv /\ loc'[a] = l /\ (\A b \in Agents : b # a => loc'[b] = loc[b])
  BY LocalsStep DEF HashInv
<1>2. TypeInv'
  <2>1. loc' \in [Agents -> Locals]
    BY <1>1, LocalsStep
  <2>2. \A b \in Agents : LocalsInRange(loc[b])'
    BY <1>1 DEF TypeInv, LocalsInRange
  <2> QED
    BY <1>1, <2>1, <2>2 DEF TypeInv
<1>3. \A b \in Agents : b # a => Has(b)' = Has(b)
  BY <1>1, HasStep
<1>4. \A b \in Agents : Has(b) \in Nat /\ Has(b)' \in Nat
  BY <1>1, <1>2, HasType DEF Has, TypeInv, Locals, Null
<1>5. \A x, p : Entered(x, p)' <=> Entered(x, p)
  BY DEF Entered
<1>6. AgentsInv'
  <2>1. ASSUME NEW t \in Threads
        PROVE  ThreadInv(t)'
    <3>1. CASE t = a
      BY <3>1
    <3>2. CASE t # a
      <4>1. t \in Agents /\ loc[t].id # invalid_thread_id2
        <5>1. t \in Agents /\ loc[t] \in Locals
          BY <1>1 DEF TypeInv, Agents
        <5>2. loc[t].id \in Ids \cup {Null}
          BY <5>1 DEF Locals
        <5> QED
          BY <5>1, <5>2 DEF ProducersAssumption, invalid_thread_id2, Null
      <4>2. loc'[t] = loc[t] /\ TablesStep(invalid_thread_id2)
        BY <1>1, <3>2, <4>1, SameTables
      <4>3. ThreadInv(t)
        BY DEF HashInv, AgentsInv
      <4> QED
        BY <1>1, <4>1, <4>2, <4>3, ThreadRests DEF invalid_thread_id, invalid_thread_id2
    <3> QED
      BY <3>1, <3>2
  <2>2. ASSUME NEW k \in Tokens
        PROVE  TokenInv(k)'
    BY <1>1 DEF HashInv, AgentsInv, TokenInv, Agents
  <2> QED
    BY <2>1, <2>2 DEF AgentsInv
<1>7. IdsDiffer'
  BY <1>1 DEF HashInv, IdsDiffer, Agents
<1>8. TablesInv'
  BY DEF HashInv, TablesInv, TableInv, Offset, Capacity
<1>9. TokensAreValid'
  BY <1>1 DEF HashInv, TokensAreValid, Agents
<1>10. CASE ~alive
  BY <1>10, <1>2, <1>6, <1>7, <1>8, <1>9 DEF HashInv, OwnersInv, EntriesInv
<1>11. CASE alive
  <2>1. CASE Has(a)' = Null \/ (Has(a)' = Has(a) /\ l.id = loc[a].id)
    <3>1. OwnersInv'
      BY <1>3, <1>11, <2>1 DEF HashInv, OwnersInv
    <3>2. ASSUME NEW x \in Ids, NEW p \in Nat, Entered(x, p)
          PROVE  EntryInv(x, p)'
      <4>1. EntryInv(x, p)
        BY <1>11, <3>2 DEF HashInv, EntriesInv
      <4>2. p # Null
        BY <1>1, <4>1 DEF EntryInv, Null, TypeInv
      <4>3. \A b \in Agents : Has(b)' = p => b \in Threads /\ loc'[b].id = x
        BY <1>1, <1>3, <2>1, <4>1, <4>2 DEF EntryInv
      <4>4. \A t \in Threads : loc'[t].id = x => Has(t)' \in {Null, p}
        BY <1>1, <1>3, <2>1, <4>1 DEF EntryInv, Agents
      <4> QED
        BY <1>5, <4>1, <4>3, <4>4 DEF EntryInv
    <3> QED
      BY <1>2, <1>5, <1>6, <1>7, <1>8, <1>9, <3>1, <3>2 DEF HashInv, EntriesInv
  <2>2. CASE a \in Threads /\ l.id \in Ids /\ Entered(l.id, Has(a)')
    <3> DEFINE y == l.id
               q == Has(a)'
    <3>1. q \in Nat /\ q # Null /\ y # Null /\ EntryInv(y, q) /\ loc'[a].id = y /\ Entered(y, q)
      <4>1. q \in Nat /\ y \in Ids /\ Entered(y, q)
        BY <1>4, <2>2
      <4>2. EntryInv(y, q)
        BY <1>11, <4>1 DEF HashInv, EntriesInv
      <4> QED
        BY <1>1, <4>1, <4>2 DEF EntryInv, Null, ProducersAssumption, TypeInv
    <3> HIDE DEF y, q
    <3>2. \A b \in Agents : b # a => Has(b) # q
      <4>1. \A u \in Threads : u # a => loc[u].id # y
        BY <2>2, <3>1 DEF y
      <4> QED
        BY <3>1, <4>1 DEF EntryInv
    <3>3. OwnersInv'
      <4>1. \A b, c \in Agents : b # c /\ Has(b)' # Null => Has(b)' # Has(c)'
        <5>1. Has(a)' = q
          BY DEF q
        <5>2. \A b, c \in Agents : b # c /\ Has(b) # Null => Has(b) # Has(c)
          BY <1>11 DEF HashInv, OwnersInv
        <5> QED
          BY <1>3, <3>1, <3>2, <5>1, <5>2
      <4>2. \A b \in Agents : Has(b)' # Null =>
              ~producers[Has(b)'].inactive /\ producers[Has(b)'].isExplicit = Explicit(b)
        <5>1. ASSUME NEW b \in Agents, b = a
              PROVE  ~producers[Has(b)'].inactive /\ producers[Has(b)'].isExplicit = Explicit(b)
          <6>1. Has(b)' = q /\ ~Explicit(b)
            BY <2>2, <5>1 DEF q, Explicit, ProducersAssumption
          <6>2. producers[q].isExplicit = FALSE
            BY <3>1 DEF EntryInv, HashInv, TypeInv, ProducerRecords
          <6>3. Explicit(b) = FALSE
            BY <6>1 DEF Explicit
          <6> QED
            BY <3>1, <6>1, <6>2, <6>3 DEF EntryInv
        <5>2. ASSUME NEW b \in Agents, b # a, Has(b)' # Null
              PROVE  ~producers[Has(b)'].inactive /\ producers[Has(b)'].isExplicit = Explicit(b)
          BY <1>3, <1>11, <5>2 DEF HashInv, OwnersInv
        <5> QED
          BY <5>1, <5>2
      <4> QED
        BY <4>1, <4>2 DEF OwnersInv, Explicit
    <3>4. ASSUME NEW x \in Ids, NEW p \in Nat, Entered(x, p)
          PROVE  EntryInv(x, p)'
      <4>1. EntryInv(x, p) /\ (x = y <=> p = q)
        <5>1. EntryInv(x, p)
          BY <1>11, <3>4 DEF HashInv, EntriesInv
        <5>2. y \in Ids
          BY <2>2 DEF y
        <5> QED
          BY <3>1, <5>1, <5>2 DEF EntryInv
      <4>2. \A b \in Agents : Has(b)' = p => b \in Threads /\ loc'[b].id = x
        BY <1>1, <1>3, <2>2, <3>1, <4>1 DEF EntryInv, q
      <4>3. \A t \in Threads : loc'[t].id = x => Has(t)' \in {Null, p}
        BY <1>1, <1>3, <3>1, <4>1 DEF EntryInv, Agents, q
      <4> QED
        BY <1>5, <4>1, <4>2, <4>3 DEF EntryInv
    <3> QED
      BY <1>2, <1>5, <1>6, <1>7, <1>8, <1>9, <3>3, <3>4 DEF HashInv, EntriesInv
  <2> QED
    BY <1>11, <2>1, <2>2
<1> QED
  BY <1>10, <1>11

------------------------------------------------------------------------------
(* How many ids there may be in the tables                                   *)

Claimants ==
  {x \in Ids : \/ \E h \in DOMAIN tables : HasKey(h, x)
               \/ \E t \in Threads : loc[t].id = x /\ Claims(t)}

LEMMA CountedSays ==
  /\ CountsProducers <=>
       implicitProducerHashCount = Cardinality(ImplicitProducers) + Cardinality(Counted)
  /\ CountsProducers' <=>
       implicitProducerHashCount' = Cardinality(ImplicitProducers)' + Cardinality(Counted)'
BY DEF CountsProducers, ImplicitProducers, Counted, CountedPlaces

LEMMA CountedType ==
  ASSUME ProducersAssumption, TypeInv
  PROVE  /\ IsFiniteSet(ImplicitProducers) /\ Cardinality(ImplicitProducers) \in 0 .. Len(producers)
         /\ IsFiniteSet(Counted) /\ Cardinality(Counted) \in 0 .. Cardinality(Threads)
<1>1. ImplicitProducers \in SUBSET (1 .. Len(producers)) /\ Len(producers) \in Nat
  BY DEF ImplicitProducers, TypeInv
<1>2. IsFiniteSet(1 .. Len(producers)) /\ Cardinality(1 .. Len(producers)) = Len(producers)
  <2>1. \A n \in Nat : IsFiniteSet(1 .. n) /\ Cardinality(1 .. n) = n
    BY FS_Interval
  <2> QED
    BY <1>1, <2>1
<1>3. Counted \in SUBSET Threads /\ IsFiniteSet(Threads)
  BY DEF Counted, ProducersAssumption
<1>4. IsFiniteSet(ImplicitProducers) /\ Cardinality(ImplicitProducers) <= Len(producers)
  BY <1>1, <1>2, FS_Subset
<1>5. IsFiniteSet(Counted) /\ Cardinality(Counted) <= Cardinality(Threads)
  BY <1>3, FS_Subset
<1> QED
  BY <1>1, <1>3, <1>4, <1>5, FS_CardinalityType

\* Whose id is in a table or will be has a producer of its own, or is counted: "every
\* subsequent table implicitly reserves space for all previous tables"
\* (concurrentqueue.h:3406).
LEMMA ClaimantsAreCounted ==
  ASSUME ProducersAssumption, HashInv, alive
  PROVE  /\ IsFiniteSet(Claimants)
         /\ Cardinality(Claimants) \in Nat
         /\ Cardinality(Claimants) <= implicitProducerHashCount
<1> DEFINE Of(x, p) == \/ Entered(x, p)
                       \/ \E t \in Threads : loc[t].at = "insert" /\ loc[t].id = x /\ Has(t) = p
           V == {x \in Ids : \E p \in ImplicitProducers : Of(x, p)}
           W == {x \in Ids : \E t \in Counted : loc[t].id = x}
           f == [x \in V |-> CHOOSE p \in ImplicitProducers : Of(x, p)]
           g == [x \in W |-> CHOOSE t \in Counted : loc[t].id = x]
<1>1. TypeInv /\ AgentsInv /\ IdsDiffer
  BY DEF HashInv
<1>2. \A x \in Ids, p \in ImplicitProducers : Entered(x, p) => EntryInv(x, p)
  BY <1>1 DEF HashInv, EntriesInv, ImplicitProducers, TypeInv
<1>3. Claimants \subseteq V \cup W
  <2>1. ASSUME NEW x \in Ids, NEW h \in DOMAIN tables, HasKey(h, x)
        PROVE  x \in V
    <3>1. PICK i \in DOMAIN tables[h] : tables[h][i].key = x
      BY <2>1 DEF HasKey
    <3>2. tables[h][i].value \in Nat /\ Entered(x, tables[h][i].value)
      BY <1>1, <3>1, Capacities DEF Entered, Slots
    <3>3. EntryInv(x, tables[h][i].value)
      BY <3>2 DEF HashInv, EntriesInv
    <3> QED
      BY <3>2, <3>3 DEF EntryInv, ImplicitProducers
  <2>2. ASSUME NEW t \in Threads, loc[t].id \in Ids, loc[t].at = "insert"
        PROVE  loc[t].id \in V
    <3>1. Has(t) # Null /\ t \in Agents /\ ~Explicit(t)
      BY <1>1, <2>2 DEF AgentsInv, ThreadInv, ThreadPlace, Has, Agents, Explicit,
         ProducersAssumption
    <3>2. producers[Has(t)].isExplicit = Explicit(t)
      BY <3>1 DEF HashInv, OwnersInv
    <3>3. Has(t) \in DOMAIN producers
      BY <1>1, <3>1 DEF Has, TypeInv, LocalsInRange, Locals, Null
    <3> QED
      BY <2>2, <3>1, <3>2, <3>3 DEF ImplicitProducers
  <2> QED
    BY <2>1, <2>2 DEF Claimants, Claims
<1>4. f \in Injection(V, ImplicitProducers)
  <2>1. \A x \in V : f[x] \in ImplicitProducers /\ Of(x, f[x])
    OBVIOUS
  <2>2. ASSUME NEW x \in V, NEW y \in V, NEW p \in ImplicitProducers, Of(x, p), Of(y, p)
        PROVE  x = y
    <3>1. p \in Nat /\ p # Null
      BY <1>1 DEF ImplicitProducers, TypeInv, Null
    <3>2. CASE Entered(x, p) \/ Entered(y, p)
      BY <1>2, <2>2, <3>1, <3>2 DEF EntryInv, Agents
    <3>3. ASSUME NEW t \in Threads, NEW u \in Threads, Has(t) = p, Has(u) = p
          PROVE  t = u
      BY <3>1, <3>3 DEF HashInv, OwnersInv, Agents
    <3> QED
      BY <2>2, <3>2, <3>3
  <2> HIDE DEF f
  <2>3. f \in [V -> ImplicitProducers]
    BY <2>1 DEF f
  <2> QED
    BY <2>1, <2>2, <2>3 DEF Injection, IsInjective
<1>5. g \in Injection(W, Counted)
  <2>1. \A x \in W : g[x] \in Counted /\ loc[g[x]].id = x
    OBVIOUS
  <2> HIDE DEF W
  <2>2. g \in [W -> Counted]
    BY <2>1
  <2> HIDE DEF g
  <2> QED
    BY <2>1, <2>2 DEF Injection, IsInjective
<1> HIDE DEF V, W, f, g
<1>6. /\ IsFiniteSet(V) /\ Cardinality(V) <= Cardinality(ImplicitProducers)
      /\ IsFiniteSet(W) /\ Cardinality(W) <= Cardinality(Counted)
  <2>1. IsFiniteSet(ImplicitProducers) /\ IsFiniteSet(Counted)
    BY <1>1, CountedType
  <2>2. IsFiniteSet(V) /\ Cardinality(V) <= Cardinality(ImplicitProducers)
    BY <1>4, <2>1, FS_Injection
  <2>3. IsFiniteSet(W) /\ Cardinality(W) <= Cardinality(Counted)
    BY <1>5, <2>1, FS_Injection
  <2> QED
    BY <2>2, <2>3
<1>7. /\ IsFiniteSet(V \cup W) /\ Cardinality(V \cup W) \in Nat
      /\ Cardinality(V \cup W) <= Cardinality(V) + Cardinality(W)
  <2>1. /\ IsFiniteSet(V \cup W) /\ IsFiniteSet(V \cap W)
        /\ Cardinality(V \cup W) = Cardinality(V) + Cardinality(W) - Cardinality(V \cap W)
    BY <1>6, FS_Union, FS_Intersection
  <2>2. /\ Cardinality(V) \in Nat /\ Cardinality(W) \in Nat
        /\ Cardinality(V \cap W) \in Nat /\ Cardinality(V \cup W) \in Nat
    BY <1>6, <2>1, FS_CardinalityType
  <2> QED
    BY <2>1, <2>2
<1>8. implicitProducerHashCount = Cardinality(ImplicitProducers) + Cardinality(Counted)
  BY CountedSays DEF HashInv
<1>9. /\ IsFiniteSet(Claimants) /\ Cardinality(Claimants) \in Nat
      /\ Cardinality(Claimants) <= Cardinality(V \cup W)
  BY <1>3, <1>7, FS_Subset, FS_CardinalityType
<1>10. /\ Cardinality(V) \in Nat /\ Cardinality(W) \in Nat
       /\ Cardinality(ImplicitProducers) \in Nat /\ Cardinality(Counted) \in Nat
  BY <1>1, <1>6, CountedType, FS_CardinalityType
<1> QED
  BY <1>6, <1>7, <1>8, <1>9, <1>10

\* No id claims what it did not claim before.
LEMMA RoomStays ==
  ASSUME ProducersAssumption, HashInv, alive' => alive,
         \A n \in Nat : Reserved(n)' \subseteq Reserved(n)
  PROVE  RoomInv'
<1>1. ASSUME alive, NEW n \in Nat
      PROVE  Cardinality(Reserved(n)') <= n
  <2>1. Reserved(n) \subseteq Claimants
    BY DEF Reserved, Claimants
  <2>2. IsFiniteSet(Reserved(n))
    BY <1>1, <2>1, ClaimantsAreCounted, FS_Subset
  <2>3. /\ Cardinality(Reserved(n)') \in Nat /\ Cardinality(Reserved(n)) \in Nat
        /\ Cardinality(Reserved(n)') <= Cardinality(Reserved(n))
    BY <2>2, FS_Subset, FS_CardinalityType
  <2>4. Cardinality(Reserved(n)) <= n
    BY <1>1 DEF HashInv, RoomInv
  <2> QED
    BY <2>3, <2>4
<1> QED
  BY <1>1 DEF RoomInv

------------------------------------------------------------------------------
(* Steps that change only the locals of a thread or a token, and the count   *)

Counts(l) == l.at \in CountedPlaces \/ (l.at = "unlock" /\ l.newCount # 0)
\* What a thread or token with locals l adds to the count.
Share(a, l) == IF a \in Threads /\ Counts(l) THEN 1 ELSE 0

LEMMA CountedStep ==
  ASSUME TypeInv, NEW a \in Agents, NEW l \in Locals, loc' = [loc EXCEPT ![a] = l]
  PROVE  /\ Counted' = IF a \in Threads /\ Counts(l) THEN Counted \cup {a} ELSE Counted \ {a}
         /\ a \in Counted <=> a \in Threads /\ Counts(loc[a])
<1>1. loc'[a] = l /\ \A b \in Agents : b # a => loc'[b] = loc[b]
  BY LocalsStep
<1>2. \A t \in Threads : t \in Agents /\ (t \in Counted' <=> Counts(loc'[t]))
  BY DEF Counted, Counts, Agents
<1>3. \A t \in Threads : t \in Counted <=> Counts(loc[t])
  BY DEF Counted, Counts
<1>4. Counted \subseteq Threads /\ Counted' \subseteq Threads
  BY DEF Counted
<1>5. \A t \in Threads : t \in Counted' <=> IF t = a THEN Counts(l) ELSE t \in Counted
  BY <1>1, <1>2, <1>3
<1> QED
  BY <1>3, <1>4, <1>5

LEMMA CountsStep ==
  ASSUME ProducersAssumption, HashInv, NEW a \in Agents, NEW l \in Locals,
         loc' = [loc EXCEPT ![a] = l], ImplicitProducers' = ImplicitProducers,
         implicitProducerHashCount' = implicitProducerHashCount + Share(a, l) - Share(a, loc[a])
  PROVE  CountsProducers' /\ implicitProducerHashCount' \in Int
<1>1. TypeInv /\ IsFiniteSet(Threads) /\ Counted \in SUBSET Threads
  BY DEF HashInv, ProducersAssumption, Counted
<1>2. /\ Counted' = IF a \in Threads /\ Counts(l) THEN Counted \cup {a} ELSE Counted \ {a}
      /\ a \in Counted <=> a \in Threads /\ Counts(loc[a])
  BY <1>1, CountedStep
<1>3. Cardinality(Counted') = Cardinality(Counted) + Share(a, l) - Share(a, loc[a])
  <2>1. Cardinality(Counted) \in Nat
    BY <1>1, CountedType
  <2>2. CASE a \in Threads /\ Counts(l) /\ ~Counts(loc[a])
    BY <1>1, <1>2, <2>1, <2>2, ThreadEnters DEF Share
  <2>3. CASE a \in Threads /\ ~Counts(l) /\ Counts(loc[a])
    BY <1>1, <1>2, <2>1, <2>3, ThreadLeaves DEF Share
  <2>4. CASE a \notin Threads \/ (Counts(l) <=> Counts(loc[a]))
    <3>1. Counted' = Counted
      BY <1>1, <1>2, <2>4
    <3> QED
      BY <2>1, <2>4, <3>1 DEF Share
  <2> QED
    BY <2>2, <2>3, <2>4
<1>4. /\ Cardinality(ImplicitProducers) \in Nat /\ Cardinality(Counted) \in Nat
      /\ Cardinality(ImplicitProducers)' = Cardinality(ImplicitProducers)
      /\ implicitProducerHashCount = Cardinality(ImplicitProducers) + Cardinality(Counted)
  BY <1>1, CountedType, CountedSays DEF HashInv
<1>5. Share(a, l) \in Int /\ Share(a, loc[a]) \in Int
  BY DEF Share
<1> QED
  BY <1>3, <1>4, <1>5, CountedSays

\* The ids that claim a slot, while the tables stay as they are.
LEMMA ReservedStep ==
  ASSUME TypeInv, NEW a \in Agents, NEW l \in Locals, loc' = [loc EXCEPT ![a] = l],
         tables' = tables,
         a \in Threads /\ (Counts(l) \/ l.at = "insert") =>
           Claims(a) /\ l.id = loc[a].id /\ l.newCount = loc[a].newCount,
         NEW n \in Nat
  PROVE  Reserved(n)' \subseteq Reserved(n)
<1>1. loc'[a] = l /\ \A b \in Agents : b # a => loc'[b] = loc[b]
  BY LocalsStep
<1>2. ASSUME NEW x \in Ids, NEW t \in Threads, loc'[t].id = x, loc'[t].newCount <= n, Claims(t)'
      PROVE  loc[t].id = x /\ loc[t].newCount <= n /\ Claims(t)
  <2>1. CASE t = a
    <3>1. Counts(l) \/ l.at = "insert"
      BY <1>1, <1>2, <2>1 DEF Claims, Counted, Counts
    <3> QED
      BY <1>1, <1>2, <2>1, <3>1
  <2>2. CASE t # a
    BY <1>1, <1>2, <2>2 DEF Claims, Counted, Agents
  <2> QED
    BY <2>1, <2>2
<1> QED
  BY <1>2 DEF Reserved, HasKey, Capacity

LEMMA ThreadLocalStep ==
  ASSUME ProducersAssumption, HashInv, NEW t \in Threads, NEW l \in Locals,
         loc' = [loc EXCEPT ![t] = l],
         tables' = tables, producers' = producers, alive' = alive,
         implicitProducerHashResizeInProgress' \in BOOLEAN,
         implicitProducerHashCount' = implicitProducerHashCount + Share(t, l) - Share(t, loc[t]),
         LocalsInRange(l), ThreadInv(t)',
         \A u \in Threads : u # t /\ l.id # Null => loc[u].id # l.id,
         alive => \/ Has(t)' = Null
                  \/ Has(t)' = Has(t) /\ l.id = loc[t].id
                  \/ l.id \in Ids /\ Entered(l.id, Has(t)'),
         Counts(l) \/ l.at = "insert" =>
           Claims(t) /\ l.id = loc[t].id /\ l.newCount = loc[t].newCount
  PROVE  HashInv'
<1>1. t \in Agents /\ t \notin Tokens /\ TypeInv
  BY DEF Agents, ProducersAssumption, HashInv
<1>2. CountsProducers' /\ implicitProducerHashCount' \in Int
  <2>1. ImplicitProducers' = ImplicitProducers
    BY DEF ImplicitProducers
  <2> QED
    BY <1>1, <2>1, CountsStep
<1>3. RoomInv'
  <2>1. \A n \in Nat : Reserved(n)' \subseteq Reserved(n)
    BY <1>1, ReservedStep
  <2> QED
    BY <2>1, RoomStays
<1> QED
  BY <1>1, <1>2, <1>3, LocalStep

LEMMA ThreadFacts ==
  ASSUME ProducersAssumption, HashInv, NEW t \in Threads
  PROVE  /\ TypeInv /\ t \in Agents /\ t \notin Tokens
         /\ loc[t] \in Locals /\ LocalsInRange(loc[t]) /\ ThreadInv(t)
         /\ loc[t].id # Null => \A u \in Threads : u # t => loc[u].id # loc[t].id
         /\ implicitProducerHashResizeInProgress \in BOOLEAN
BY DEF HashInv, TypeInv, Agents, ProducersAssumption, AgentsInv, IdsDiffer

LEMMA EnteredHasKey ==
  ASSUME NEW x, NEW p, Entered(x, p)
  PROVE  \E h \in DOMAIN tables : HasKey(h, x)
BY DEF Entered, HasKey

\* A thread that has no entry has no listener.
LEMMA NoListener ==
  ASSUME ProducersAssumption, HashInv, NEW t \in Threads, loc[t].at \in MissingPlaces
  PROVE  loc[t].listener = Null
<1>1. ThreadInv(t) /\ alive /\ \A h \in DOMAIN tables : ~HasKey(h, loc[t].id)
  BY ThreadFacts DEF ThreadInv, ThreadPlace, ThreadSearch, MissingPlaces, CountedPlaces
<1>2. ~Entered(loc[t].id, loc[t].listener)
  BY <1>1, EnteredHasKey
<1> QED
  BY <1>1, <1>2 DEF ThreadInv, ThreadListener, MissingPlaces, CountedPlaces

\* A call that did not find an entry goes on; it may have got a producer that is
\* used again.
LEMMA MissingThread ==
  ASSUME ProducersAssumption, HashInv, NEW t \in Threads, loc[t].at \in MissingPlaces,
         NEW l \in Locals, loc' = [loc EXCEPT ![t] = l], alive' = alive,
         \A h \in DOMAIN tables' : \A i \in DOMAIN tables'[h] : tables'[h][i].key # l.id,
         l.at \in MissingPlaces \ {"insert"}, l.id = loc[t].id, l.listener = loc[t].listener,
         l.producer # Null => l.at = "uncount", l.main # 0,
         l.at \in CountedPlaces => l.newCount # 0,
         l.at \in {"traverse", "uncount"} => l.newCount < ThreeQuarters(Cardinality(DOMAIN tables'[l.main]))
  PROVE  ThreadInv(t)' /\ Has(t)' = l.producer
<1>1. /\ TypeInv /\ t \in Agents /\ t \notin Tokens /\ ThreadInv(t) /\ loc'[t] = l
  BY ThreadFacts, LocalsStep
<1>2. loc[t].listener = Null
  BY NoListener
<1>3. alive /\ loc[t].id # Null
  BY <1>1 DEF ThreadInv, ThreadPlace, MissingPlaces, CountedPlaces
<1>4. ThreadPlace(t)'
  BY <1>1, <1>2, <1>3 DEF ThreadPlace, MissingPlaces, CountedPlaces, Capacity
<1>5. ThreadListener(t)'
  BY <1>1, <1>2 DEF ThreadListener
<1>6. ThreadSearch(t)'
  BY <1>1 DEF ThreadSearch, MissingPlaces, CountedPlaces, HasKey
<1>7. Has(t)' = l.producer
  BY <1>1, <1>2 DEF Has, Explicit
<1> QED
  BY <1>4, <1>5, <1>6, <1>7 DEF ThreadInv

LEMMA MissingFacts ==
  ASSUME ProducersAssumption, HashInv, NEW t \in Threads, loc[t].at \in MissingPlaces
  PROVE  /\ \A h \in DOMAIN tables : ~HasKey(h, loc[t].id)
         /\ loc[t].id \in Ids /\ alive /\ loc[t].main # 0 /\ loc[t].main \in DOMAIN tables
<1>1. TypeInv /\ loc[t] \in Locals /\ LocalsInRange(loc[t]) /\ ThreadInv(t)
  BY ThreadFacts
<1> QED
  BY <1>1, IdOfThread DEF ThreadInv, ThreadPlace, ThreadSearch, MissingPlaces, CountedPlaces,
     TypeInv, Locals, LocalsInRange

LEMMA MissingStep ==
  ASSUME ProducersAssumption, HashInv, NEW t \in Threads, loc[t].at \in MissingPlaces,
         NEW l \in Locals, loc' = [loc EXCEPT ![t] = l],
         tables' = tables, producers' = producers, alive' = alive,
         implicitProducerHashResizeInProgress' \in BOOLEAN,
         implicitProducerHashCount' = implicitProducerHashCount + Share(t, l) - Share(t, loc[t]),
         l.at \in MissingPlaces \ {"insert"}, l.id = loc[t].id, l.listener = loc[t].listener,
         l.producer = Null, l.main # 0, LocalsInRange(l),
         l.at \in CountedPlaces => l.newCount # 0,
         l.at \in {"traverse", "uncount"} => l.newCount < ThreeQuarters(Capacity(l.main)),
         Counts(l) => Claims(t) /\ l.newCount = loc[t].newCount
  PROVE  HashInv'
<1>1. loc[t].id # Null => \A u \in Threads : u # t => loc[u].id # loc[t].id
  BY ThreadFacts
<1>2. \A h \in DOMAIN tables' : \A i \in DOMAIN tables'[h] : tables'[h][i].key # l.id
  BY MissingFacts DEF HasKey
<1>3. l.at \in {"traverse", "uncount"} =>
        l.newCount < ThreeQuarters(Cardinality(DOMAIN tables'[l.main]))
  BY DEF Capacity
<1>4. ThreadInv(t)' /\ Has(t)' = Null
  BY <1>2, <1>3, MissingThread
<1> QED
  BY <1>1, <1>4, ThreadLocalStep

\* A call that returns.
LEMMA ReturnStep ==
  ASSUME ProducersAssumption, HashInv, NEW t \in Threads,
         loc[t].at \notin {"out", "forget", "retire"},
         loc' = [loc EXCEPT ![t] = Returned(loc[t])],
         tables' = tables, producers' = producers, alive' = alive,
         implicitProducerHashResizeInProgress' \in BOOLEAN,
         implicitProducerHashCount' = implicitProducerHashCount - Share(t, loc[t])
  PROVE  HashInv'
<1> DEFINE l == Returned(loc[t])
<1>1. /\ TypeInv /\ t \in Agents /\ t \notin Tokens /\ loc[t] \in Locals /\ ThreadInv(t)
      /\ loc[t].id # Null => \A u \in Threads : u # t => loc[u].id # loc[t].id
      /\ LocalsInRange(loc[t])
  BY ThreadFacts
<1>2. /\ l \in Locals /\ l.at = "idle" /\ l.id = loc[t].id /\ l.producer = Null
      /\ l.listener = loc[t].listener /\ LocalsInRange(l)
  <2>1. /\ Out \in Locals /\ Out.main = 0 /\ Out.table = 0 /\ Out.ptr = 0
        /\ Out.producer = 0
    BY DEF Out, Locals, Places, Null
  <2> HIDE DEF l
  <2>2. Len(tables) \in Nat /\ Len(producers) \in Nat /\ loc[t].listener \in Nat
        /\ loc[t].id \in Ids \cup {Null}
    BY <1>1 DEF TypeInv, Locals
  <2>3. /\ l \in Locals /\ l.at = "idle" /\ l.id = loc[t].id /\ l.listener = loc[t].listener
        /\ l.producer = 0 /\ l.main = 0 /\ l.table = 0 /\ l.ptr = 0
    <3> HIDE DEF Out
    <3> QED
      BY <2>1, <2>2 DEF l, Returned, Locals, Places, Null
  <2> QED
    BY <1>1, <2>2, <2>3 DEF LocalsInRange, Null
<1> HIDE DEF l
<1>3. loc' = [loc EXCEPT ![t] = l] /\ loc'[t] = l
  BY <1>1, <1>2, LocalsStep DEF l
<1>4. ThreadPlace(t)'
  BY <1>1, <1>2, <1>3 DEF ThreadInv, ThreadPlace, MissingPlaces, CountedPlaces
<1>5. ThreadListener(t)'
  BY <1>1, <1>2, <1>3 DEF ThreadInv, ThreadListener, Entered
<1>6. ThreadSearch(t)'
  BY <1>2, <1>3 DEF ThreadSearch, MissingPlaces, CountedPlaces
<1>7. alive => Has(t)' = Null \/ Has(t)' = Has(t)
  BY <1>1, <1>2, <1>3 DEF Has, Explicit, ThreadInv, ThreadListener
<1>8. ~Counts(l) /\ Share(t, l) = 0 /\ Share(t, loc[t]) \in Int /\ l.at # "insert"
  BY <1>2 DEF Counts, CountedPlaces, Share
<1>9. implicitProducerHashCount' = implicitProducerHashCount + Share(t, l) - Share(t, loc[t])
  BY <1>1, <1>8 DEF TypeInv
<1> QED
  BY <1>1, <1>2, <1>3, <1>4, <1>5, <1>6, <1>7, <1>8, <1>9, ThreadLocalStep DEF ThreadInv

------------------------------------------------------------------------------
(* Where a search is                                                        *)

LEMMA Remainder ==
  ASSUME NEW c \in Nat \ {0}, NEW x \in Nat
  PROVE  x % c \in 0 .. c - 1
BY Division

LEMMA SmallRemainder ==
  ASSUME NEW c \in Nat \ {0}, NEW x \in 0 .. c - 1
  PROVE  x % c = x
<1> DEFINE r == x % c
           q == x \div c
<1>1. q \in Int /\ r \in 0 .. c - 1 /\ x = c * q + r
  BY Division
<1> HIDE DEF r, q
<1>2. x - r = c * q
  <2> DEFINE m == c * q
  <2>1. m \in Int
    BY <1>1
  <2> HIDE DEF m
  <2>2. x = m + r
    BY <1>1 DEF m
  <2>3. x - r = m
    BY <1>1, <2>1, <2>2
  <2> QED
    BY <2>3 DEF m
<1>3. x = r
  BY <1>1, <1>2, EqualRemainders
<1> QED
  BY <1>3 DEF r

LEMMA RoundTheEnd ==
  ASSUME NEW c \in Nat \ {0}
  PROVE  c % c = 0
<1> DEFINE r == c % c
           q == c \div c
<1>1. q \in Int /\ r \in 0 .. c - 1 /\ c = c * q + r
  BY Division
<1> HIDE DEF r, q
<1>2. r - 0 = c * (1 - q)
  <2> DEFINE m == c * q
  <2>1. m \in Int /\ c * (1 - q) = c - m
    BY <1>1, SMT
  <2> HIDE DEF m
  <2>2. c = m + r
    BY <1>1 DEF m
  <2>3. r - 0 = c - m
    BY <1>1, <2>1, <2>2
  <2> QED
    BY <2>1, <2>3
<1>3. 1 - q \in Int /\ 0 \in 0 .. c - 1
  BY <1>1
<1>4. r = 0
  BY <1>1, <1>2, <1>3, EqualRemainders
<1> QED
  BY <1>4 DEF r

\* The slot after `here` is one further, or the first of another round.
LEMMA NextSlot ==
  ASSUME NEW c \in Nat \ {0}, NEW b \in 0 .. c - 1, NEW here \in 0 .. c - 1,
         NEW i \in 0 .. c - 1,
         Distance(b, i, c) < Distance(b, (here + 1) % c, c)
  PROVE  i = here \/ Distance(b, i, c) < Distance(b, here, c)
<1>1. CASE here + 1 = c
  <2>1. (here + 1) % c = 0
    BY <1>1, RoundTheEnd
  <2> QED
    BY <1>1, <2>1 DEF Distance
<1>2. CASE here + 1 # c
  <2>1. here + 1 \in 0 .. c - 1
    BY <1>2
  <2>2. (here + 1) % c = here + 1
    BY <2>1, SmallRemainder
  <2> QED
    BY <2>2 DEF Distance
<1> QED
  BY <1>1, <1>2

\* Slots at one distance are one.
LEMMA EqualDistance ==
  ASSUME NEW c \in Nat \ {0}, NEW b \in 0 .. c - 1, NEW i \in 0 .. c - 1, NEW j \in 0 .. c - 1
  PROVE  /\ ~ (Distance(b, i, c) < Distance(b, b, c))
         /\ Distance(b, i, c) = Distance(b, j, c) => i = j
         /\ Distance(b, i, c) \in Nat
BY DEF Distance

\* A thread that begins to search a table has passed no slot, and one that goes on has
\* passed the slot it has probed.
LEMMA SearchBegins ==
  ASSUME ProducersAssumption, TypeInv, NEW h \in DOMAIN tables, NEW x \in Ids,
         NEW i \in DOMAIN tables[h]
  PROVE  ~ (Offset(h, x, i) < Distance(HashOf[x] % Capacity(h), HashOf[x] % Capacity(h),
                                       Capacity(h)))
<1>1. /\ Capacity(h) \in Nat \ {0} /\ i \in 0 .. Capacity(h) - 1 /\ HashOf[x] \in Nat
  BY Capacities DEF ProducersAssumption
<1>2. HashOf[x] % Capacity(h) \in 0 .. Capacity(h) - 1
  BY <1>1, Remainder
<1> QED
  BY <1>1, <1>2, EqualDistance DEF Offset

LEMMA SlotHere ==
  ASSUME ProducersAssumption, HashInv, NEW t \in Threads,
         loc[t].at \in {"probe", "forget", "adopt", "insert"}
  PROVE  /\ loc[t].table \in DOMAIN tables /\ Here(t) \in DOMAIN tables[loc[t].table]
         /\ loc[t].id \in Ids /\ alive
         /\ tables[loc[t].table][Here(t)] \in Slots
<1>1. TypeInv /\ loc[t] \in Locals /\ LocalsInRange(loc[t]) /\ ThreadInv(t)
  BY ThreadFacts
<1>2. loc[t].table \in DOMAIN tables
  BY <1>1 DEF ThreadInv, ThreadPlace, LocalsInRange, Locals, TypeInv
<1>3. loc[t].index % Capacity(loc[t].table) \in 0 .. Capacity(loc[t].table) - 1
  BY <1>1, <1>2, Capacities, Remainder DEF Locals
<1>4. Here(t) \in DOMAIN tables[loc[t].table]
  BY <1>1, <1>2, <1>3, Capacities DEF Here
<1>5. loc[t].id \in Ids
  BY <1>1, IdOfThread DEF ThreadInv
<1> QED
  BY <1>1, <1>2, <1>4, <1>5, Capacities DEF ThreadInv, ThreadPlace

LEMMA SearchGoesOn ==
  ASSUME ProducersAssumption, HashInv, NEW t \in Threads,
         loc[t].at \in {"probe", "forget", "adopt", "insert"},
         NEW i \in DOMAIN tables[loc[t].table],
         Offset(loc[t].table, loc[t].id, i) <
           Distance(HashOf[loc[t].id] % Capacity(loc[t].table),
                    (Here(t) + 1) % Capacity(loc[t].table), Capacity(loc[t].table))
  PROVE  i = Here(t) \/ Passed(t, i)
<1> DEFINE h == loc[t].table
           c == Capacity(h)
           b == HashOf[loc[t].id] % c
<1>1. h \in DOMAIN tables /\ Here(t) \in DOMAIN tables[h] /\ loc[t].id \in Ids /\ TypeInv
  BY SlotHere DEF HashInv
<1>2. c \in Nat \ {0} /\ i \in 0 .. c - 1 /\ Here(t) \in 0 .. c - 1
  BY <1>1, Capacities
<1>3. b \in 0 .. c - 1
  BY <1>1, <1>2, Remainder DEF ProducersAssumption
<1>4. Distance(b, i, c) < Distance(b, (Here(t) + 1) % c, c)
  BY DEF Offset
<1> HIDE DEF h, c, b
<1>5. i = Here(t) \/ Distance(b, i, c) < Distance(b, Here(t), c)
  BY <1>2, <1>3, <1>4, NextSlot
<1> QED
  BY <1>5 DEF Passed, Offset, h, c, b

------------------------------------------------------------------------------
(* The calls that have not found an entry                                    *)

LEMMA LockStep ==
  ASSUME ProducersAssumption, HashInv, NEW t \in Threads, Lock(t)
  PROVE  HashInv'
<1> DEFINE l == [loc[t] EXCEPT !.at = loc'[t].at]
<1>1. TypeInv /\ t \in Agents /\ loc[t] \in Locals /\ LocalsInRange(loc[t]) /\ ThreadInv(t)
      /\ implicitProducerHashResizeInProgress \in BOOLEAN
  BY ThreadFacts
<1>2. PICK place \in {"room", "grow"} : loc' = [loc EXCEPT ![t].at = place]
  BY DEF Lock, GoTo
<1>3. loc' = [loc EXCEPT ![t] = l] /\ l.at = place
  BY <1>1, <1>2 DEF TypeInv
<1>4. l \in Locals /\ LocalsInRange(l)
  BY <1>1, <1>3 DEF Locals, Places, LocalsInRange
<1>5. /\ l.id = loc[t].id /\ l.listener = loc[t].listener /\ l.producer = loc[t].producer
      /\ l.main = loc[t].main /\ l.newCount = loc[t].newCount
  BY <1>1 DEF Locals
<1>6. /\ l.producer = Null /\ l.main # 0 /\ l.newCount # 0 /\ loc[t].at = "lock"
  BY <1>1, <1>5 DEF Lock, ThreadInv, ThreadPlace, MissingPlaces, CountedPlaces
<1> HIDE DEF l
<1>7. Share(t, l) = 1 /\ Share(t, loc[t]) = 1 /\ Claims(t)
  BY <1>2, <1>3, <1>6 DEF Share, Counts, Claims, Counted, CountedPlaces
<1>8. implicitProducerHashCount' = implicitProducerHashCount + Share(t, l) - Share(t, loc[t])
  BY <1>1, <1>7 DEF Lock, TypeInv
<1>9. /\ tables' = tables /\ producers' = producers /\ alive' = alive
      /\ implicitProducerHashResizeInProgress' \in BOOLEAN
  BY <1>1 DEF Lock
<1> QED
  BY <1>2, <1>3, <1>4, <1>5, <1>6, <1>7, <1>8, <1>9, MissingStep DEF MissingPlaces, CountedPlaces

LEMMA RoomStep ==
  ASSUME ProducersAssumption, HashInv, NEW t \in Threads, Room(t)
  PROVE  HashInv'
<1> DEFINE enough == loc[t].newCount < ThreeQuarters(Capacity(loc[t].main))
           l == IF enough THEN [loc[t] EXCEPT !.ptr = Len(producers), !.at = "traverse"]
                ELSE [loc[t] EXCEPT !.main = Len(tables), !.at = "lock"]
<1>1. TypeInv /\ t \in Agents /\ loc[t] \in Locals /\ LocalsInRange(loc[t]) /\ ThreadInv(t)
      /\ implicitProducerHashResizeInProgress \in BOOLEAN
  BY ThreadFacts
<1>2. loc' = [loc EXCEPT ![t] = l]
  BY DEF Room
<1>3. Len(tables) \in Nat /\ Len(producers) \in Nat /\ Len(tables) # 0
  BY <1>1 DEF TypeInv
<1>4. /\ l.id = loc[t].id /\ l.listener = loc[t].listener /\ l.producer = loc[t].producer
      /\ l.main = (IF enough THEN loc[t].main ELSE Len(tables))
      /\ l.at = (IF enough THEN "traverse" ELSE "lock") /\ l.newCount = loc[t].newCount
  BY <1>1 DEF Locals
<1>5. l \in Locals /\ LocalsInRange(l)
  <2> DEFINE m == [loc[t] EXCEPT !.ptr = Len(producers), !.at = "traverse"]
             k == [loc[t] EXCEPT !.main = Len(tables), !.at = "lock"]
  <2>1. m \in Locals /\ LocalsInRange(m)
    <3>1. m \in Locals
      BY <1>1, <1>3 DEF Locals, Places
    <3>2. LocalsInRange(m)
      BY <1>1, <1>3 DEF Locals, LocalsInRange
    <3> QED
      BY <3>1, <3>2
  <2>2. k \in Locals /\ LocalsInRange(k)
    <3>1. k \in Locals
      BY <1>1, <1>3 DEF Locals, Places
    <3>2. LocalsInRange(k)
      BY <1>1, <1>3 DEF Locals, LocalsInRange
    <3> QED
      BY <3>1, <3>2
  <2>3. l = m \/ l = k
    OBVIOUS
  <2> HIDE DEF m, k, l
  <2> QED
    BY <2>1, <2>2, <2>3
<1>6. /\ loc[t].producer = Null /\ loc[t].main # 0 /\ loc[t].newCount # 0 /\ loc[t].at = "room"
  BY <1>1 DEF Room, ThreadInv, ThreadPlace, MissingPlaces, CountedPlaces
<1> HIDE DEF l
<1>7. Share(t, l) = 1 /\ Share(t, loc[t]) = 1 /\ Claims(t)
  BY <1>4, <1>6 DEF Share, Counts, Claims, Counted, CountedPlaces
<1>8. /\ tables' = tables /\ producers' = producers /\ alive' = alive
      /\ implicitProducerHashResizeInProgress' \in BOOLEAN
      /\ implicitProducerHashCount' = implicitProducerHashCount + Share(t, l) - Share(t, loc[t])
  BY <1>1, <1>7 DEF Room, HashUnchanged, TypeInv
<1>9. l.at \in {"traverse", "uncount"} => l.newCount < ThreeQuarters(Capacity(l.main))
  BY <1>4
<1> QED
  BY <1>2, <1>3, <1>4, <1>5, <1>6, <1>7, <1>8, <1>9, MissingStep DEF MissingPlaces, CountedPlaces

LEMMA CannotGrowStep ==
  ASSUME ProducersAssumption, HashInv, NEW t \in Threads, CannotGrow(t)
  PROVE  HashInv'
<1> DEFINE l == [loc[t] EXCEPT !.newCount = 0, !.at = "unlock"]
<1>1. TypeInv /\ t \in Agents /\ loc[t] \in Locals /\ LocalsInRange(loc[t]) /\ ThreadInv(t)
      /\ implicitProducerHashResizeInProgress \in BOOLEAN
  BY ThreadFacts
<1>2. loc' = [loc EXCEPT ![t] = l]
  BY DEF CannotGrow
<1>4. /\ l.id = loc[t].id /\ l.listener = loc[t].listener /\ l.producer = loc[t].producer
      /\ l.main = loc[t].main /\ l.at = "unlock" /\ l.newCount = 0
  BY <1>1 DEF Locals
<1>5. l \in Locals /\ LocalsInRange(l)
  BY <1>1 DEF Locals, Places, LocalsInRange
<1>6. /\ loc[t].producer = Null /\ loc[t].main # 0 /\ loc[t].at = "grow"
  BY <1>1 DEF CannotGrow, ThreadInv, ThreadPlace, MissingPlaces, CountedPlaces
<1> HIDE DEF l
<1>7. Share(t, l) = 0 /\ Share(t, loc[t]) = 1 /\ ~Counts(l)
  BY <1>4, <1>6 DEF Share, Counts, Claims, Counted, CountedPlaces
<1>8. /\ tables' = tables /\ producers' = producers /\ alive' = alive
      /\ implicitProducerHashResizeInProgress' \in BOOLEAN
      /\ implicitProducerHashCount' = implicitProducerHashCount + Share(t, l) - Share(t, loc[t])
  BY <1>1, <1>7 DEF CannotGrow, TypeInv
<1> QED
  BY <1>2, <1>4, <1>5, <1>6, <1>7, <1>8, MissingStep DEF MissingPlaces, CountedPlaces

LEMMA UnlockStep ==
  ASSUME ProducersAssumption, HashInv, NEW t \in Threads, Unlock(t)
  PROVE  HashInv'
<1>1. TypeInv /\ t \in Agents /\ loc[t] \in Locals /\ LocalsInRange(loc[t]) /\ ThreadInv(t)
  BY ThreadFacts
<1>2. /\ tables' = tables /\ producers' = producers /\ alive' = alive
      /\ implicitProducerHashResizeInProgress' \in BOOLEAN
      /\ implicitProducerHashCount' = implicitProducerHashCount /\ loc[t].at = "unlock"
  BY DEF Unlock
<1>3. CASE loc[t].newCount = 0
  <2>1. loc' = [loc EXCEPT ![t] = Returned(loc[t])]
    BY <1>3 DEF Unlock
  <2>2. Share(t, loc[t]) = 0
    BY <1>2, <1>3 DEF Share, Counts, CountedPlaces
  <2>3. implicitProducerHashCount' = implicitProducerHashCount - Share(t, loc[t])
    BY <1>1, <1>2, <2>2 DEF TypeInv
  <2> QED
    BY <1>2, <2>1, <2>3, ReturnStep
<1>4. CASE loc[t].newCount # 0
  <2> DEFINE l == [loc[t] EXCEPT !.at = "room"]
  <2>1. loc' = [loc EXCEPT ![t] = l]
    BY <1>4 DEF Unlock
  <2>2. /\ l.id = loc[t].id /\ l.listener = loc[t].listener /\ l.producer = loc[t].producer
        /\ l.main = loc[t].main /\ l.at = "room" /\ l.newCount = loc[t].newCount
    BY <1>1 DEF Locals
  <2>3. l \in Locals /\ LocalsInRange(l)
    BY <1>1 DEF Locals, Places, LocalsInRange
  <2>4. /\ loc[t].producer = Null /\ loc[t].main # 0
    BY <1>1, <1>2 DEF ThreadInv, ThreadPlace, MissingPlaces, CountedPlaces
  <2> HIDE DEF l
  <2>5. Share(t, l) = 1 /\ Share(t, loc[t]) = 1 /\ Claims(t)
    BY <1>2, <1>4, <2>2 DEF Share, Counts, Claims, Counted, CountedPlaces
  <2>6. implicitProducerHashCount' = implicitProducerHashCount + Share(t, l) - Share(t, loc[t])
    BY <1>1, <1>2, <2>5 DEF TypeInv
  <2> QED
    BY <1>2, <1>4, <2>1, <2>2, <2>3, <2>4, <2>5, <2>6, MissingStep
       DEF MissingPlaces, CountedPlaces
<1> QED
  BY <1>3, <1>4

LEMMA EnqueuedStep ==
  ASSUME ProducersAssumption, HashInv, NEW t \in Threads, Enqueued(t)
  PROVE  HashInv'
<1>1. TypeInv /\ implicitProducerHashResizeInProgress \in BOOLEAN
  BY ThreadFacts
<1>2. loc[t].at = "use" /\ loc' = [loc EXCEPT ![t] = Returned(loc[t])]
  BY DEF Enqueued
<1>3. Share(t, loc[t]) = 0
  BY <1>2 DEF Share, Counts, CountedPlaces
<1>4. /\ tables' = tables /\ producers' = producers /\ alive' = alive
      /\ implicitProducerHashResizeInProgress' \in BOOLEAN
      /\ implicitProducerHashCount' = implicitProducerHashCount - Share(t, loc[t])
  BY <1>1, <1>3 DEF Enqueued, HashUnchanged, TypeInv
<1> QED
  BY <1>2, <1>4, ReturnStep

LEMMA CountStep ==
  ASSUME ProducersAssumption, HashInv, NEW t \in Threads, Count(t)
  PROVE  HashInv'
<1> DEFINE l == [loc[t] EXCEPT !.newCount = implicitProducerHashCount + 1, !.at = "lock"]
<1>1. /\ TypeInv /\ t \in Agents /\ loc[t] \in Locals /\ LocalsInRange(loc[t]) /\ ThreadInv(t)
      /\ t \notin Tokens /\ implicitProducerHashResizeInProgress \in BOOLEAN
      /\ loc[t].id # Null => \A u \in Threads : u # t => loc[u].id # loc[t].id
  BY ThreadFacts
<1>2. /\ loc' = [loc EXCEPT ![t] = l] /\ loc[t].at = "count"
      /\ implicitProducerHashCount' = implicitProducerHashCount + 1
      /\ tables' = tables /\ producers' = producers /\ alive' = alive
      /\ implicitProducerHashResizeInProgress' \in BOOLEAN
  BY <1>1 DEF Count
<1>3. loc[t].at \in MissingPlaces
  BY <1>2 DEF MissingPlaces
<1>4. /\ \A h \in DOMAIN tables : ~HasKey(h, loc[t].id)
      /\ loc[t].id \in Ids /\ alive /\ loc[t].main # 0
  BY <1>3, MissingFacts
<1>5. /\ IsFiniteSet(Claimants) /\ Cardinality(Claimants) \in Nat
      /\ Cardinality(Claimants) <= implicitProducerHashCount
  BY <1>4, ClaimantsAreCounted
<1>6. implicitProducerHashCount \in Nat /\ implicitProducerHashCount' \in Nat
  <2>1. implicitProducerHashCount = Cardinality(ImplicitProducers) + Cardinality(Counted)
    BY CountedSays DEF HashInv
  <2> QED
    BY <1>1, <1>2, <2>1, CountedType
<1>7. /\ l.id = loc[t].id /\ l.listener = loc[t].listener /\ l.producer = loc[t].producer
      /\ l.main = loc[t].main /\ l.newCount = implicitProducerHashCount' /\ l.at = "lock"
  BY <1>1, <1>2 DEF Locals
<1>8. l \in Locals
  <2>1. implicitProducerHashCount + 1 \in Nat
    BY <1>6
  <2> QED
    BY <1>1, <2>1 DEF Locals, Places
<1>9. LocalsInRange(l)
  BY <1>1 DEF LocalsInRange, Locals
<1>10. loc[t].producer = Null
  BY <1>1, <1>2 DEF ThreadInv, ThreadPlace, MissingPlaces, CountedPlaces
<1> HIDE DEF l
<1>11. ThreadInv(t)' /\ Has(t)' = Null
  <2>1. \A h \in DOMAIN tables' : \A i \in DOMAIN tables'[h] : tables'[h][i].key # l.id
    BY <1>2, <1>4, <1>7 DEF HasKey
  <2>2. l.newCount # 0 /\ l.producer = Null /\ l.main # 0
    BY <1>2, <1>4, <1>6, <1>7, <1>10
  <2>3. l.at \in MissingPlaces \ {"insert"} /\ l.at \notin {"traverse", "uncount"}
    BY <1>7 DEF MissingPlaces, CountedPlaces
  <2> QED
    BY <1>2, <1>3, <1>7, <1>8, <2>1, <2>2, <2>3, MissingThread
<1>12. CountsProducers' /\ implicitProducerHashCount' \in Int
  <2>1. Share(t, l) = 1 /\ Share(t, loc[t]) = 0
    BY <1>2, <1>7 DEF Share, Counts, CountedPlaces
  <2>2. implicitProducerHashCount' = implicitProducerHashCount + Share(t, l) - Share(t, loc[t])
    BY <1>2, <1>6, <2>1
  <2>3. ImplicitProducers' = ImplicitProducers
    BY <1>2 DEF ImplicitProducers
  <2> QED
    BY <1>1, <1>2, <1>8, <2>2, <2>3, CountsStep
<1>13. ASSUME NEW n \in Nat
       PROVE  Cardinality(Reserved(n)') <= n
  <2>1. loc'[t] = l /\ \A u \in Threads : u # t => loc'[u] = loc[u]
    BY <1>1, <1>2, <1>8, LocalsStep DEF Agents
  <2>2. \A x \in Reserved(n)' : x \in Reserved(n) \/ (x = loc[t].id /\ implicitProducerHashCount' <= n)
    <3>1. ASSUME NEW u \in Threads, u # t
          PROVE  Claims(u)' => Claims(u)
      BY <2>1, <3>1 DEF Claims, Counted
    <3> QED
      BY <1>2, <1>7, <2>1, <3>1 DEF Reserved, HasKey, Capacity
  <2>3. Reserved(n) \subseteq Claimants
    BY DEF Reserved, Claimants
  <2>4. IsFiniteSet(Reserved(n)) /\ Cardinality(Reserved(n)) \in Nat
    BY <1>5, <2>3, FS_Subset, FS_CardinalityType
  <2>5. CASE implicitProducerHashCount' <= n
    <3>1. Reserved(n)' \subseteq Claimants \cup {loc[t].id}
      BY <2>2, <2>3
    <3>2. /\ IsFiniteSet(Claimants \cup {loc[t].id})
          /\ Cardinality(Claimants \cup {loc[t].id}) \in Nat
          /\ Cardinality(Claimants \cup {loc[t].id}) <= Cardinality(Claimants) + 1
      <4>1. /\ IsFiniteSet(Claimants \cup {loc[t].id})
            /\ Cardinality(Claimants \cup {loc[t].id}) =
                 IF loc[t].id \in Claimants THEN Cardinality(Claimants)
                 ELSE Cardinality(Claimants) + 1
        BY <1>5, FS_AddElement
      <4> QED
        BY <1>5, <4>1
    <3>3. Cardinality(Reserved(n)') \in Nat
          /\ Cardinality(Reserved(n)') <= Cardinality(Claimants \cup {loc[t].id})
      BY <3>1, <3>2, FS_Subset, FS_CardinalityType
    <3> QED
      BY <1>2, <1>5, <1>6, <2>5, <3>2, <3>3
  <2>6. CASE ~(implicitProducerHashCount' <= n)
    <3>1. Reserved(n)' \subseteq Reserved(n)
      BY <2>2, <2>6
    <3>2. Cardinality(Reserved(n)') \in Nat
          /\ Cardinality(Reserved(n)') <= Cardinality(Reserved(n))
      BY <2>4, <3>1, FS_Subset, FS_CardinalityType
    <3>3. Cardinality(Reserved(n)) <= n
      BY <1>4 DEF HashInv, RoomInv
    <3> QED
      BY <2>4, <3>2, <3>3
  <2> QED
    BY <2>5, <2>6
<1>14. RoomInv'
  BY <1>13 DEF RoomInv
<1>15. /\ \A u \in Threads : u # t /\ l.id # Null => loc[u].id # l.id
       /\ t \notin Tokens
  BY <1>1, <1>7
<1> QED
  BY <1>1, <1>2, <1>8, <1>9, <1>11, <1>12, <1>14, <1>15, LocalStep

LEMMA NoProducerStep ==
  ASSUME ProducersAssumption, HashInv, NEW t \in Threads, NoProducer(t)
  PROVE  HashInv'
<1> DEFINE l == [loc[t] EXCEPT !.ptr = Null, !.producer = Null, !.at = "uncount"]
<1>1. TypeInv /\ t \in Agents /\ loc[t] \in Locals /\ LocalsInRange(loc[t]) /\ ThreadInv(t)
      /\ t \notin Tokens /\ implicitProducerHashResizeInProgress \in BOOLEAN
  BY ThreadFacts
<1>2. loc' = [loc EXCEPT ![t] = l]
  BY <1>1 DEF NoProducer, Obtained, Explicit
<1>3. /\ l.id = loc[t].id /\ l.listener = loc[t].listener /\ l.producer = Null
      /\ l.main = loc[t].main /\ l.at = "uncount" /\ l.newCount = loc[t].newCount
  BY <1>1 DEF Locals
<1>4. l \in Locals
  BY <1>1 DEF Locals, Places, Null
<1>5. LocalsInRange(l)
  <2>1. Len(producers) \in Nat
    BY <1>1 DEF TypeInv
  <2> QED
    BY <1>1, <2>1 DEF Locals, LocalsInRange, Null
<1>6. /\ loc[t].main # 0 /\ loc[t].at = "traverse" /\ loc[t].newCount # 0
      /\ loc[t].newCount < ThreeQuarters(Capacity(loc[t].main))
  BY <1>1 DEF NoProducer, ThreadInv, ThreadPlace, MissingPlaces, CountedPlaces
<1> HIDE DEF l
<1>7. Share(t, l) = 1 /\ Share(t, loc[t]) = 1 /\ Claims(t)
  BY <1>3, <1>6 DEF Share, Counts, Claims, Counted, CountedPlaces
<1>8. implicitProducerHashCount' = implicitProducerHashCount + Share(t, l) - Share(t, loc[t])
  BY <1>1, <1>7 DEF NoProducer, HashUnchanged, TypeInv
<1>9. /\ tables' = tables /\ producers' = producers /\ alive' = alive
      /\ implicitProducerHashResizeInProgress' \in BOOLEAN
  BY <1>1 DEF NoProducer, HashUnchanged
<1> QED
  BY <1>2, <1>3, <1>4, <1>5, <1>6, <1>7, <1>8, <1>9, MissingStep DEF MissingPlaces, CountedPlaces

LEMMA NothingPassed ==
  ASSUME ProducersAssumption, TypeInv, NEW t \in Threads, NEW l \in Locals, loc'[t] = l,
         l.table \in DOMAIN tables, Capacity(l.table)' = Capacity(l.table), l.id \in Ids,
         l.index = HashOf[l.id], NEW i \in DOMAIN tables[l.table]
  PROVE  ~Passed(t, i)'
<1> DEFINE c == Capacity(l.table)
           b == HashOf[l.id] % c
<1>1. ~ (Offset(l.table, l.id, i) < Distance(b, b, c))
  BY SearchBegins
<1>2. Passed(t, i)' <=> Offset(l.table, l.id, i) < Distance(b, b, c)
  BY DEF Passed, Offset, Here
<1> QED
  BY <1>1, <1>2

\* A call that has obtained a producer begins to look for a slot.
LEMMA InsertThread ==
  ASSUME ProducersAssumption, HashInv, NEW t \in Threads, loc[t].at \in MissingPlaces,
         NEW l \in Locals, loc' = [loc EXCEPT ![t] = l], alive' = alive, tables' = tables,
         l.at = "insert", l.id = loc[t].id, l.listener = loc[t].listener,
         l.producer # Null, l.main = loc[t].main, l.newCount # 0,
         l.newCount < ThreeQuarters(Capacity(l.main)),
         l.table = l.main, l.index = HashOf[l.id]
  PROVE  ThreadInv(t)' /\ Has(t)' = l.producer
<1>1. /\ TypeInv /\ t \in Agents /\ t \notin Tokens /\ ThreadInv(t) /\ loc'[t] = l
  BY ThreadFacts, LocalsStep
<1>2. loc[t].listener = Null
  BY NoListener
<1>3. /\ \A h \in DOMAIN tables : ~HasKey(h, loc[t].id)
      /\ loc[t].id \in Ids /\ alive /\ loc[t].main # 0 /\ loc[t].main \in DOMAIN tables
  BY MissingFacts
<1>4. ThreadPlace(t)'
  BY <1>1, <1>2, <1>3 DEF ThreadInv, ThreadPlace, MissingPlaces, CountedPlaces, Capacity
<1>5. ThreadListener(t)'
  BY <1>1, <1>2 DEF ThreadListener
<1>6. ThreadSearch(t)'
  <2>1. \A h \in DOMAIN tables' : ~HasKey(h, l.id)'
    BY <1>3 DEF HasKey
  <2>2. \A i \in DOMAIN tables[l.table] : ~Passed(t, i)'
    BY <1>1, <1>3, NothingPassed DEF Capacity
  <2> QED
    BY <1>1, <1>3, <2>1, <2>2 DEF ThreadSearch, MissingPlaces, CountedPlaces
<1>7. Has(t)' = l.producer
  BY <1>1 DEF Has, Explicit
<1> QED
  BY <1>4, <1>5, <1>6, <1>7 DEF ThreadInv

LEMMA UncountStep ==
  ASSUME ProducersAssumption, HashInv, NEW t \in Threads, Uncount(t)
  PROVE  HashInv'
<1>1. /\ TypeInv /\ t \in Agents /\ loc[t] \in Locals /\ LocalsInRange(loc[t]) /\ ThreadInv(t)
      /\ t \notin Tokens /\ implicitProducerHashResizeInProgress \in BOOLEAN
      /\ loc[t].id # Null => \A u \in Threads : u # t => loc[u].id # loc[t].id
  BY ThreadFacts
<1>2. /\ tables' = tables /\ producers' = producers /\ alive' = alive
      /\ implicitProducerHashResizeInProgress' \in BOOLEAN /\ loc[t].at = "uncount"
      /\ implicitProducerHashCount' = implicitProducerHashCount - 1
  BY <1>1 DEF Uncount
<1>3. Share(t, loc[t]) = 1 /\ Claims(t)
  BY <1>2 DEF Share, Counts, CountedPlaces, Claims, Counted
<1>4. CASE loc[t].producer = Null
  <2>1. loc' = [loc EXCEPT ![t] = Returned(loc[t])]
    BY <1>4 DEF Uncount
  <2>2. implicitProducerHashCount' = implicitProducerHashCount - Share(t, loc[t])
    BY <1>2, <1>3
  <2> QED
    BY <1>2, <2>1, <2>2, ReturnStep
<1>5. CASE loc[t].producer # Null
  <2> DEFINE l == From([loc[t] EXCEPT !.at = "insert"], loc[t].main)
  <2>1. loc' = [loc EXCEPT ![t] = l]
    BY <1>5 DEF Uncount, From
  <2>2. /\ loc[t].id \in Ids /\ loc[t].main # 0 /\ alive
    BY <1>2, MissingFacts DEF MissingPlaces, CountedPlaces
  <2>3. HashOf[loc[t].id] \in Nat
    BY <2>2 DEF ProducersAssumption
  <2>4. /\ l.id = loc[t].id /\ l.listener = loc[t].listener /\ l.producer = loc[t].producer
        /\ l.main = loc[t].main /\ l.at = "insert" /\ l.newCount = loc[t].newCount
        /\ l.table = loc[t].main /\ l.index = HashOf[loc[t].id]
    BY <1>1 DEF Locals, From
  <2>5. l \in Locals
    BY <1>1, <2>3 DEF Locals, Places, From
  <2>6. LocalsInRange(l)
    BY <1>1 DEF Locals, LocalsInRange, From
  <2>7. /\ loc[t].newCount # 0
        /\ loc[t].newCount < ThreeQuarters(Capacity(loc[t].main))
    BY <1>1, <1>2 DEF ThreadInv, ThreadPlace, MissingPlaces, CountedPlaces
  <2> HIDE DEF l
  <2>8. ThreadInv(t)' /\ Has(t)' = loc[t].producer
    BY <1>2, <1>5, <2>1, <2>4, <2>5, <2>7, InsertThread DEF MissingPlaces, CountedPlaces
  <2>9. Has(t) = loc[t].producer
    BY <1>1, <1>5 DEF Has, Explicit
  <2>10. Share(t, l) = 0 /\ ~Counts(l)
    BY <2>4 DEF Share, Counts, CountedPlaces
  <2>11. implicitProducerHashCount' = implicitProducerHashCount + Share(t, l) - Share(t, loc[t])
    BY <1>1, <1>2, <1>3, <2>10 DEF TypeInv
  <2> QED
    BY <1>1, <1>2, <1>3, <2>1, <2>4, <2>5, <2>6, <2>8, <2>9, <2>11, ThreadLocalStep
<1> QED
  BY <1>4, <1>5

------------------------------------------------------------------------------
(* The search of a call                                                     *)

LEMMA TableMissesKey ==
  ASSUME ProducersAssumption, HashInv, NEW t \in Threads, loc[t].at \in {"probe", "forget"},
         Probed(t) = invalid_thread_id
  PROVE  ~HasKey(loc[t].table, loc[t].id)
<1> DEFINE h == loc[t].table
           x == loc[t].id
           c == Capacity(h)
           b == HashOf[x] % c
<1>1. /\ h \in DOMAIN tables /\ Here(t) \in DOMAIN tables[h] /\ x \in Ids /\ alive
      /\ TypeInv /\ ThreadInv(t) /\ TableInv(h)
  BY SlotHere, ThreadFacts DEF HashInv, TablesInv
<1>2. c \in Nat \ {0} /\ DOMAIN tables[h] = 0 .. c - 1
  BY <1>1, Capacities
<1>3. b \in 0 .. c - 1
  BY <1>1, <1>2, Remainder DEF ProducersAssumption
<1>4. SUFFICES ASSUME NEW i \in DOMAIN tables[h], tables[h][i].key = x
               PROVE  FALSE
  BY DEF HasKey
<1>5. ~ (Offset(h, x, i) < Offset(h, x, Here(t)))
  BY <1>1, <1>4 DEF ThreadInv, ThreadSearch, Passed
<1>6. ~ (Offset(h, x, Here(t)) < Offset(h, x, i))
  BY <1>1, <1>4 DEF TableInv, Probed
<1>7. /\ Offset(h, x, i) = Distance(b, i, c) /\ Offset(h, x, Here(t)) = Distance(b, Here(t), c)
  BY DEF Offset
<1> HIDE DEF c, b
<1>8. i = Here(t)
  <2>1. /\ Distance(b, i, c) \in Nat /\ Distance(b, Here(t), c) \in Nat
        /\ Distance(b, i, c) = Distance(b, Here(t), c) => i = Here(t)
    BY <1>1, <1>2, <1>3, <1>4, EqualDistance
  <2> QED
    BY <1>5, <1>6, <1>7, <2>1
<1> QED
  BY <1>1, <1>4, <1>8 DEF Probed, ProducersAssumption, invalid_thread_id

LEMMA BeginStep ==
  ASSUME ProducersAssumption, HashInv, NEW t \in Threads, Begin(t)
  PROVE  HashInv'
<1> DEFINE l == From([loc[t] EXCEPT !.at = "probe", !.main = Len(tables)], Len(tables))
<1>1. /\ TypeInv /\ t \in Agents /\ loc[t] \in Locals /\ LocalsInRange(loc[t]) /\ ThreadInv(t)
      /\ t \notin Tokens /\ implicitProducerHashResizeInProgress \in BOOLEAN
      /\ loc[t].id # Null => \A u \in Threads : u # t => loc[u].id # loc[t].id
  BY ThreadFacts
<1>2. /\ loc' = [loc EXCEPT ![t] = l] /\ loc[t].at = "idle" /\ alive
      /\ tables' = tables /\ producers' = producers /\ alive' = alive
      /\ implicitProducerHashResizeInProgress' \in BOOLEAN
      /\ implicitProducerHashCount' = implicitProducerHashCount
  BY <1>1 DEF Begin, HashUnchanged
<1>3. loc[t].id \in Ids /\ HashOf[loc[t].id] \in Nat
  BY <1>1, <1>2, IdOfThread DEF ThreadInv, ProducersAssumption
<1>4. Len(tables) \in Nat /\ Len(tables) # 0 /\ Len(tables) \in DOMAIN tables
      /\ DOMAIN tables = 1 .. Len(tables)
  BY <1>1 DEF TypeInv
<1>5. /\ l.id = loc[t].id /\ l.listener = loc[t].listener /\ l.producer = loc[t].producer
      /\ l.main = Len(tables) /\ l.at = "probe" /\ l.table = Len(tables)
      /\ l.index = HashOf[loc[t].id]
  BY <1>1 DEF Locals, From
<1>6. l \in Locals
  BY <1>1, <1>3, <1>4 DEF Locals, Places, From
<1>7. LocalsInRange(l)
  BY <1>1, <1>4 DEF Locals, LocalsInRange, From
<1> HIDE DEF l
<1>8. loc'[t] = l
  BY <1>1, <1>2, <1>6, LocalsStep
<1>9. ThreadPlace(t)'
  BY <1>1, <1>2, <1>4, <1>5, <1>8 DEF ThreadInv, ThreadPlace, MissingPlaces, CountedPlaces
<1>10. ThreadListener(t)'
  BY <1>1, <1>2, <1>5, <1>8 DEF ThreadInv, ThreadListener, Entered
<1>11. ThreadSearch(t)'
  <2>1. \A h \in DOMAIN tables' : ~(h > Len(tables))
    BY <1>2, <1>4
  <2>2. \A i \in DOMAIN tables[l.table] : ~Passed(t, i)'
    BY <1>1, <1>2, <1>3, <1>4, <1>5, <1>6, <1>8, NothingPassed DEF Capacity
  <2> QED
    BY <1>2, <1>5, <1>8, <2>1, <2>2 DEF ThreadSearch, MissingPlaces, CountedPlaces
<1>12. Has(t)' = Has(t)
  BY <1>5, <1>8 DEF Has, Explicit
<1>13. ~Counts(l) /\ Share(t, l) = 0 /\ Share(t, loc[t]) = 0 /\ l.at # "insert"
  BY <1>2, <1>5 DEF Counts, CountedPlaces, Share
<1>14. implicitProducerHashCount' = implicitProducerHashCount + Share(t, l) - Share(t, loc[t])
  BY <1>1, <1>2, <1>13 DEF TypeInv
<1> QED
  BY <1>1, <1>2, <1>5, <1>6, <1>7, <1>9, <1>10, <1>11, <1>12, <1>13, <1>14, ThreadLocalStep
     DEF ThreadInv

\* The entry that a search has found is that of the thread's producer.
LEMMA FoundEntry ==
  ASSUME ProducersAssumption, HashInv, NEW t \in Threads, loc[t].at = "probe",
         Probed(t) = loc[t].id
  PROVE  /\ Entered(loc[t].id, ProbedValue(t)) /\ HasKey(loc[t].table, loc[t].id)
         /\ ProbedValue(t) \in Nat /\ ProbedValue(t) # Null /\ ProbedValue(t) <= Len(producers)
         /\ loc[t].listener # Null => loc[t].listener = ProbedValue(t)
<1>1. /\ loc[t].table \in DOMAIN tables /\ Here(t) \in DOMAIN tables[loc[t].table]
      /\ loc[t].id \in Ids /\ alive /\ tables[loc[t].table][Here(t)] \in Slots
  BY SlotHere
<1>2. TypeInv /\ ThreadInv(t) /\ t \in Agents /\ t \notin Tokens
  BY ThreadFacts
<1>3. /\ ProbedValue(t) \in Nat /\ ProbedValue(t) <= Len(producers)
      /\ Entered(loc[t].id, ProbedValue(t)) /\ HasKey(loc[t].table, loc[t].id)
  BY <1>1, <1>2 DEF ProbedValue, Probed, Slots, TypeInv, Entered, HasKey
<1>4. EntryInv(loc[t].id, ProbedValue(t))
  BY <1>1, <1>3 DEF HashInv, EntriesInv
<1>5. ProbedValue(t) # Null
  BY <1>2, <1>4 DEF EntryInv, TypeInv, Null
<1>6. Has(t) = loc[t].listener
  BY <1>2 DEF Has, Explicit, ThreadInv, ThreadPlace, MissingPlaces, CountedPlaces
<1> QED
  BY <1>3, <1>4, <1>5, <1>6 DEF EntryInv

LEMMA SkipStep ==
  ASSUME ProducersAssumption, HashInv, NEW t \in Threads,
         loc[t].at \in {"probe", "forget", "adopt", "insert"},
         loc[t].at \in {"probe", "forget"} => Probed(t) # loc[t].id,
         loc[t].at \in {"adopt", "insert"} => Probed(t) # invalid_thread_id,
         loc' = [loc EXCEPT ![t].index = Here(t) + 1],
         tables' = tables, producers' = producers, alive' = alive,
         implicitProducerHashResizeInProgress' \in BOOLEAN,
         implicitProducerHashCount' = implicitProducerHashCount
  PROVE  HashInv'
<1> DEFINE x == loc[t].id
           h == loc[t].table
           l == [loc[t] EXCEPT !.index = Here(t) + 1]
<1>1. /\ TypeInv /\ t \in Agents /\ loc[t] \in Locals /\ LocalsInRange(loc[t]) /\ ThreadInv(t)
      /\ t \notin Tokens
      /\ loc[t].id # Null => \A u \in Threads : u # t => loc[u].id # loc[t].id
  BY ThreadFacts
<1>2. /\ h \in DOMAIN tables /\ Here(t) \in DOMAIN tables[h] /\ x \in Ids /\ alive
  BY SlotHere
<1>3. loc' = [loc EXCEPT ![t] = l]
  OBVIOUS
<1>4. Here(t) \in Nat
  BY <1>1, <1>2, Capacities
<1>5. /\ l.id = x /\ l.listener = loc[t].listener /\ l.producer = loc[t].producer
      /\ l.at = loc[t].at /\ l.main = loc[t].main /\ l.table = h /\ l.index = Here(t) + 1
      /\ l.newCount = loc[t].newCount
  BY <1>1 DEF Locals
<1>6. l \in Locals
  BY <1>1, <1>4 DEF Locals, Places
<1>7. LocalsInRange(l)
  BY <1>1 DEF Locals, LocalsInRange
<1> HIDE DEF l
<1>8. loc'[t] = l
  BY <1>1, <1>3, <1>6, LocalsStep
<1>9. ThreadPlace(t)'
  BY <1>1, <1>5, <1>8 DEF ThreadInv, ThreadPlace, MissingPlaces, CountedPlaces, Capacity
<1>10. ThreadListener(t)'
  BY <1>1, <1>5, <1>8 DEF ThreadInv, ThreadListener, Entered
<1>11. ASSUME NEW i \in DOMAIN tables[h], Passed(t, i)'
       PROVE  i = Here(t) \/ Passed(t, i)
  <2>1. Offset(h, x, i) < Distance(HashOf[x] % Capacity(h), (Here(t) + 1) % Capacity(h),
                                   Capacity(h))
    BY <1>5, <1>8, <1>11 DEF Passed, Offset, Here, Capacity
  <2> QED
    BY <2>1, SearchGoesOn
<1>12. ThreadSearch(t)'
  <2>1. loc[t].at \in {"probe", "forget"} =>
          /\ \A g \in DOMAIN tables' : g > h => \A i \in DOMAIN tables'[g] : tables'[g][i].key # x
          /\ \A i \in DOMAIN tables'[h] : Passed(t, i)' => tables'[h][i].key # x
    BY <1>1, <1>11 DEF ThreadInv, ThreadSearch, Probed, HasKey
  <2>2. loc[t].at \in {"adopt", "insert"} =>
          /\ \A i \in DOMAIN tables'[loc[t].main] : tables'[loc[t].main][i].key # x
          /\ \A i \in DOMAIN tables'[h] : Passed(t, i)' => tables'[h][i].key # invalid_thread_id
    BY <1>1, <1>11 DEF ThreadInv, ThreadSearch, Probed, HasKey
  <2>3. /\ loc[t].at = "adopt" =>
             /\ Entered(x, loc[t].producer)
             /\ \E g \in DOMAIN tables : g <= loc[t].main /\ HasKey(g, x)
        /\ loc[t].at \in MissingPlaces \cup {"retire"} => \A g \in DOMAIN tables : ~HasKey(g, x)
    BY <1>1 DEF ThreadInv, ThreadSearch
  <2> QED
    BY <1>5, <1>8, <2>1, <2>2, <2>3 DEF ThreadSearch, HasKey, Entered
<1>13. Has(t)' = Has(t)
  BY <1>5, <1>8 DEF Has, Explicit
<1>14. Share(t, l) = 0 /\ Share(t, loc[t]) = 0 /\ ~Counts(l)
  BY <1>5 DEF Share, Counts, CountedPlaces
<1>15. implicitProducerHashCount' = implicitProducerHashCount + Share(t, l) - Share(t, loc[t])
  BY <1>1, <1>14 DEF TypeInv
<1>16. l.at = "insert" => Claims(t)
  BY <1>5 DEF Claims
<1> QED
  BY <1>1, <1>3, <1>5, <1>6, <1>7, <1>9, <1>10, <1>12, <1>13, <1>14, <1>15, <1>16,
     ThreadLocalStep DEF ThreadInv

LEMMA ProbeStep ==
  ASSUME ProducersAssumption, HashInv, NEW t \in Threads, Probe(t)
  PROVE  HashInv'
<1> DEFINE x == loc[t].id
           h == loc[t].table
<1>1. /\ TypeInv /\ t \in Agents /\ loc[t] \in Locals /\ LocalsInRange(loc[t]) /\ ThreadInv(t)
      /\ t \notin Tokens /\ implicitProducerHashResizeInProgress \in BOOLEAN
      /\ loc[t].id # Null => \A u \in Threads : u # t => loc[u].id # loc[t].id
  BY ThreadFacts
<1>2. /\ loc[t].at = "probe"
      /\ tables' = tables /\ producers' = producers /\ alive' = alive
      /\ implicitProducerHashResizeInProgress' \in BOOLEAN
      /\ implicitProducerHashCount' = implicitProducerHashCount
  BY <1>1 DEF Probe, HashUnchanged
<1>3. /\ h \in DOMAIN tables /\ Here(t) \in DOMAIN tables[h] /\ x \in Ids /\ alive
      /\ tables[h][Here(t)] \in Slots /\ HashOf[x] \in Nat
  BY <1>2, SlotHere DEF ProducersAssumption
<1>4. /\ loc[t].main # 0 /\ h # 0 /\ h <= loc[t].main /\ loc[t].producer = Null
      /\ loc[t].main \in DOMAIN tables /\ DOMAIN tables = 1 .. Len(tables) /\ Len(tables) \in Nat
      /\ h \in Nat /\ loc[t].main \in Nat
  BY <1>1, <1>2 DEF ThreadInv, ThreadPlace, MissingPlaces, CountedPlaces, TypeInv,
     LocalsInRange, Locals
<1>5. Share(t, loc[t]) = 0 /\ Has(t) = loc[t].listener
  BY <1>1, <1>2, <1>4 DEF Share, Counts, CountedPlaces, Has, Explicit
<1>6. \A g \in DOMAIN tables : g > h => ~HasKey(g, x)
  BY <1>1, <1>2 DEF ThreadInv, ThreadSearch
<1>7. ASSUME NEW l \in Locals, loc' = [loc EXCEPT ![t] = l], LocalsInRange(l),
             l.id = x, l.listener = loc[t].listener, l.at \in {"use", "adopt", "probe", "count"},
             ThreadInv(t)',
             \/ l.producer = Null
             \/ Entered(x, l.producer)
      PROVE  HashInv'
  <2>1. ~Counts(l) /\ Share(t, l) = 0 /\ l.at # "insert"
    BY <1>7 DEF Counts, CountedPlaces, Share
  <2>2. implicitProducerHashCount' = implicitProducerHashCount + Share(t, l) - Share(t, loc[t])
    BY <1>1, <1>2, <1>5, <2>1 DEF TypeInv
  <2>3. loc'[t] = l
    BY <1>1, <1>7, LocalsStep
  <2>4. \/ Has(t)' = Has(t)
        \/ Entered(x, Has(t)')
    BY <1>1, <1>5, <1>7, <2>3 DEF Has, Explicit
  <2> QED
    BY <1>1, <1>2, <1>3, <1>7, <2>1, <2>2, <2>4, ThreadLocalStep
<1>8. CASE Probed(t) = x
  <2> DEFINE found == [loc[t] EXCEPT !.producer = ProbedValue(t)]
             p == ProbedValue(t)
  <2>1. /\ Entered(x, p) /\ HasKey(h, x) /\ p \in Nat /\ p # Null /\ p <= Len(producers)
        /\ loc[t].listener # Null => loc[t].listener = p
    BY <1>2, <1>8, FoundEntry
  <2>2. CASE h = loc[t].main
    <3> DEFINE l == [found EXCEPT !.at = "use"]
    <3>1. loc' = [loc EXCEPT ![t] = l]
      BY <1>8, <2>2 DEF Probe
    <3>2. /\ l.id = x /\ l.listener = loc[t].listener /\ l.producer = p /\ l.at = "use"
      BY <1>1 DEF Locals
    <3>3. l \in Locals
      BY <1>1, <2>1 DEF Locals, Places
    <3>4. LocalsInRange(l)
      BY <1>1, <2>1 DEF Locals, LocalsInRange
    <3> HIDE DEF l, p
    <3>5. loc'[t] = l
      BY <1>1, <3>1, <3>3, LocalsStep
    <3>6. ThreadPlace(t)'
      BY <1>1, <1>2, <1>3, <2>1, <3>2, <3>5 DEF ThreadInv, ThreadPlace, MissingPlaces, CountedPlaces
    <3>7. ThreadListener(t)'
      BY <1>1, <1>2, <2>1, <3>2, <3>5 DEF ThreadInv, ThreadListener, Entered
    <3>8. ThreadSearch(t)'
      BY <3>2, <3>5 DEF ThreadSearch, MissingPlaces, CountedPlaces
    <3> QED
      BY <1>7, <2>1, <3>1, <3>2, <3>3, <3>4, <3>6, <3>7, <3>8 DEF ThreadInv
  <2>3. CASE h # loc[t].main
    <3> DEFINE l == From([found EXCEPT !.at = "adopt"], loc[t].main)
    <3>1. loc' = [loc EXCEPT ![t] = l]
      BY <1>8, <2>3 DEF Probe, From
    <3>2. /\ l.id = x /\ l.listener = loc[t].listener /\ l.producer = p /\ l.at = "adopt"
          /\ l.main = loc[t].main /\ l.table = loc[t].main /\ l.index = HashOf[x]
      BY <1>1 DEF Locals, From
    <3>3. l \in Locals
      BY <1>1, <1>3, <2>1 DEF Locals, Places, From
    <3>4. LocalsInRange(l)
      BY <1>1, <2>1 DEF Locals, LocalsInRange, From
    <3> HIDE DEF l, p
    <3>5. loc'[t] = l
      BY <1>1, <3>1, <3>3, LocalsStep
    <3>6. ThreadPlace(t)'
      BY <1>1, <1>2, <1>3, <1>4, <2>1, <3>2, <3>5
         DEF ThreadInv, ThreadPlace, MissingPlaces, CountedPlaces
    <3>7. ThreadListener(t)'
      BY <1>1, <1>2, <2>1, <3>2, <3>5 DEF ThreadInv, ThreadListener, Entered
    <3>8. ThreadSearch(t)'
      <4>1. \A i \in DOMAIN tables[l.table] : ~Passed(t, i)'
        BY <1>1, <1>2, <1>3, <1>4, <3>2, <3>3, <3>5, NothingPassed DEF Capacity
      <4>2. ~HasKey(loc[t].main, x)
        BY <1>4, <1>6, <2>3
      <4>3. /\ \E g \in DOMAIN tables' : \E i \in DOMAIN tables'[g] :
                 tables'[g][i].key = x /\ tables'[g][i].value = p
            /\ \A i \in DOMAIN tables'[loc[t].main] : tables'[loc[t].main][i].key # x
            /\ \E i \in DOMAIN tables'[h] : tables'[h][i].key = x
        BY <1>2, <2>1, <4>2 DEF Entered, HasKey
      <4> QED
        BY <1>2, <1>3, <1>4, <3>2, <3>5, <4>1, <4>3
           DEF ThreadSearch, MissingPlaces, CountedPlaces, Entered, HasKey
    <3> QED
      BY <1>7, <2>1, <3>1, <3>2, <3>3, <3>4, <3>6, <3>7, <3>8 DEF ThreadInv
  <2> QED
    BY <2>2, <2>3
<1>9. CASE Probed(t) # x /\ Probed(t) = invalid_thread_id
  <2>1. \A g \in DOMAIN tables : g >= h => ~HasKey(g, x)
    <3>1. ~HasKey(h, x)
      BY <1>2, <1>9, TableMissesKey
    <3> QED
      BY <1>4, <1>6, <3>1
  <2>2. CASE h > 1
    <3> DEFINE l == From(loc[t], loc[t].table - 1)
    <3>1. loc' = [loc EXCEPT ![t] = l]
      BY <1>9, <2>2 DEF Probe, From
    <3>2. /\ l.id = x /\ l.listener = loc[t].listener /\ l.producer = Null /\ l.at = "probe"
          /\ l.main = loc[t].main /\ l.table = h - 1 /\ l.index = HashOf[x]
      BY <1>1, <1>2, <1>4 DEF Locals, From
    <3>3. l \in Locals
      <4>1. loc[t].table - 1 \in Nat
        BY <1>4, <2>2
      <4> QED
        BY <1>1, <1>3, <4>1 DEF Locals, Places, From
    <3>4. LocalsInRange(l)
      BY <1>1, <1>4 DEF Locals, LocalsInRange, From
    <3> HIDE DEF l
    <3>5. loc'[t] = l
      BY <1>1, <3>1, <3>3, LocalsStep
    <3>6. ThreadPlace(t)'
      BY <1>1, <1>2, <1>3, <1>4, <2>2, <3>2, <3>5
         DEF ThreadInv, ThreadPlace, MissingPlaces, CountedPlaces
    <3>7. ThreadListener(t)'
      BY <1>1, <1>2, <3>2, <3>5 DEF ThreadInv, ThreadListener, Entered
    <3>8. ThreadSearch(t)'
      <4>1. h - 1 \in DOMAIN tables /\ \A g \in DOMAIN tables : g > h - 1 => g >= h
        BY <1>4, <2>2
      <4>2. \A i \in DOMAIN tables[l.table] : ~Passed(t, i)'
        BY <1>1, <1>2, <1>3, <3>2, <3>3, <3>5, <4>1, NothingPassed DEF Capacity
      <4>3. \A g \in DOMAIN tables' : g > h - 1 =>
              \A i \in DOMAIN tables'[g] : tables'[g][i].key # x
        BY <1>2, <2>1, <4>1 DEF HasKey
      <4> QED
        BY <1>2, <3>2, <3>5, <4>2, <4>3 DEF ThreadSearch, MissingPlaces, CountedPlaces, HasKey
    <3> QED
      BY <1>7, <3>1, <3>2, <3>3, <3>4, <3>6, <3>7, <3>8 DEF ThreadInv
  <2>3. CASE ~(h > 1)
    <3> DEFINE l == [loc[t] EXCEPT !.at = "count"]
    <3>1. loc' = [loc EXCEPT ![t] = l]
      BY <1>9, <2>3 DEF Probe
    <3>2. /\ l.id = x /\ l.listener = loc[t].listener /\ l.producer = Null /\ l.at = "count"
          /\ l.main = loc[t].main
      BY <1>1, <1>4 DEF Locals
    <3>3. l \in Locals
      BY <1>1 DEF Locals, Places
    <3>4. LocalsInRange(l)
      BY <1>1 DEF Locals, LocalsInRange
    <3> HIDE DEF l
    <3>5. loc'[t] = l
      BY <1>1, <3>1, <3>3, LocalsStep
    <3>6. ThreadPlace(t)'
      BY <1>1, <1>2, <1>3, <1>4, <3>2, <3>5
         DEF ThreadInv, ThreadPlace, MissingPlaces, CountedPlaces
    <3>7. ThreadListener(t)'
      BY <1>1, <1>2, <3>2, <3>5 DEF ThreadInv, ThreadListener, Entered
    <3>8. ThreadSearch(t)'
      <4>1. \A g \in DOMAIN tables' : \A i \in DOMAIN tables'[g] : tables'[g][i].key # x
        BY <1>2, <1>4, <2>1, <2>3 DEF HasKey
      <4> QED
        BY <1>2, <3>2, <3>5, <4>1 DEF ThreadSearch, MissingPlaces, CountedPlaces, HasKey
    <3> QED
      BY <1>7, <3>1, <3>2, <3>3, <3>4, <3>6, <3>7, <3>8 DEF ThreadInv
  <2> QED
    BY <2>2, <2>3
<1>10. CASE Probed(t) # x /\ Probed(t) # invalid_thread_id
  <2>1. loc' = [loc EXCEPT ![t].index = Here(t) + 1]
    BY <1>10 DEF Probe
  <2> QED
    BY <1>2, <1>10, <2>1, SkipStep
<1> QED
  BY <1>8, <1>9, <1>10

LEMMA StartStep ==
  ASSUME ProducersAssumption, HashInv, NEW t \in Threads, NEW id \in Ids, Start(t, id)
  PROVE  HashInv'
<1> DEFINE l == [Out EXCEPT !.at = "idle", !.id = id]
<1>1. /\ TypeInv /\ t \in Agents /\ t \notin Tokens /\ loc[t] \in Locals
      /\ implicitProducerHashResizeInProgress \in BOOLEAN
  BY ThreadFacts
<1>2. /\ loc' = [loc EXCEPT ![t] = l] /\ loc[t].at = "out" /\ \A u \in Threads : loc[u].id # id
      /\ tables' = tables /\ producers' = producers /\ alive' = alive
      /\ implicitProducerHashResizeInProgress' \in BOOLEAN
      /\ implicitProducerHashCount' = implicitProducerHashCount
  BY <1>1 DEF Start, HashUnchanged
<1>3. /\ l.id = id /\ l.listener = Null /\ l.producer = Null /\ l.at = "idle"
      /\ l.main = 0 /\ l.table = 0 /\ l.index = 0 /\ l.ptr = Null /\ l.newCount = 0
  BY DEF Out
<1>4. l \in Locals
  BY DEF Out, Locals, Places, Null
<1> HIDE DEF l
<1>5. LocalsInRange(l)
  BY <1>1, <1>3 DEF LocalsInRange, Null, TypeInv
<1>6. loc'[t] = l /\ id # Null
  BY <1>1, <1>2, <1>4, LocalsStep DEF ProducersAssumption, Null
<1>7. ThreadInv(t)'
  BY <1>3, <1>6 DEF ThreadInv, ThreadPlace, ThreadListener, ThreadSearch, MissingPlaces,
     CountedPlaces
<1>8. Has(t)' = Null
  BY <1>1, <1>3, <1>6 DEF Has, Explicit
<1>9. Share(t, l) = 0 /\ Share(t, loc[t]) = 0 /\ ~Counts(l) /\ l.at # "insert"
  BY <1>2, <1>3 DEF Share, Counts, CountedPlaces
<1>10. implicitProducerHashCount' = implicitProducerHashCount + Share(t, l) - Share(t, loc[t])
  BY <1>1, <1>2, <1>9 DEF TypeInv
<1> QED
  BY <1>1, <1>2, <1>3, <1>4, <1>5, <1>7, <1>8, <1>9, <1>10, ThreadLocalStep

LEMMA ExitStep ==
  ASSUME ProducersAssumption, HashInv, NEW t \in Threads, Exit(t)
  PROVE  HashInv'
<1>1. /\ TypeInv /\ t \in Agents /\ loc[t] \in Locals /\ LocalsInRange(loc[t]) /\ ThreadInv(t)
      /\ t \notin Tokens /\ implicitProducerHashResizeInProgress \in BOOLEAN
      /\ loc[t].id # Null => \A u \in Threads : u # t => loc[u].id # loc[t].id
  BY ThreadFacts
<1>2. /\ loc[t].at = "idle" /\ tables' = tables /\ producers' = producers /\ alive' = alive
      /\ implicitProducerHashResizeInProgress' \in BOOLEAN
      /\ implicitProducerHashCount' = implicitProducerHashCount
  BY <1>1 DEF Exit, HashUnchanged
<1>3. ASSUME NEW l \in Locals, loc' = [loc EXCEPT ![t] = l], LocalsInRange(l),
             l.at \in {"out", "forget"}, l.id \in {loc[t].id, Null}, ThreadInv(t)',
             alive => Has(t)' = Null \/ (Has(t)' = Has(t) /\ l.id = loc[t].id)
      PROVE  HashInv'
  <2>1. Share(t, l) = 0 /\ Share(t, loc[t]) = 0 /\ ~Counts(l) /\ l.at # "insert"
    BY <1>2, <1>3 DEF Share, Counts, CountedPlaces
  <2>2. implicitProducerHashCount' = implicitProducerHashCount + Share(t, l) - Share(t, loc[t])
    BY <1>1, <1>2, <2>1 DEF TypeInv
  <2> QED
    BY <1>1, <1>2, <1>3, <2>1, <2>2, ThreadLocalStep
<1>4. CASE loc[t].listener = Null \/ ~alive
  <2>1. loc' = [loc EXCEPT ![t] = Out]
    BY <1>4 DEF Exit
  <2>2. /\ Out.id = Null /\ Out.listener = Null /\ Out.producer = Null /\ Out.at = "out"
        /\ Out.main = 0 /\ Out.table = 0 /\ Out.ptr = Null /\ Out.newCount = 0
    BY DEF Out
  <2>3. Out \in Locals
    BY DEF Out, Locals, Places, Null
  <2>4. LocalsInRange(Out)
    BY <1>1, <2>2 DEF LocalsInRange, Null, TypeInv
  <2>5. loc'[t] = Out
    BY <1>1, <2>1, <2>3, LocalsStep
  <2>6. ThreadInv(t)'
    BY <2>2, <2>5 DEF ThreadInv, ThreadPlace, ThreadListener, ThreadSearch, MissingPlaces,
       CountedPlaces
  <2>7. Has(t)' = Null
    BY <1>1, <2>2, <2>5 DEF Has, Explicit
  <2> QED
    BY <1>3, <2>1, <2>2, <2>3, <2>4, <2>6, <2>7
<1>5. CASE loc[t].listener # Null /\ alive
  <2> DEFINE l == From([loc[t] EXCEPT !.at = "forget"], Len(tables))
  <2>1. loc' = [loc EXCEPT ![t] = l]
    BY <1>5 DEF Exit, From
  <2>2. loc[t].id \in Ids /\ HashOf[loc[t].id] \in Nat
    BY <1>1, <1>2, IdOfThread DEF ThreadInv, ProducersAssumption
  <2>3. Len(tables) \in Nat /\ Len(tables) # 0 /\ Len(tables) \in DOMAIN tables
        /\ DOMAIN tables = 1 .. Len(tables)
    BY <1>1 DEF TypeInv
  <2>4. /\ l.id = loc[t].id /\ l.listener = loc[t].listener /\ l.producer = loc[t].producer
        /\ l.at = "forget" /\ l.table = Len(tables) /\ l.index = HashOf[loc[t].id]
    BY <1>1 DEF Locals, From
  <2>5. l \in Locals
    BY <1>1, <2>2, <2>3 DEF Locals, Places, From
  <2>6. LocalsInRange(l)
    BY <1>1, <2>3 DEF Locals, LocalsInRange, From
  <2> HIDE DEF l
  <2>7. loc'[t] = l
    BY <1>1, <2>1, <2>5, LocalsStep
  <2>8. ThreadPlace(t)'
    BY <1>1, <1>2, <1>5, <2>3, <2>4, <2>7 DEF ThreadInv, ThreadPlace, MissingPlaces,
       CountedPlaces
  <2>9. ThreadListener(t)'
    BY <1>1, <1>2, <2>4, <2>7 DEF ThreadInv, ThreadListener, Entered
  <2>10. ThreadSearch(t)'
    <3>1. \A h \in DOMAIN tables' : ~(h > Len(tables))
      BY <1>2, <2>3
    <3>2. \A i \in DOMAIN tables[l.table] : ~Passed(t, i)'
      BY <1>1, <1>2, <2>2, <2>3, <2>4, <2>5, <2>7, NothingPassed DEF Capacity
    <3> QED
      BY <1>2, <2>4, <2>7, <3>1, <3>2 DEF ThreadSearch, MissingPlaces, CountedPlaces
  <2>11. Has(t)' = Has(t)
    BY <2>4, <2>7 DEF Has, Explicit
  <2> QED
    BY <1>3, <2>1, <2>4, <2>5, <2>6, <2>8, <2>9, <2>10, <2>11 DEF ThreadInv
<1> QED
  BY <1>4, <1>5
------------------------------------------------------------------------------
(* Steps that change only the locals of a token                              *)

LEMMA TokenFacts ==
  ASSUME ProducersAssumption, HashInv, NEW k \in Tokens
  PROVE  /\ TypeInv /\ k \in Agents /\ k \notin Threads
         /\ loc[k] \in Locals /\ LocalsInRange(loc[k]) /\ TokenInv(k)
         /\ implicitProducerHashResizeInProgress \in BOOLEAN
         /\ Explicit(k) = TRUE /\ Has(k) = loc[k].producer
BY DEF HashInv, TypeInv, Agents, ProducersAssumption, AgentsInv, Explicit, Has

LEMMA TokenLocalStep ==
  ASSUME ProducersAssumption, HashInv, NEW k \in Tokens, NEW l \in Locals,
         loc' = [loc EXCEPT ![k] = l],
         HashUnchanged, producers' = producers, alive' = alive,
         LocalsInRange(l), l.producer = Null, l.at \in {"out", "traverse", "use"},
         l.at = "traverse" => alive
  PROVE  HashInv'
<1>1. /\ TypeInv /\ k \in Agents /\ k \notin Threads
      /\ implicitProducerHashResizeInProgress \in BOOLEAN
  BY TokenFacts
<1>2. /\ tables' = tables /\ implicitProducerHashResizeInProgress' \in BOOLEAN
      /\ implicitProducerHashCount' = implicitProducerHashCount
  BY <1>1 DEF HashUnchanged
<1>3. loc'[k] = l
  BY <1>1, LocalsStep
<1>4. TokenInv(k)' /\ Has(k)' = Null
  BY <1>3 DEF TokenInv, Has, Explicit
<1>5. CountsProducers' /\ implicitProducerHashCount' \in Int
  <2>1. Share(k, l) = 0 /\ Share(k, loc[k]) = 0
    BY <1>1 DEF Share
  <2>2. implicitProducerHashCount' = implicitProducerHashCount + Share(k, l) - Share(k, loc[k])
    BY <1>1, <1>2, <2>1 DEF TypeInv
  <2>3. ImplicitProducers' = ImplicitProducers
    BY DEF ImplicitProducers
  <2> QED
    BY <1>1, <2>2, <2>3, CountsStep
<1>6. RoomInv'
  <2>1. \A n \in Nat : Reserved(n)' \subseteq Reserved(n)
    BY <1>1, <1>2, ReservedStep
  <2> QED
    BY <2>1, RoomStays
<1> QED
  BY <1>1, <1>2, <1>4, <1>5, <1>6, LocalStep

LEMMA ConstructTokenStep ==
  ASSUME ProducersAssumption, HashInv, NEW k \in Tokens, ConstructToken(k)
  PROVE  HashInv'
<1> DEFINE l == [Out EXCEPT !.at = "traverse", !.ptr = Len(producers)]
<1>1. loc' = [loc EXCEPT ![k] = l] /\ HashUnchanged /\ producers' = producers /\ alive' = alive
      /\ alive
  BY DEF ConstructToken
<1>2. TypeInv
  BY DEF HashInv
<1>3. Len(producers) \in Nat /\ Len(tables) \in Nat
  BY <1>2 DEF TypeInv
<1>4. /\ l.at = "traverse" /\ l.producer = Null /\ l.ptr = Len(producers)
      /\ l.main = 0 /\ l.table = 0 /\ l.listener = Null
  BY DEF Out
<1>5. l \in Locals
  BY <1>3 DEF Out, Locals, Places, Null
<1> HIDE DEF l
<1>6. LocalsInRange(l)
  BY <1>3, <1>4 DEF LocalsInRange, Null
<1> QED
  BY <1>1, <1>4, <1>5, <1>6, TokenLocalStep

LEMMA DestroyEmptyToken ==
  ASSUME ProducersAssumption, HashInv, NEW k \in Tokens, DestroyToken(k),
         loc[k].producer = Null
  PROVE  HashInv'
<1>1. loc' = [loc EXCEPT ![k] = Out] /\ HashUnchanged /\ producers' = producers /\ alive' = alive
  BY DEF DestroyToken
<1>2. Len(producers) \in Nat /\ Len(tables) \in Nat
  BY DEF HashInv, TypeInv
<1>3. /\ Out.at = "out" /\ Out.producer = Null /\ Out.ptr = Null
      /\ Out.main = 0 /\ Out.table = 0 /\ Out.listener = Null
  BY DEF Out
<1>4. Out \in Locals
  BY DEF Out, Locals, Places, Null
<1>5. LocalsInRange(Out)
  BY <1>2, <1>3 DEF LocalsInRange, Null
<1> QED
  BY <1>1, <1>3, <1>4, <1>5, TokenLocalStep

LEMMA NoTokenProducerStep ==
  ASSUME ProducersAssumption, HashInv, NEW k \in Tokens, NoProducer(k)
  PROVE  HashInv'
<1> DEFINE l == [loc[k] EXCEPT !.ptr = Null, !.producer = Null, !.at = "use"]
<1>1. /\ TypeInv /\ k \in Agents /\ loc[k] \in Locals /\ LocalsInRange(loc[k])
  BY TokenFacts
<1>2. loc' = [loc EXCEPT ![k] = l] /\ HashUnchanged /\ producers' = producers /\ alive' = alive
  BY DEF NoProducer, Obtained, Explicit
<1>3. Len(producers) \in Nat /\ Len(tables) \in Nat
  BY <1>1 DEF TypeInv
<1>4. /\ l.at = "use" /\ l.producer = Null
  BY <1>1 DEF Locals
<1>5. l \in Locals
  BY <1>1 DEF Locals, Places, Null
<1>6. LocalsInRange(l)
  BY <1>1, <1>3 DEF LocalsInRange, Null, Locals
<1> QED
  BY <1>2, <1>4, <1>5, <1>6, TokenLocalStep

\* The search for a producer that can be used again goes on.
LEMMA NextProducerStep ==
  ASSUME ProducersAssumption, HashInv, NEW a \in Agents,
         loc[a].at = "traverse", loc[a].ptr # Null,
         loc' = [loc EXCEPT ![a].ptr = @ - 1],
         HashUnchanged, producers' = producers, alive' = alive
  PROVE  HashInv'
<1> DEFINE l == [loc[a] EXCEPT !.ptr = loc[a].ptr - 1]
<1>1. /\ TypeInv /\ loc[a] \in Locals /\ LocalsInRange(loc[a])
      /\ implicitProducerHashResizeInProgress \in BOOLEAN
  BY DEF HashInv, TypeInv
<1>2. loc' = [loc EXCEPT ![a] = l]
  OBVIOUS
<1>3. loc[a].ptr - 1 \in Nat /\ Len(producers) \in Nat
  BY <1>1 DEF Locals, Null, TypeInv
<1>4. /\ l.at = "traverse" /\ l.producer = loc[a].producer /\ l.ptr = loc[a].ptr - 1
      /\ l.id = loc[a].id /\ l.listener = loc[a].listener /\ l.main = loc[a].main
      /\ l.newCount = loc[a].newCount
  BY <1>1 DEF Locals
<1>5. l \in Locals
  BY <1>1, <1>3 DEF Locals
<1>6. LocalsInRange(l)
  BY <1>1, <1>3 DEF LocalsInRange, Null, Locals
<1> HIDE DEF l
<1>7. CASE a \in Tokens
  <2>1. TokenInv(a)
    BY <1>7, TokenFacts
  <2> QED
    BY <1>2, <1>4, <1>5, <1>6, <1>7, <2>1, TokenLocalStep DEF TokenInv
<1>8. CASE a \in Threads
  <2>1. /\ loc[a].producer = Null /\ loc[a].main # 0 /\ loc[a].newCount # 0
        /\ loc[a].newCount < ThreeQuarters(Capacity(loc[a].main))
    BY <1>8, ThreadFacts DEF ThreadInv, ThreadPlace, MissingPlaces, CountedPlaces
  <2>2. Share(a, l) = 1 /\ Share(a, loc[a]) = 1 /\ Claims(a)
    BY <1>4, <1>8 DEF Share, Counts, Claims, Counted, CountedPlaces
  <2>3. implicitProducerHashCount' = implicitProducerHashCount + Share(a, l) - Share(a, loc[a])
    BY <1>1, <2>2 DEF HashUnchanged, TypeInv
  <2>4. tables' = tables /\ implicitProducerHashResizeInProgress' \in BOOLEAN
    BY <1>1 DEF HashUnchanged
  <2> QED
    BY <1>2, <1>4, <1>5, <1>6, <1>8, <2>1, <2>2, <2>3, <2>4, MissingStep
       DEF MissingPlaces, CountedPlaces
<1> QED
  BY <1>7, <1>8 DEF Agents
------------------------------------------------------------------------------
(* Steps that write a table                                                  *)

\* A thread writes only keys of its own id, and has what it had.
LEMMA TableStep ==
  ASSUME ProducersAssumption, HashInv, NEW t \in Threads, loc[t].id \in Ids,
         NEW l \in Locals, loc' = [loc EXCEPT ![t] = l], l.id = loc[t].id,
         TablesStep(loc[t].id), tables' \in Seq(HashTables), Len(tables') # 0,
         producers' = producers, alive' = alive,
         implicitProducerHashResizeInProgress' \in BOOLEAN,
         implicitProducerHashCount' = implicitProducerHashCount,
         Counts(l) <=> Counts(loc[t]),
         \A h \in DOMAIN tables' : \A i \in DOMAIN tables'[h] :
           tables'[h][i].value <= Len(producers),
         l.main <= Len(tables'), l.table <= Len(tables'), l.ptr <= Len(producers),
         l.producer <= Len(producers), l.listener <= Len(producers),
         ThreadInv(t)', Has(t)' = Has(t), EntriesInv', TablesInv', RoomInv'
  PROVE  HashInv'
<1>1. /\ TypeInv /\ t \in Agents /\ t \notin Tokens
      /\ loc[t].id # Null /\ \A u \in Threads : u # t => loc[u].id # loc[t].id
  BY ThreadFacts DEF ProducersAssumption, Null
<1>2. loc' \in [Agents -> Locals] /\ loc'[t] = l /\ \A b \in Agents : b # t => loc'[b] = loc[b]
  BY <1>1, LocalsStep
<1>3. TypeInv'
  <2>1. implicitProducerHashCount' \in Int /\ alive' \in BOOLEAN
        /\ producers' \in Seq(ProducerRecords)
    BY <1>1 DEF TypeInv
  <2>2. ASSUME NEW b \in Agents
        PROVE  LocalsInRange(loc[b])'
    <3>1. CASE b = t
      BY <1>2, <3>1 DEF LocalsInRange
    <3>2. CASE b # t
      <4>1. LocalsInRange(loc[b]) /\ loc[b] \in Locals /\ Len(tables) \in Nat /\ Len(tables') \in Nat
        BY <1>1 DEF TypeInv
      <4>2. Len(tables) <= Len(tables')
        BY DEF TablesStep
      <4> QED
        BY <1>2, <3>2, <4>1, <4>2 DEF LocalsInRange, Locals
    <3> QED
      BY <3>1, <3>2
  <2> QED
    BY <1>2, <2>1, <2>2 DEF TypeInv
<1>4. AgentsInv'
  <2>1. ASSUME NEW u \in Threads
        PROVE  ThreadInv(u)'
    <3>1. CASE u # t
      <4>1. ThreadInv(u) /\ loc'[u] = loc[u]
        BY <1>2, <3>1, ThreadFacts
      <4>2. loc[t].id \notin {loc[u].id, invalid_thread_id}
        BY <1>1, <3>1 DEF Null, invalid_thread_id
      <4> QED
        BY <1>1, <4>1, <4>2, ThreadRests
    <3> QED
      BY <3>1
  <2>2. ASSUME NEW k \in Tokens
        PROVE  TokenInv(k)'
    BY <1>1, <1>2, TokenFacts DEF TokenInv
  <2> QED
    BY <2>1, <2>2 DEF AgentsInv
<1>5. IdsDiffer'
  <2>1. \A u \in Threads : loc'[u].id = loc[u].id
    BY <1>2 DEF Agents
  <2> QED
    BY <2>1 DEF HashInv, IdsDiffer
<1>6. OwnersInv'
  <2>1. \A b \in Agents : Has(b)' = Has(b)
    BY <1>2, HasStep
  <2> QED
    BY <2>1 DEF HashInv, OwnersInv, Explicit
<1>7. CountsProducers'
  <2>1. implicitProducerHashCount' = implicitProducerHashCount + Share(t, l) - Share(t, loc[t])
    BY <1>1 DEF Share, TypeInv
  <2>2. ImplicitProducers' = ImplicitProducers
    BY DEF ImplicitProducers
  <2> QED
    BY <1>1, <2>1, <2>2, CountsStep
<1>8. TokensAreValid'
  BY <1>1, <1>2 DEF HashInv, TokensAreValid, Agents
<1> QED
  BY <1>3, <1>4, <1>5, <1>6, <1>7, <1>8 DEF HashInv

\* Where an id is, and where it is not.
LEMMA NoEntry ==
  ASSUME NEW x, NEW p, \A h \in DOMAIN tables : ~HasKey(h, x)
  PROVE  ~Entered(x, p)
BY DEF Entered, HasKey

\* No id is in more slots than before.
LEMMA EntriesStay ==
  ASSUME ProducersAssumption, HashInv, alive' => alive, producers' = producers,
         \A a \in Agents : Has(a)' = Has(a),
         \A t \in Threads : loc'[t].id = loc[t].id,
         \A x \in Ids, p \in Nat : Entered(x, p)' => Entered(x, p)
  PROVE  EntriesInv'
<1>1. ASSUME alive, NEW x \in Ids, NEW p \in Nat, Entered(x, p)'
      PROVE  EntryInv(x, p)'
  <2>1. EntryInv(x, p)
    BY <1>1 DEF HashInv, EntriesInv
  <2>2. \A a \in Agents : Has(a)' = p => a \in Threads /\ loc'[a].id = x
    BY <2>1 DEF EntryInv
  <2>3. \A t \in Threads : loc'[t].id = x => Has(t)' \in {Null, p}
    BY <2>1 DEF EntryInv, Agents
  <2>4. \A y \in Ids, q \in Nat : Entered(y, q)' => (x = y <=> p = q)
    BY <2>1 DEF EntryInv
  <2> QED
    BY <2>1, <2>2, <2>3, <2>4 DEF EntryInv
<1> QED
  BY <1>1 DEF EntriesInv

\* The locals of a thread that goes on in the next table, or to the producer.
LEMMA NextTableThread ==
  ASSUME ProducersAssumption, HashInv, NEW t \in Threads, loc[t].at = "forget",
         NEW l \in Locals, l = NextTable(loc[t]), loc' = [loc EXCEPT ![t] = l],
         alive' = alive, producers' = producers, DOMAIN tables' = DOMAIN tables,
         Len(tables') = Len(tables),
         \A h \in DOMAIN tables : Capacity(h)' = Capacity(h) /\ DOMAIN tables'[h] = DOMAIN tables[h],
         \A h \in DOMAIN tables : h >= loc[t].table =>
           \A i \in DOMAIN tables[h] : tables'[h][i].key # loc[t].id
  PROVE  ThreadInv(t)'
<1> DEFINE x == loc[t].id
           h == loc[t].table
<1>1. /\ TypeInv /\ t \in Agents /\ loc[t] \in Locals /\ LocalsInRange(loc[t]) /\ ThreadInv(t)
      /\ t \notin Tokens
  BY ThreadFacts
<1>2. /\ h \in DOMAIN tables /\ x \in Ids /\ alive /\ HashOf[x] \in Nat
  BY SlotHere DEF ProducersAssumption
<1>3. DOMAIN tables = 1 .. Len(tables) /\ Len(tables) \in Nat
  BY <1>1 DEF TypeInv
<1>4. loc'[t] = l
  BY <1>1, LocalsStep
<1>5. loc[t].producer = Null /\ loc[t].listener # Null /\ ThreadLocalSupported
  BY <1>1 DEF ThreadInv, ThreadPlace, MissingPlaces, CountedPlaces
<1>6. CASE h > 1
  <2>1. /\ l.id = x /\ l.listener = loc[t].listener /\ l.producer = Null /\ l.at = "forget"
        /\ l.table = h - 1 /\ l.index = HashOf[x]
    BY <1>1, <1>5, <1>6 DEF Locals, NextTable, From
  <2>2. h - 1 \in DOMAIN tables /\ \A g \in DOMAIN tables : g > h - 1 => g >= h
    BY <1>2, <1>3, <1>6
  <2>3. ThreadPlace(t)'
    BY <1>2, <1>3, <1>4, <1>5, <1>6, <2>1 DEF ThreadPlace, MissingPlaces, CountedPlaces,
       ProducersAssumption, Null
  <2>4. ThreadListener(t)'
    BY <1>4, <2>1 DEF ThreadListener
  <2>5. \A i \in DOMAIN tables'[h - 1] : ~Passed(t, i)'
    <3>1. Capacity(l.table)' = Capacity(l.table) /\ DOMAIN tables'[h - 1] = DOMAIN tables[h - 1]
      BY <2>1, <2>2
    <3>2. \A i \in DOMAIN tables[l.table] : ~Passed(t, i)'
      BY <1>1, <1>2, <1>4, <2>1, <2>2, <3>1, NothingPassed
    <3> QED
      BY <2>1, <3>1, <3>2
  <2>6. ThreadSearch(t)'
    BY <1>4, <2>1, <2>2, <2>5 DEF ThreadSearch, MissingPlaces, CountedPlaces, HasKey
  <2> QED
    BY <2>3, <2>4, <2>6 DEF ThreadInv
<1>7. CASE ~(h > 1)
  <2>1. /\ l.id = x /\ l.listener = loc[t].listener /\ l.producer = Null /\ l.at = "retire"
    BY <1>1, <1>5, <1>7 DEF Locals, NextTable
  <2>2. \A g \in DOMAIN tables : g >= h
    BY <1>2, <1>3, <1>7
  <2>3. ThreadPlace(t)'
    BY <1>2, <1>4, <1>5, <2>1 DEF ThreadPlace, MissingPlaces, CountedPlaces, ProducersAssumption,
       Null
  <2>4. ThreadListener(t)'
    BY <1>4, <2>1 DEF ThreadListener
  <2>5. ThreadSearch(t)'
    BY <1>4, <2>1, <2>2 DEF ThreadSearch, MissingPlaces, CountedPlaces, HasKey
  <2> QED
    BY <2>3, <2>4, <2>5 DEF ThreadInv
<1> QED
  BY <1>6, <1>7
LEMMA ForgetStep ==
  ASSUME ProducersAssumption, HashInv, NEW t \in Threads, Forget(t)
  PROVE  HashInv'
<1> DEFINE h == loc[t].table
           x == loc[t].id
           l == NextTable(loc[t])
<1>1. /\ TypeInv /\ t \in Agents /\ loc[t] \in Locals /\ LocalsInRange(loc[t]) /\ ThreadInv(t)
      /\ t \notin Tokens /\ implicitProducerHashResizeInProgress \in BOOLEAN
      /\ loc[t].id # Null => \A u \in Threads : u # t => loc[u].id # loc[t].id
  BY ThreadFacts
<1>2. /\ loc[t].at = "forget" /\ producers' = producers /\ alive' = alive
      /\ implicitProducerHashResizeInProgress' \in BOOLEAN
      /\ implicitProducerHashCount' = implicitProducerHashCount
  BY <1>1 DEF Forget
<1>3. /\ h \in DOMAIN tables /\ Here(t) \in DOMAIN tables[h] /\ x \in Ids /\ alive
      /\ tables[h][Here(t)] \in Slots /\ HashOf[x] \in Nat /\ x # invalid_thread_id
      /\ Len(tables) \in Nat /\ Len(tables) # 0 /\ DOMAIN tables = 1 .. Len(tables)
  <2>1. /\ h \in DOMAIN tables /\ Here(t) \in DOMAIN tables[h] /\ x \in Ids /\ alive
        /\ tables[h][Here(t)] \in Slots
    BY <1>2, SlotHere
  <2>2. HashOf[x] \in Nat /\ x # invalid_thread_id
    BY <2>1 DEF ProducersAssumption, invalid_thread_id
  <2>3. Len(tables) \in Nat /\ Len(tables) # 0 /\ DOMAIN tables = 1 .. Len(tables)
    BY <1>1 DEF TypeInv
  <2> QED
    BY <2>1, <2>2, <2>3
<1>4. \A g \in DOMAIN tables : g > h => ~HasKey(g, x)
  BY <1>1, <1>2 DEF ThreadInv, ThreadSearch
<1>5. /\ l \in Locals /\ l.id = x /\ l.listener = loc[t].listener /\ l.producer = Null
      /\ l.producer = loc[t].producer /\ LocalsInRange(l) /\ l.at \in {"forget", "retire"}
  <2>1. loc[t].producer = Null
    BY <1>1, <1>2 DEF ThreadInv, ThreadPlace, MissingPlaces, CountedPlaces
  <2>2. CASE h > 1
    <3>1. l = From(loc[t], h - 1) /\ h - 1 \in Nat /\ h - 1 <= Len(tables)
      BY <1>3, <2>2 DEF NextTable
    <3> HIDE DEF l
    <3>2. /\ l \in Locals /\ l.id = x /\ l.listener = loc[t].listener
          /\ l.producer = loc[t].producer /\ l.at = "forget"
      BY <1>1, <1>2, <1>3, <3>1 DEF Locals, Places, From
    <3>3. LocalsInRange(l)
      BY <1>1, <3>1 DEF Locals, LocalsInRange, From
    <3> QED
      BY <2>1, <3>2, <3>3
  <2>3. CASE ~(h > 1)
    <3>1. l = [loc[t] EXCEPT !.at = "retire"]
      BY <2>3 DEF NextTable
    <3> HIDE DEF l
    <3>2. /\ l \in Locals /\ l.id = x /\ l.listener = loc[t].listener
          /\ l.producer = loc[t].producer /\ l.at = "retire"
      BY <1>1, <3>1 DEF Locals, Places
    <3>3. LocalsInRange(l)
      BY <1>1, <3>1 DEF Locals, LocalsInRange
    <3> QED
      BY <2>1, <3>2, <3>3
  <2> QED
    BY <2>2, <2>3
<1>6. ~Counts(l) /\ ~Counts(loc[t]) /\ Share(t, l) = 0 /\ Share(t, loc[t]) = 0 /\ l.at # "insert"
  BY <1>2, <1>5 DEF Share, Counts, CountedPlaces
<1>7. CASE Probed(t) \notin {x, invalid_thread_id}
  <2>1. loc' = [loc EXCEPT ![t] = [loc[t] EXCEPT !.index = Here(t) + 1]] /\ tables' = tables
    BY <1>7 DEF Forget
  <2>2. loc' = [loc EXCEPT ![t].index = Here(t) + 1]
    BY <1>1, <2>1
  <2> QED
    BY <1>2, <1>7, <2>1, <2>2, SkipStep
<1>8. CASE Probed(t) \in {x, invalid_thread_id} /\ Probed(t) # x
  <2>1. loc' = [loc EXCEPT ![t] = l] /\ tables' = tables
    BY <1>8 DEF Forget
  <2>2. \A g \in DOMAIN tables : g >= h => \A i \in DOMAIN tables[g] : tables'[g][i].key # x
    <3>1. ~HasKey(h, x)
      BY <1>2, <1>8, TableMissesKey
    <3>2. \A g \in DOMAIN tables : g >= h => g = h \/ g > h
      BY <1>3
    <3> QED
      BY <1>4, <2>1, <3>1, <3>2 DEF HasKey
  <2>3. \A g \in DOMAIN tables : Capacity(g)' = Capacity(g)
    BY <2>1 DEF Capacity
  <2> HIDE DEF l
  <2>4. ThreadInv(t)'
    BY <1>2, <1>5, <2>1, <2>2, <2>3, NextTableThread DEF l
  <2>5. loc'[t] = l
    BY <1>1, <1>5, <2>1, LocalsStep
  <2>6. Has(t)' = Has(t)
    BY <1>5, <2>5 DEF Has, Explicit
  <2>7. implicitProducerHashCount' = implicitProducerHashCount + Share(t, l) - Share(t, loc[t])
    BY <1>1, <1>2, <1>6 DEF TypeInv
  <2> QED
    BY <1>1, <1>2, <1>5, <1>6, <2>1, <2>4, <2>6, <2>7, ThreadLocalStep
<1>9. CASE Probed(t) = x
  <2> DEFINE e == [key |-> invalid_thread_id2, value |-> ProbedValue(t)]
  <2>1. loc' = [loc EXCEPT ![t] = l]
    BY <1>9 DEF Forget
  <2>2. tables' = [tables EXCEPT ![h][Here(t)] = e]
    <3>1. tables' = [tables EXCEPT ![h][Here(t)].key = invalid_thread_id2]
      BY <1>9 DEF Forget
    <3>2. [tables[h][Here(t)] EXCEPT !.key = invalid_thread_id2] = e
      BY <1>3 DEF Slots, ProbedValue
    <3> QED
      BY <3>1, <3>2
  <2>3. /\ e \in Slots /\ e.key = invalid_thread_id2 /\ e.value = tables[h][Here(t)].value
        /\ tables[h][Here(t)].key = x
    BY <1>3, <1>9 DEF Slots, Keys, ProbedValue, Probed
  <2> HIDE DEF e, l
  <2>4. /\ tables' \in Seq(HashTables)
        /\ Len(tables') = Len(tables) /\ DOMAIN tables' = DOMAIN tables
        /\ \A g \in DOMAIN tables :
             /\ DOMAIN tables'[g] = DOMAIN tables[g]
             /\ Capacity(g)' = Capacity(g)
             /\ \A j \in DOMAIN tables[g] :
                  tables'[g][j] = IF g = h /\ j = Here(t) THEN e ELSE tables[g][j]
    BY <1>1, <1>3, <2>2, <2>3, SlotWritten
  <2>5. TablesStep(x)
    BY <1>3, <2>3, <2>4 DEF TablesStep
  <2>6. invalid_thread_id2 \notin Ids /\ invalid_thread_id2 # invalid_thread_id
        /\ ThreadLocalSupported
    BY <1>1, <1>2 DEF ProducersAssumption, invalid_thread_id2, invalid_thread_id, ThreadInv,
       ThreadPlace
  <2>7. TableInv(h)
    BY <1>3 DEF HashInv, TablesInv
  <2>8. \A g \in DOMAIN tables : g >= h => \A i \in DOMAIN tables[g] : tables'[g][i].key # x
    <3>1. \A i \in DOMAIN tables[h] : tables[h][i].key = x => i = Here(t)
      BY <1>3, <2>3, <2>7 DEF TableInv
    <3>2. \A i \in DOMAIN tables[h] : tables'[h][i].key # x
      BY <1>3, <2>3, <2>4, <2>6, <3>1
    <3>3. \A g \in DOMAIN tables : g > h => \A i \in DOMAIN tables[g] : tables'[g][i].key # x
      BY <1>3, <1>4, <2>4 DEF HasKey
    <3>4. \A g \in DOMAIN tables : g >= h => g = h \/ g > h
      BY <1>3
    <3> QED
      BY <3>2, <3>3, <3>4
  <2>9. ThreadInv(t)'
    BY <1>2, <1>5, <2>1, <2>4, <2>8, NextTableThread DEF l
  <2>10. loc'[t] = l
    BY <1>1, <1>5, <2>1, LocalsStep
  <2>11. Has(t)' = Has(t)
    BY <1>5, <2>10 DEF Has, Explicit
  <2>12. ASSUME NEW y \in Ids, NEW p, Entered(y, p)'
         PROVE  Entered(y, p)
    BY <2>3, <2>4, <2>6, <2>12 DEF Entered
  <2>13. EntriesInv'
    <3>1. \A b \in Agents : b # t => loc'[b] = loc[b]
      BY <1>1, <1>5, <2>1, LocalsStep
    <3>2. \A b \in Agents : Has(b)' = Has(b)
      BY <2>11, <3>1, HasStep
    <3>3. \A u \in Threads : loc'[u].id = loc[u].id
      BY <1>5, <2>10, <3>1 DEF Agents
    <3> QED
      BY <1>2, <2>12, <3>2, <3>3, EntriesStay
  <2>14. TablesInv'
    <3>1. ASSUME NEW g \in DOMAIN tables
          PROVE  TableInv(g)'
      <4>1. TableInv(g)
        BY <1>3 DEF HashInv, TablesInv
      <4>2. \A i \in DOMAIN tables[g] : tables'[g][i].key \in Ids => tables'[g][i] = tables[g][i]
        BY <2>3, <2>4, <2>6
      <4>3. \A i \in DOMAIN tables[g] :
              tables[g][i].key # invalid_thread_id => tables'[g][i].key # invalid_thread_id
        BY <2>3, <2>4, <2>6
      <4>4. ASSUME NEW i \in DOMAIN tables[g], NEW j \in DOMAIN tables[g],
                   NEW y \in Ids, tables'[g][i].key = y
            PROVE  /\ tables'[g][j].key = y => i = j
                   /\ Offset(g, y, j)' < Offset(g, y, i)' => tables'[g][j].key # invalid_thread_id
        <5>1. tables'[g][i] = tables[g][i] /\ tables[g][i].key = y
          BY <4>2, <4>4
        <5>2. tables'[g][j].key = y => i = j
          BY <4>1, <4>2, <4>4, <5>1 DEF TableInv
        <5>3. Offset(g, y, j) < Offset(g, y, i) => tables'[g][j].key # invalid_thread_id
          BY <4>1, <4>3, <4>4, <5>1 DEF TableInv
        <5>4. Offset(g, y, j)' = Offset(g, y, j) /\ Offset(g, y, i)' = Offset(g, y, i)
          BY <2>4 DEF Offset
        <5> QED
          BY <5>2, <5>3, <5>4
      <4> QED
        BY <2>4, <2>6, <4>4 DEF TableInv, Offset
    <3> QED
      BY <1>3, <2>4, <3>1 DEF HashInv, TablesInv
  <2>15. RoomInv'
    <3>1. ASSUME NEW n \in Nat, NEW y \in Reserved(n)'
          PROVE  y \in Reserved(n)
      <4>1. y \in Ids
        BY <3>1 DEF Reserved
      <4>2. ASSUME NEW g \in DOMAIN tables', ThreeQuarters(Capacity(g)') <= n + 1, HasKey(g, y)'
            PROVE  ThreeQuarters(Capacity(g)) <= n + 1 /\ HasKey(g, y)
        BY <2>3, <2>4, <2>6, <4>1, <4>2 DEF HasKey
      <4>3. ASSUME NEW u \in Threads, loc'[u].id = y, loc'[u].newCount <= n, Claims(u)'
            PROVE  loc[u].id = y /\ loc[u].newCount <= n /\ Claims(u)
        <5>1. u # t
          BY <1>6, <2>10, <4>3 DEF Claims, Counted, Counts
        <5>2. loc'[u] = loc[u]
          BY <1>1, <1>5, <2>1, <5>1, LocalsStep DEF Agents
        <5> QED
          BY <4>3, <5>2 DEF Claims, Counted
      <4> QED
        BY <2>4, <3>1, <4>2, <4>3 DEF Reserved, ThreeQuarters
    <3> QED
      BY <1>2, <3>1, RoomStays
  <2>16. \A g \in DOMAIN tables' : \A i \in DOMAIN tables'[g] : tables'[g][i].value <= Len(producers)
    BY <1>1, <1>3, <2>3, <2>4 DEF TypeInv
  <2> QED
    BY <1>1, <1>2, <1>3, <1>5, <1>6, <2>1, <2>4, <2>5, <2>9, <2>11, <2>13, <2>14, <2>15, <2>16,
       TableStep DEF LocalsInRange
<1> QED
  BY <1>7, <1>8, <1>9
\* The slot that a producer is entered in.
LEMMA EnterStep ==
  ASSUME ProducersAssumption, HashInv, NEW t \in Threads, Enter(t)
  PROVE  HashInv'
<1> DEFINE h == loc[t].table
           x == loc[t].id
           p == loc[t].producer
<1>1. /\ TypeInv /\ t \in Agents /\ loc[t] \in Locals /\ LocalsInRange(loc[t]) /\ ThreadInv(t)
      /\ t \notin Tokens /\ implicitProducerHashResizeInProgress \in BOOLEAN
      /\ loc[t].id # Null => \A u \in Threads : u # t => loc[u].id # loc[t].id
  BY ThreadFacts
<1>2. /\ loc[t].at \in {"adopt", "insert"} /\ producers' = producers /\ alive' = alive
      /\ implicitProducerHashResizeInProgress' \in BOOLEAN
      /\ implicitProducerHashCount' = implicitProducerHashCount
  BY <1>1 DEF Enter
<1>3. /\ h \in DOMAIN tables /\ Here(t) \in DOMAIN tables[h] /\ x \in Ids /\ alive
      /\ tables[h][Here(t)] \in Slots /\ x # invalid_thread_id /\ x # invalid_thread_id2
      /\ x # Null
  <2>1. /\ h \in DOMAIN tables /\ Here(t) \in DOMAIN tables[h] /\ x \in Ids /\ alive
        /\ tables[h][Here(t)] \in Slots
    BY <1>2, SlotHere
  <2> QED
    BY <2>1 DEF ProducersAssumption, invalid_thread_id, invalid_thread_id2, Null
<1>4. CASE Probed(t) \notin Takable
  <2>1. loc' = [loc EXCEPT ![t].index = Here(t) + 1] /\ tables' = tables
    BY <1>4 DEF Enter
  <2>2. Probed(t) # invalid_thread_id
    BY <1>4 DEF Takable
  <2> QED
    BY <1>2, <2>1, <2>2, SkipStep
<1>5. CASE Probed(t) \in Takable
  <2> DEFINE e == [key |-> x, value |-> p]
             l == [loc[t] EXCEPT !.at = "use",
                     !.listener = IF loc[t].at = "insert" /\ ThreadLocalSupported
                                  THEN p ELSE loc[t].listener]
  <2>1. loc' = [loc EXCEPT ![t] = l] /\ tables' = [tables EXCEPT ![h][Here(t)] = e]
    BY <1>1, <1>5 DEF Enter, TypeInv
  <2>2. /\ loc[t].table = loc[t].main /\ p # Null /\ ~HasKey(h, x)
        /\ \A i \in DOMAIN tables[h] : Passed(t, i) => tables[h][i].key # invalid_thread_id
    BY <1>1, <1>2 DEF ThreadInv, ThreadPlace, ThreadSearch
  <2>3. /\ l.at = "use" /\ l.id = x /\ l.producer = p /\ l.main = loc[t].main
        /\ l.table = h /\ l.ptr = loc[t].ptr
        /\ l.listener \in {p, loc[t].listener}
        /\ l.listener # Null => l.listener = p /\ ThreadLocalSupported
    <3>1. /\ l.at = "use" /\ l.id = x /\ l.producer = p /\ l.main = loc[t].main
          /\ l.table = h /\ l.ptr = loc[t].ptr
          /\ l.listener = IF loc[t].at = "insert" /\ ThreadLocalSupported
                          THEN p ELSE loc[t].listener
      BY <1>1 DEF Locals
    <3> HIDE DEF l
    <3>2. loc[t].at = "insert" => loc[t].listener = Null
      BY NoListener DEF MissingPlaces
    <3>3. loc[t].listener # Null => loc[t].listener = p /\ ThreadLocalSupported
      BY <1>1, <2>2 DEF ThreadInv, ThreadListener, ThreadPlace
    <3> QED
      BY <1>2, <3>1, <3>2, <3>3
  <2>4. l \in Locals
    BY <1>1 DEF Locals, Places
  <2>5. /\ e \in Slots /\ e.key = x /\ e.value = p /\ p \in Nat /\ p <= Len(producers)
        /\ tables[h][Here(t)].key \in {invalid_thread_id, invalid_thread_id2}
        /\ l.listener \in Nat /\ l.listener <= Len(producers)
    <3>1. p \in Nat /\ p <= Len(producers) /\ loc[t].listener \in Nat
          /\ loc[t].listener <= Len(producers)
      BY <1>1 DEF Locals, LocalsInRange
    <3>2. tables[h][Here(t)].key \in {invalid_thread_id, invalid_thread_id2}
      BY <1>5 DEF Probed, Takable
    <3> HIDE DEF l
    <3> QED
      BY <1>3, <2>3, <3>1, <3>2 DEF Slots, Keys
  <2> HIDE DEF e, l
  <2>6. /\ tables' \in Seq(HashTables)
        /\ Len(tables') = Len(tables) /\ DOMAIN tables' = DOMAIN tables
        /\ \A g \in DOMAIN tables :
             /\ DOMAIN tables'[g] = DOMAIN tables[g]
             /\ Capacity(g)' = Capacity(g)
             /\ \A j \in DOMAIN tables[g] :
                  tables'[g][j] = IF g = h /\ j = Here(t) THEN e ELSE tables[g][j]
    BY <1>1, <1>3, <2>1, <2>5, SlotWritten
  <2>7. TablesStep(x)
    BY <1>1, <1>3, <2>5, <2>6 DEF TablesStep, TypeInv
  <2>8. loc'[t] = l /\ \A b \in Agents : b # t => loc'[b] = loc[b]
    BY <1>1, <2>1, <2>4, LocalsStep
  <2>9. Has(t) = p /\ Has(t)' = p
    BY <1>1, <2>2, <2>3, <2>8 DEF Has, Explicit
  <2>10. ThreadInv(t)'
    <3>1. ThreadPlace(t)'
      BY <1>2, <1>3, <2>2, <2>3, <2>8 DEF ThreadPlace, MissingPlaces, CountedPlaces
    <3>2. \E g \in DOMAIN tables' : \E i \in DOMAIN tables'[g] :
            tables'[g][i].key = x /\ tables'[g][i].value = p
      <4>1. h \in DOMAIN tables' /\ Here(t) \in DOMAIN tables'[h] /\ tables'[h][Here(t)] = e
        BY <1>3, <2>6
      <4> QED
        BY <2>5, <4>1
    <3>3. ThreadListener(t)'
      BY <2>3, <2>8, <3>2 DEF ThreadListener, Entered
    <3>4. ThreadSearch(t)'
      BY <2>3, <2>8 DEF ThreadSearch, MissingPlaces, CountedPlaces
    <3> QED
      BY <3>1, <3>3, <3>4 DEF ThreadInv
  <2>11. \A b \in Agents : Has(b)' = Has(b)
    BY <2>8, <2>9, HasStep
  <2>12. \A u \in Threads : loc'[u].id = loc[u].id
    BY <2>3, <2>8 DEF Agents
  <2>13. \A y \in Ids, q \in Nat : Entered(y, q) => EntryInv(y, q) /\ (x = y <=> p = q)
    <3>1. ASSUME NEW y \in Ids, NEW q \in Nat, Entered(y, q)
          PROVE  x = y <=> p = q
      <4>1. EntryInv(y, q)
        BY <1>3, <3>1 DEF HashInv, EntriesInv
      <4>2. p = q => x = y
        BY <1>1, <2>9, <4>1 DEF EntryInv
      <4>3. x = y => p = q
        BY <2>2, <2>9, <4>1 DEF EntryInv
      <4> QED
        BY <4>2, <4>3
    <3> QED
      BY <1>3, <3>1 DEF HashInv, EntriesInv
  <2>14. \A y, q : Entered(y, q)' => Entered(y, q) \/ (y = x /\ q = p)
    <3>1. ASSUME NEW y, NEW q, NEW g \in DOMAIN tables', NEW i \in DOMAIN tables'[g],
                 tables'[g][i].key = y, tables'[g][i].value = q
          PROVE  Entered(y, q) \/ (y = x /\ q = p)
      BY <2>5, <2>6, <3>1 DEF Entered
    <3> QED
      BY <3>1 DEF Entered
  <2>15. EntriesInv'
    <3>1. ASSUME NEW y \in Ids, NEW q \in Nat, Entered(y, q)'
          PROVE  EntryInv(y, q)'
      <4>1. \A z \in Ids, r \in Nat : Entered(z, r)' => (y = z <=> q = r)
        <5>1. CASE Entered(y, q)
          BY <2>13, <2>14, <5>1 DEF EntryInv
        <5>2. CASE y = x /\ q = p
          BY <2>13, <2>14, <5>2
        <5> QED
          BY <2>14, <3>1, <5>1, <5>2
      <4>2. /\ q \in DOMAIN producers /\ ~producers[q].isExplicit /\ ~producers[q].inactive
            /\ \A a \in Agents : Has(a) = q => a \in Threads /\ loc[a].id = y
            /\ \A u \in Threads : loc[u].id = y => Has(u) \in {Null, q}
        <5>1. CASE Entered(y, q)
          BY <2>13, <5>1 DEF EntryInv
        <5>2. CASE y = x /\ q = p
          <6>1. p \in DOMAIN producers
            BY <1>1, <2>2, <2>5 DEF TypeInv, Null
          <6>2. Explicit(t) = FALSE
            BY <1>1 DEF Explicit
          <6>3. producers[p].isExplicit = FALSE /\ ~producers[p].inactive
            BY <1>1, <1>3, <2>2, <2>9, <6>2 DEF HashInv, OwnersInv
          <6>4. \A a \in Agents : Has(a) = p => a = t
            BY <1>1, <1>3, <2>2, <2>9 DEF HashInv, OwnersInv
          <6> QED
            BY <1>1, <1>3, <2>9, <5>2, <6>1, <6>3, <6>4
        <5> QED
          BY <2>14, <3>1, <5>1, <5>2
      <4>3. q \in DOMAIN producers' /\ ~producers'[q].isExplicit /\ ~producers'[q].inactive
        BY <1>2, <4>2
      <4>4. \A a \in Agents : Has(a)' = q => a \in Threads /\ loc'[a].id = y
        BY <2>11, <2>12, <4>2
      <4>5. \A u \in Threads : loc'[u].id = y => Has(u)' \in {Null, q}
        BY <2>11, <2>12, <4>2 DEF Agents
      <4> QED
        BY <4>1, <4>3, <4>4, <4>5 DEF EntryInv
    <3> QED
      BY <3>1 DEF EntriesInv
  <2>16. ASSUME NEW g \in DOMAIN tables
         PROVE  TableInv(g)'
    <3>1. TableInv(g)
      BY <1>3 DEF HashInv, TablesInv
    <3>2. ASSUME NEW i \in DOMAIN tables[g], tables'[g][i].key = invalid_thread_id2
          PROVE  ThreadLocalSupported
      BY <1>3, <2>5, <2>6, <3>1, <3>2 DEF TableInv
    <3>3. ASSUME NEW i \in DOMAIN tables[g], NEW j \in DOMAIN tables[g],
                 NEW y \in Ids, tables'[g][i].key = y
          PROVE  /\ tables'[g][j].key = y => i = j
                 /\ Offset(g, y, j) < Offset(g, y, i) => tables'[g][j].key # invalid_thread_id
      <4>1. CASE g = h /\ i = Here(t)
        <5>1. y = x /\ tables[h][j].key # x
          BY <1>3, <2>2, <2>5, <2>6, <3>3, <4>1 DEF HasKey
        <5>2. tables'[g][j].key = y => i = j
          BY <2>6, <4>1, <5>1
        <5>3. Offset(g, y, j) < Offset(g, y, i) => Passed(t, j)
          BY <4>1, <5>1 DEF Passed
        <5>4. Passed(t, j) => tables[g][j].key # invalid_thread_id
          BY <2>2, <4>1
        <5>5. j = i => tables'[g][j].key # invalid_thread_id
          BY <1>3, <3>3, <5>1
        <5> QED
          BY <2>6, <4>1, <5>2, <5>3, <5>4, <5>5
      <4>2. CASE ~(g = h /\ i = Here(t))
        <5>1. tables[g][i].key = y
          BY <2>6, <3>3, <4>2
        <5>2. /\ tables[g][j].key = y => i = j
              /\ Offset(g, y, j) < Offset(g, y, i) => tables[g][j].key # invalid_thread_id
          BY <3>1, <3>3, <5>1 DEF TableInv
        <5>3. CASE g = h /\ j = Here(t)
          <6>1. y # x
            BY <2>2, <5>1, <5>3 DEF HasKey
          <6> QED
            BY <1>3, <2>5, <2>6, <5>3, <6>1
        <5>4. CASE ~(g = h /\ j = Here(t))
          BY <2>6, <5>2, <5>4
        <5> QED
          BY <5>3, <5>4
      <4> QED
        BY <4>1, <4>2
    <3> QED
      BY <2>6, <3>2, <3>3 DEF TableInv, Offset
  <2>17. TablesInv'
    BY <1>3, <2>6, <2>16 DEF HashInv, TablesInv
  <2>18. RoomInv'
    <3>1. ASSUME NEW n \in Nat, NEW y \in Reserved(n)'
          PROVE  y \in Reserved(n)
      <4>1. y \in Ids
        BY <3>1 DEF Reserved
      <4>2. ASSUME NEW g \in DOMAIN tables', ThreeQuarters(Capacity(g)') <= n + 1, HasKey(g, y)'
            PROVE  y \in Reserved(n)
        <5>1. CASE HasKey(g, y)
          BY <2>6, <4>1, <4>2, <5>1 DEF Reserved
        <5>2. CASE ~HasKey(g, y)
          <6>1. g = h /\ y = x
            BY <2>5, <2>6, <4>2, <5>2 DEF HasKey
          <6>2. ThreeQuarters(Capacity(h)) <= n + 1 /\ Capacity(h) \in Nat
            BY <1>1, <2>6, <4>2, <6>1, Capacities
          <6>3. CASE loc[t].at = "insert"
            <7>1. loc[t].newCount < ThreeQuarters(Capacity(h)) /\ loc[t].newCount \in Nat
              BY <1>1, <2>2, <6>3 DEF ThreadInv, ThreadPlace, Locals
            <7>2. loc[t].newCount <= n
              BY <6>2, <7>1 DEF ThreeQuarters
            <7> QED
              BY <4>1, <6>1, <6>3, <7>2 DEF Reserved, Claims
          <6>4. CASE loc[t].at = "adopt"
            <7>1. PICK f \in DOMAIN tables : f <= h /\ HasKey(f, x)
              BY <1>1, <2>2, <6>4 DEF ThreadInv, ThreadSearch
            <7>2. f < h
              BY <1>1, <1>3, <2>2, <7>1 DEF TypeInv
            <7>3. Capacity(f) <= Capacity(h) /\ Capacity(f) \in Nat
              BY <1>1, <1>3, <7>2, Capacities DEF HashInv, TablesInv
            <7>4. ThreeQuarters(Capacity(f)) <= n + 1
              BY <6>2, <7>3 DEF ThreeQuarters
            <7> QED
              BY <4>1, <6>1, <7>1, <7>4 DEF Reserved
          <6> QED
            BY <1>2, <6>3, <6>4
        <5> QED
          BY <5>1, <5>2
      <4>3. ASSUME NEW u \in Threads, loc'[u].id = y, loc'[u].newCount <= n, Claims(u)'
            PROVE  loc[u].id = y /\ loc[u].newCount <= n /\ Claims(u)
        <5>1. u # t
          BY <2>3, <2>8, <4>3 DEF Claims, Counted, CountedPlaces
        <5>2. loc'[u] = loc[u]
          BY <2>8, <5>1 DEF Agents
        <5> QED
          BY <4>3, <5>2 DEF Claims, Counted
      <4> QED
        BY <3>1, <4>1, <4>2, <4>3 DEF Reserved, ThreeQuarters
    <3> QED
      BY <1>2, <3>1, RoomStays
  <2>19. \A g \in DOMAIN tables' : \A i \in DOMAIN tables'[g] : tables'[g][i].value <= Len(producers)
    BY <1>1, <1>3, <2>5, <2>6 DEF TypeInv
  <2>20. Counts(l) <=> Counts(loc[t])
    BY <1>2, <2>3 DEF Counts, CountedPlaces
  <2>21. /\ l.main <= Len(tables') /\ l.table <= Len(tables') /\ l.ptr <= Len(producers)
         /\ l.producer <= Len(producers) /\ l.listener <= Len(producers) /\ Len(tables') # 0
    BY <1>1, <2>3, <2>5, <2>6 DEF LocalsInRange, TypeInv
  <2>22. Has(t)' = Has(t)
    BY <2>9
  <2> QED
    BY <1>2, <1>3, <2>1, <2>3, <2>4, <2>6, <2>7, <2>10, <2>15, <2>17, <2>18, <2>19,
       <2>20, <2>21, <2>22, TableStep
<1> QED
  BY <1>4, <1>5
\* A table that is chained is empty, and larger than those before.
LEMMA GrowStep ==
  ASSUME ProducersAssumption, HashInv, NEW t \in Threads, Grow(t)
  PROVE  HashInv'
<1> DEFINE c == Capacity(Len(tables))
           l == [loc[t] EXCEPT !.main = Len(tables'), !.at = "unlock"]
<1>1. /\ TypeInv /\ t \in Agents /\ loc[t] \in Locals /\ LocalsInRange(loc[t]) /\ ThreadInv(t)
      /\ implicitProducerHashResizeInProgress \in BOOLEAN
  BY ThreadFacts
<1>2. /\ loc[t].at = "grow" /\ loc' = [loc EXCEPT ![t] = l]
      /\ producers' = producers /\ alive' = alive
      /\ implicitProducerHashResizeInProgress' \in BOOLEAN
      /\ implicitProducerHashCount' = implicitProducerHashCount
  BY <1>1 DEF Grow
<1>3. Len(tables) \in Nat /\ Len(tables) # 0 /\ DOMAIN tables = 1 .. Len(tables)
      /\ Len(tables) \in DOMAIN tables
  BY <1>1 DEF TypeInv
<1>4. /\ \A h \in DOMAIN tables : ~HasKey(h, loc[t].id)
      /\ loc[t].id \in Ids /\ alive /\ loc[t].id # Null /\ loc[t].id # invalid_thread_id
      /\ loc[t].id # invalid_thread_id2
  <2>1. loc[t].id \in Ids
    BY <1>2, MissingFacts DEF MissingPlaces, CountedPlaces
  <2>2. loc[t].id # Null /\ loc[t].id # invalid_thread_id /\ loc[t].id # invalid_thread_id2
    BY <2>1 DEF ProducersAssumption, Null, invalid_thread_id, invalid_thread_id2
  <2> QED
    BY <1>2, <2>1, <2>2, MissingFacts DEF MissingPlaces, CountedPlaces
<1>5. loc[t].newCount # 0 /\ loc[t].producer = Null
  BY <1>1, <1>2 DEF ThreadInv, ThreadPlace, MissingPlaces, CountedPlaces
<1>6. ASSUME Len(tables') \in Nat
      PROVE  /\ l \in Locals
             /\ l.id = loc[t].id /\ l.listener = loc[t].listener /\ l.producer = loc[t].producer
             /\ l.main = Len(tables') /\ l.at = "unlock" /\ l.newCount = loc[t].newCount
             /\ l.table = loc[t].table /\ l.ptr = loc[t].ptr
  BY <1>1, <1>6 DEF Locals, Places
<1>7. Counts(loc[t]) /\ Claims(t)
  BY <1>2 DEF Counts, CountedPlaces, Claims, Counted
<1>8. CASE ~(loc[t].newCount >= Half(c))
  <2>1. tables' = tables
    BY <1>8 DEF Grow
  <2>2. Len(tables') = Len(tables)
    BY <2>1
  <2> HIDE DEF l
  <2>3. LocalsInRange(l)
    BY <1>1, <1>3, <1>6, <2>2 DEF LocalsInRange
  <2>4. Share(t, l) = 1 /\ Share(t, loc[t]) = 1
    BY <1>3, <1>5, <1>6, <1>7, <2>2 DEF Share, Counts
  <2>5. implicitProducerHashCount' = implicitProducerHashCount + Share(t, l) - Share(t, loc[t])
    BY <1>1, <1>2, <2>4 DEF TypeInv
  <2> QED
    BY <1>2, <1>3, <1>5, <1>6, <1>7, <2>1, <2>2, <2>3, <2>5, MissingStep
       DEF MissingPlaces, CountedPlaces
<1>9. CASE loc[t].newCount >= Half(c)
  <2>1. c \in Nat \ {0}
    BY <1>1, <1>3, Capacities
  <2>2. PICK d \in Enlarged(c, loc[t].newCount) : tables' = Append(tables, EmptyTable(d))
    BY <1>9 DEF Grow
  <2>3. d \in Nat \ {0} /\ c <= d
    <3>1. d \in 2 * c .. 2 * c + 4 * loc[t].newCount /\ loc[t].newCount \in Nat
      BY <1>1, <2>2 DEF Enlarged, Locals
    <3> HIDE DEF c
    <3> QED
      BY <2>1, <3>1
  <2> HIDE DEF l
  <2>4. /\ tables' \in Seq(HashTables)
        /\ Len(tables') = Len(tables) + 1 /\ DOMAIN tables \subseteq DOMAIN tables'
        /\ DOMAIN tables' = DOMAIN tables \cup {Len(tables')}
        /\ \A g \in DOMAIN tables : tables'[g] = tables[g] /\ Capacity(g)' = Capacity(g)
        /\ tables'[Len(tables')] = EmptyTable(d)
        /\ Cardinality(DOMAIN tables'[Len(tables')]) = d
    BY <1>1, <2>2, <2>3, TableChained
  <2>5. /\ \A i \in DOMAIN EmptyTable(d) : EmptyTable(d)[i].key = invalid_thread_id
        /\ \A i \in DOMAIN EmptyTable(d) : EmptyTable(d)[i].value = Null
        /\ invalid_thread_id \notin Ids /\ invalid_thread_id # invalid_thread_id2
    BY <2>3, EmptyTableType DEF ProducersAssumption, invalid_thread_id, invalid_thread_id2
  <2>6. Len(tables') \in Nat /\ Len(tables') # 0
    BY <1>3, <2>4
  <2>7. TablesStep(loc[t].id)
    BY <1>3, <2>4, <2>5 DEF TablesStep
  <2>8. loc'[t] = l /\ \A b \in Agents : b # t => loc'[b] = loc[b]
    BY <1>1, <1>2, <1>6, <2>6, LocalsStep
  <2>9. \A h \in DOMAIN tables' : \A i \in DOMAIN tables'[h] : tables'[h][i].key # l.id
    BY <1>4, <1>6, <2>4, <2>5, <2>6 DEF HasKey
  <2>10. ThreadInv(t)' /\ Has(t)' = Null
    BY <1>2, <1>5, <1>6, <2>6, <2>9, MissingThread DEF MissingPlaces, CountedPlaces
  <2>11. Has(t) = Null /\ t \notin Tokens
    <3>1. loc[t].listener = Null
      BY <1>2, NoListener DEF MissingPlaces, CountedPlaces
    <3> QED
      BY <1>5, <3>1, ThreadFacts DEF Has, Explicit
  <2>12. Counts(l) <=> Counts(loc[t])
    BY <1>5, <1>6, <1>7, <2>6 DEF Counts
  <2>13. EntriesInv'
    <3>1. \A b \in Agents : Has(b)' = Has(b)
      BY <2>8, <2>10, <2>11, HasStep
    <3>2. \A u \in Threads : loc'[u].id = loc[u].id
      BY <1>6, <2>6, <2>8 DEF Agents
    <3>3. \A y \in Ids, q \in Nat : Entered(y, q)' => Entered(y, q)
      BY <2>4, <2>5 DEF Entered
    <3> QED
      BY <1>2, <3>1, <3>2, <3>3, EntriesStay
  <2>14. TablesInv'
    <3>1. ASSUME NEW g \in DOMAIN tables
          PROVE  TableInv(g)'
      <4>1. TableInv(g)
        BY <1>4 DEF HashInv, TablesInv
      <4> QED
        BY <2>4, <4>1 DEF TableInv, Offset
    <3>2. \A g \in DOMAIN tables' : g # Len(tables') => TableInv(g)'
      BY <2>4, <3>1
    <3>4. \A g \in DOMAIN tables' : TableInv(g)'
      <4>1. ASSUME NEW g \in DOMAIN tables', g = Len(tables')
            PROVE  TableInv(g)'
        BY <2>4, <2>5, <4>1 DEF TableInv
      <4> QED
        BY <3>2, <4>1
    <3>5. \A f, g \in DOMAIN tables : f < g => Capacity(f) <= Capacity(g)
      BY <1>4 DEF HashInv, TablesInv
    <3>6. ASSUME NEW f \in DOMAIN tables', NEW g \in DOMAIN tables', f < g
          PROVE  Cardinality(DOMAIN tables'[f]) <= Cardinality(DOMAIN tables'[g])
      <4>1. f \in DOMAIN tables
        BY <1>3, <2>4, <3>6
      <4>2. Capacity(f) <= c /\ Capacity(f) \in Nat
        <5>1. Capacity(f) \in Nat
          BY <1>1, <4>1, Capacities
        <5>2. f = Len(tables) \/ f < Len(tables)
          BY <1>3, <4>1
        <5> QED
          BY <1>3, <2>1, <3>5, <4>1, <5>1, <5>2
      <4>3. CASE g \in DOMAIN tables
        BY <2>4, <3>5, <3>6, <4>1, <4>3 DEF Capacity
      <4>4. CASE g = Len(tables')
        <5>1. Cardinality(DOMAIN tables'[f]) = Capacity(f) /\ Cardinality(DOMAIN tables'[g]) = d
          BY <2>4, <4>1, <4>4 DEF Capacity
        <5> HIDE DEF c
        <5> QED
          BY <2>1, <2>3, <4>2, <5>1
      <4> QED
        BY <2>4, <4>3, <4>4
    <3> QED
      BY <3>4, <3>6 DEF TablesInv, Capacity
  <2>15. RoomInv'
    <3>1. ASSUME NEW n \in Nat, NEW y \in Reserved(n)'
          PROVE  y \in Reserved(n)
      <4>1. y \in Ids
        BY <3>1 DEF Reserved
      <4>2. ASSUME NEW g \in DOMAIN tables', ThreeQuarters(Capacity(g)') <= n + 1, HasKey(g, y)'
            PROVE  g \in DOMAIN tables /\ ThreeQuarters(Capacity(g)) <= n + 1 /\ HasKey(g, y)
        BY <2>4, <2>5, <4>1, <4>2 DEF HasKey
      <4>3. ASSUME NEW u \in Threads, loc'[u].id = y, loc'[u].newCount <= n, Claims(u)'
            PROVE  loc[u].id = y /\ loc[u].newCount <= n /\ Claims(u)
        <5>1. CASE u # t
          <6>1. loc'[u] = loc[u]
            BY <2>8, <5>1 DEF Agents
          <6> QED
            BY <4>3, <6>1 DEF Claims, Counted
        <5>2. CASE u = t
          BY <1>6, <1>7, <2>6, <2>8, <4>3, <5>2
        <5> QED
          BY <5>1, <5>2
      <4> QED
        BY <3>1, <4>1, <4>2, <4>3 DEF Reserved, ThreeQuarters
    <3> QED
      BY <1>2, <3>1, RoomStays
  <2>16. \A g \in DOMAIN tables' : \A i \in DOMAIN tables'[g] : tables'[g][i].value <= Len(producers)
    BY <1>1, <2>4, <2>5 DEF TypeInv, Null
  <2>17. /\ l.main <= Len(tables') /\ l.table <= Len(tables') /\ l.ptr <= Len(producers)
         /\ l.producer <= Len(producers) /\ l.listener <= Len(producers)
    <3>1. loc[t].table <= Len(tables) /\ loc[t].table \in Nat
      BY <1>1 DEF LocalsInRange, Locals
    <3> QED
      BY <1>1, <1>3, <1>6, <2>4, <2>6, <3>1 DEF LocalsInRange
  <2>18. Has(t)' = Has(t)
    BY <2>10, <2>11
  <2> QED
    BY <1>2, <1>4, <1>6, <2>4, <2>6, <2>7, <2>10, <2>12, <2>13, <2>14, <2>15, <2>16, <2>17,
       <2>18, TableStep
<1> QED
  BY <1>8, <1>9 DEF Half, Capacity
------------------------------------------------------------------------------
(* Steps that write the list of producers                                    *)

\* Nobody has a producer that is inactive or not there yet, and no id is entered with it.
LEMMA NobodysProducer ==
  ASSUME ProducersAssumption, HashInv, alive, NEW p \in Nat \ {0},
         p \in DOMAIN producers => producers[p].inactive
  PROVE  /\ \A a \in Agents : Has(a) # p
         /\ \A x \in Ids : ~Entered(x, p)
<1>1. TypeInv
  BY DEF HashInv
<1>2. ASSUME NEW a \in Agents, Has(a) = p
      PROVE  FALSE
  <2>1. ~producers[p].inactive
    BY <1>2 DEF HashInv, OwnersInv, Null
  <2>2. p <= Len(producers) /\ Len(producers) \in Nat
    BY <1>1, <1>2 DEF Has, TypeInv, LocalsInRange
  <2> QED
    BY <1>1, <2>1, <2>2 DEF TypeInv
<1>3. ASSUME NEW x \in Ids, Entered(x, p)
      PROVE  FALSE
  BY <1>3 DEF HashInv, EntriesInv, EntryInv
<1> QED
  BY <1>2, <1>3

\* A thread or a token has obtained producer p, which nobody had.
LEMMA ObtainStep ==
  ASSUME ProducersAssumption, HashInv, NEW a \in Agents, loc[a].at = "traverse",
         NEW p \in Nat \ {0}, NEW l \in Locals, loc' = [loc EXCEPT ![a] = l],
         HashUnchanged, alive' = alive,
         producers' \in Seq(ProducerRecords), Len(producers) <= Len(producers'),
         p \in DOMAIN producers => producers[p].inactive,
         p \in DOMAIN producers',
         \A q \in DOMAIN producers : q # p => producers'[q] = producers[q],
         producers'[p].inactive = FALSE, producers'[p].isExplicit = Explicit(a),
         a \in Tokens => producers'[p].token = a /\ l.at = "use",
         a \in Threads => ThreadInv(a)' /\ l.at \in {"uncount", "insert"},
         l.producer = p, l.id = loc[a].id, l.newCount = loc[a].newCount,
         l.listener = loc[a].listener, l.main = loc[a].main, l.ptr = Null,
         l.table <= Len(tables), CountsProducers'
  PROVE  HashInv'
<1>1. /\ TypeInv /\ alive /\ loc[a] \in Locals /\ LocalsInRange(loc[a])
      /\ implicitProducerHashResizeInProgress \in BOOLEAN
  <2>1. a \in Threads => alive
    BY ThreadFacts DEF ThreadInv, ThreadPlace
  <2>2. a \in Tokens => alive
    BY TokenFacts DEF TokenInv
  <2> QED
    BY <2>1, <2>2 DEF HashInv, TypeInv, Agents
<1>2. /\ loc' \in [Agents -> Locals] /\ loc'[a] = l
      /\ \A b \in Agents : b # a => loc'[b] = loc[b]
  BY <1>1, LocalsStep
<1>3. /\ tables' = tables /\ implicitProducerHashCount' = implicitProducerHashCount
      /\ implicitProducerHashResizeInProgress' = implicitProducerHashResizeInProgress
  BY DEF HashUnchanged
<1>4. /\ \A b \in Agents : Has(b) # p
      /\ \A x \in Ids : ~Entered(x, p)
  BY <1>1, NobodysProducer
<1>5. /\ \A b \in Agents : b # a => Has(b)' = Has(b)
      /\ Has(a)' = p
      /\ \A b \in Agents : Has(b) \in Nat
  <2>1. Has(a)' = p
    BY <1>2 DEF Has, Null
  <2> QED
    BY <1>1, <1>2, <2>1, HasStep, HasType
<1>6. /\ Len(producers) \in Nat /\ Len(producers') \in Nat
      /\ DOMAIN producers = 1 .. Len(producers) /\ DOMAIN producers' = 1 .. Len(producers')
      /\ Len(tables) \in Nat /\ p <= Len(producers')
  BY <1>1 DEF TypeInv
<1>7. TypeInv'
  <2>1. ASSUME NEW h \in DOMAIN tables, NEW i \in DOMAIN tables[h]
        PROVE  tables[h][i].value <= Len(producers')
    <3>1. tables[h][i].value \in Nat /\ tables[h][i].value <= Len(producers)
      BY <1>1, <2>1, Capacities DEF TypeInv, Slots
    <3> QED
      BY <1>6, <3>1
  <2>2. ASSUME NEW b \in Agents
        PROVE  LocalsInRange(loc[b])'
    <3>1. LocalsInRange(loc[b]) /\ loc[b] \in Locals
      BY <1>1 DEF TypeInv
    <3>2. CASE b = a
      <4>1. /\ loc[a].main <= Len(tables) /\ loc[a].listener \in Nat
            /\ loc[a].listener <= Len(producers)
        BY <3>1, <3>2 DEF LocalsInRange, Locals
      <4>2. loc'[b].main = loc[a].main /\ loc'[b].listener = loc[a].listener
        BY <1>1, <1>2, <3>2 DEF Locals
      <4>3. loc'[b].table <= Len(tables) /\ loc'[b].ptr = Null /\ loc'[b].producer = p
        BY <1>2, <3>1, <3>2
      <4> QED
        BY <1>3, <1>6, <4>1, <4>2, <4>3 DEF LocalsInRange, Null
    <3>3. CASE b # a
      BY <1>2, <1>3, <1>6, <3>1, <3>3 DEF LocalsInRange, Locals
    <3> QED
      BY <3>2, <3>3
  <2> QED
    BY <1>1, <1>2, <1>3, <2>1, <2>2 DEF TypeInv
<1>8. AgentsInv'
  <2>1. ASSUME NEW t \in Threads
        PROVE  ThreadInv(t)'
    <3>1. CASE t = a
      BY <3>1
    <3>2. CASE t # a
      <4>1. t \in Agents /\ loc[t].id # invalid_thread_id2 /\ ThreadInv(t)
        <5>1. loc[t] \in Locals /\ ThreadInv(t) /\ t \in Agents
          BY ThreadFacts
        <5>2. loc[t].id \in Ids \cup {Null}
          BY <5>1 DEF Locals
        <5> QED
          BY <5>1, <5>2 DEF ProducersAssumption, invalid_thread_id2, Null
      <4>2. loc'[t] = loc[t] /\ TablesStep(invalid_thread_id2)
        BY <1>1, <1>2, <1>3, <3>2, <4>1, SameTables
      <4> QED
        BY <1>1, <4>1, <4>2, ThreadRests DEF invalid_thread_id, invalid_thread_id2
    <3> QED
      BY <3>1, <3>2
  <2>2. ASSUME NEW k \in Tokens
        PROVE  TokenInv(k)'
    <3>1. TokenInv(k) /\ k \in Agents
      BY TokenFacts
    <3> QED
      BY <1>2, <3>1 DEF TokenInv
  <2> QED
    BY <2>1, <2>2 DEF AgentsInv
<1>9. IdsDiffer'
  <2>1. \A t \in Threads : loc'[t].id = loc[t].id
    BY <1>2 DEF Agents
  <2> QED
    BY <2>1 DEF HashInv, IdsDiffer
<1>10. OwnersInv'
  <2>1. \A b, c \in Agents : b # c /\ Has(b)' # Null => Has(b)' # Has(c)'
    BY <1>1, <1>4, <1>5 DEF HashInv, OwnersInv
  <2>2. ASSUME NEW b \in Agents, Has(b)' # Null
        PROVE  ~producers'[Has(b)'].inactive /\ producers'[Has(b)'].isExplicit = Explicit(b)
    <3>1. CASE b = a
      BY <1>5, <3>1
    <3>2. CASE b # a
      <4>1. Has(b)' = Has(b) /\ Has(b) # p /\ Has(b) # Null
        BY <1>4, <1>5, <2>2, <3>2
      <4>2. ~producers[Has(b)].inactive /\ producers[Has(b)].isExplicit = Explicit(b)
        BY <1>1, <4>1 DEF HashInv, OwnersInv
      <4>3. Has(b) \in DOMAIN producers
        BY <1>1, <4>1, HasType
      <4> QED
        BY <4>1, <4>2, <4>3
    <3> QED
      BY <3>1, <3>2
  <2> QED
    BY <2>1, <2>2 DEF OwnersInv, Explicit
<1>11. EntriesInv'
  <2>1. \A x, q : Entered(x, q)' <=> Entered(x, q)
    BY <1>3 DEF Entered
  <2>2. ASSUME NEW x \in Ids, NEW q \in Nat, Entered(x, q)
        PROVE  EntryInv(x, q)'
    <3>1. EntryInv(x, q) /\ q # p
      BY <1>1, <1>4, <2>2 DEF HashInv, EntriesInv
    <3>2. \A b \in Agents : Has(b)' = q => b \in Threads /\ loc'[b].id = x
      BY <1>2, <1>5, <3>1 DEF EntryInv
    <3>3. ASSUME NEW t \in Threads, loc'[t].id = x
          PROVE  Has(t)' \in {Null, q}
      <4>1. CASE t = a
        <5>1. \A h \in DOMAIN tables : ~HasKey(h, loc[t].id)
          BY <4>1, MissingFacts DEF MissingPlaces, CountedPlaces
        <5> QED
          BY <1>2, <2>2, <3>3, <4>1, <5>1, EnteredHasKey
      <4>2. CASE t # a
        BY <1>2, <1>5, <3>1, <3>3, <4>2 DEF EntryInv, Agents
      <4> QED
        BY <4>1, <4>2
    <3>4. q \in DOMAIN producers' /\ ~producers'[q].isExplicit /\ ~producers'[q].inactive
      BY <1>6, <3>1 DEF EntryInv
    <3>5. \A y \in Ids, r \in Nat : Entered(y, r)' => (x = y <=> q = r)
      BY <2>1, <3>1 DEF EntryInv
    <3> QED
      BY <3>2, <3>3, <3>4, <3>5 DEF EntryInv
  <2> QED
    BY <2>1, <2>2 DEF EntriesInv
<1>12. TablesInv'
  BY <1>3 DEF HashInv, TablesInv, TableInv, Offset, Capacity
<1>13. RoomInv'
  <2>1. a \in Threads => Claims(a)
    BY DEF Claims, Counted, CountedPlaces
  <2>2. \A n \in Nat : Reserved(n)' \subseteq Reserved(n)
    BY <1>1, <1>3, <2>1, ReservedStep
  <2> QED
    BY <2>2, RoomStays
<1>14. TokensAreValid'
  <2>1. ASSUME NEW k \in Tokens, loc'[k].at = "use", loc'[k].producer # Null
        PROVE  alive /\ producers'[loc'[k].producer].token = k
    <3>1. CASE k = a
      BY <1>1, <1>2, <3>1
    <3>2. CASE k # a
      <4>1. k \in Agents /\ loc'[k] = loc[k] /\ Has(k) = loc[k].producer
        BY <1>2, <3>2, TokenFacts
      <4>2. producers[loc[k].producer].token = k
        BY <2>1, <4>1 DEF HashInv, TokensAreValid
      <4>3. loc[k].producer # p /\ loc[k].producer \in DOMAIN producers
        <5>1. loc[k] \in Locals /\ LocalsInRange(loc[k])
          BY TokenFacts
        <5>2. loc[k].producer \in Nat /\ loc[k].producer <= Len(producers)
          BY <5>1 DEF LocalsInRange, Locals
        <5>3. loc[k].producer # Null
          BY <2>1, <4>1
        <5> QED
          BY <1>4, <1>6, <4>1, <5>2, <5>3 DEF Null
      <4> QED
        BY <1>1, <4>1, <4>2, <4>3
    <3> QED
      BY <3>1, <3>2
  <2> QED
    BY <2>1 DEF TokensAreValid
<1> QED
  BY <1>7, <1>8, <1>9, <1>10, <1>11, <1>12, <1>13, <1>14 DEF HashInv
LEMMA RecycleStep ==
  ASSUME ProducersAssumption, HashInv, NEW a \in Agents, Recycle(a)
  PROVE  HashInv'
<1> DEFINE p == loc[a].ptr
           e == [producers[p] EXCEPT !.inactive = FALSE, !.token = TokenOf(a, @)]
<1>1. /\ TypeInv /\ loc[a] \in Locals /\ LocalsInRange(loc[a])
      /\ implicitProducerHashResizeInProgress \in BOOLEAN
  BY DEF HashInv, TypeInv
<1>2. /\ loc[a].at = "traverse" /\ p # Null /\ HashUnchanged /\ alive' = alive
  BY DEF Recycle
<1>3. CASE ~(producers[p].inactive /\ producers[p].isExplicit = Explicit(a))
  <2>1. loc' = [loc EXCEPT ![a].ptr = @ - 1] /\ producers' = producers
    BY <1>3 DEF Recycle
  <2> QED
    BY <1>2, <2>1, NextProducerStep
<1>4. CASE producers[p].inactive /\ producers[p].isExplicit = Explicit(a)
  <2> DEFINE l == [loc[a] EXCEPT !.ptr = Null, !.producer = p,
                                 !.at = IF Explicit(a) THEN "use" ELSE "uncount"]
  <2>1. p \in DOMAIN producers /\ p \in Nat \ {0} /\ Len(producers) \in Nat
        /\ DOMAIN producers = 1 .. Len(producers) /\ producers[p] \in ProducerRecords
    BY <1>1, <1>2 DEF Locals, LocalsInRange, TypeInv, Null
  <2>2. producers' = [producers EXCEPT ![p] = e]
    BY <1>4 DEF Recycle
  <2>3. loc' = [loc EXCEPT ![a] = l]
    <3>1. Obtained(a, p, TRUE)
      BY <1>4 DEF Recycle
    <3> QED
      BY <3>1, <1>1 DEF Obtained, TypeInv
  <2>4. /\ e \in ProducerRecords /\ e.inactive = FALSE
        /\ e.isExplicit = producers[p].isExplicit /\ (a \in Tokens => e.token = a)
    <3>1. TokenOf(a, producers[p].token) \in Tokens \cup {NoToken}
      BY <2>1 DEF TokenOf, Explicit, ProducerRecords
    <3>2. a \in Tokens => TokenOf(a, producers[p].token) = a
      BY DEF TokenOf, Explicit
    <3> QED
      BY <2>1, <3>1, <3>2 DEF ProducerRecords
  <2>5. /\ l.at = (IF Explicit(a) THEN "use" ELSE "uncount") /\ l.producer = p /\ l.ptr = Null
        /\ l.id = loc[a].id /\ l.newCount = loc[a].newCount /\ l.listener = loc[a].listener
        /\ l.main = loc[a].main /\ l.table = loc[a].table
    BY <1>1 DEF Locals
  <2>6. l \in Locals
    BY <1>1, <2>1 DEF Locals, Places, Null
  <2> HIDE DEF l, e
  <2>7. /\ producers' \in Seq(ProducerRecords) /\ Len(producers') = Len(producers)
        /\ DOMAIN producers' = DOMAIN producers /\ producers'[p] = e
        /\ \A q \in DOMAIN producers : q # p => producers'[q] = producers[q]
    BY <1>1, <2>1, <2>2, <2>4 DEF TypeInv
  <2>8. CountsProducers'
    <3>1. ImplicitProducers' = ImplicitProducers
      BY <2>4, <2>7, <2>1 DEF ImplicitProducers
    <3>2. Share(a, l) = Share(a, loc[a])
      <4>1. CASE a \in Threads
        <5>1. l.at = "uncount"
          BY <2>5, <4>1 DEF Explicit, ProducersAssumption
        <5> QED
          BY <1>2, <5>1 DEF Share, Counts, CountedPlaces
      <4>2. CASE a \notin Threads
        BY <4>2 DEF Share
      <4> QED
        BY <4>1, <4>2
    <3>3. implicitProducerHashCount' = implicitProducerHashCount + Share(a, l) - Share(a, loc[a])
      <4>1. Share(a, l) \in Int /\ Share(a, loc[a]) \in Int
        BY DEF Share
      <4> QED
        BY <1>1, <1>2, <3>2, <4>1 DEF HashUnchanged, TypeInv
    <3> QED
      BY <2>3, <2>6, <3>1, <3>3, CountsStep
  <2>9. a \in Threads => ThreadInv(a)' /\ l.at = "uncount"
    <3>1. SUFFICES ASSUME a \in Threads
                   PROVE  ThreadInv(a)' /\ l.at = "uncount"
      OBVIOUS
    <3>2. l.at = "uncount"
      BY <2>5, <3>1 DEF Explicit, ProducersAssumption
    <3>3. /\ loc[a].main # 0 /\ loc[a].newCount # 0
          /\ loc[a].newCount < ThreeQuarters(Capacity(loc[a].main))
      BY <1>2, <3>1, ThreadFacts DEF ThreadInv, ThreadPlace, MissingPlaces, CountedPlaces
    <3>4. \A h \in DOMAIN tables' : \A i \in DOMAIN tables'[h] : tables'[h][i].key # l.id
      BY <1>2, <2>5, <3>1, MissingFacts DEF HasKey, MissingPlaces, CountedPlaces, HashUnchanged
    <3>5. l.newCount < ThreeQuarters(Cardinality(DOMAIN tables'[l.main]))
      BY <1>2, <2>5, <3>3 DEF Capacity, HashUnchanged
    <3>6. loc[a].at \in MissingPlaces /\ l.at \in MissingPlaces \ {"insert"}
      BY <1>2, <3>2 DEF MissingPlaces, CountedPlaces
    <3> QED
      BY <1>2, <2>3, <2>5, <2>6, <3>1, <3>2, <3>3, <3>4, <3>5, <3>6, MissingThread
  <2>10. a \in Tokens => l.at = "use"
    BY <2>5 DEF Explicit
  <2>11. l.table <= Len(tables)
    BY <1>1, <2>5 DEF LocalsInRange
  <2>12. /\ producers'[p].inactive = FALSE /\ producers'[p].isExplicit = Explicit(a)
         /\ a \in Tokens => producers'[p].token = a
    BY <1>4, <2>4, <2>7
  <2>13. Len(producers) <= Len(producers') /\ p \in DOMAIN producers'
    BY <2>1, <2>7
  <2> HIDE DEF p
  <2> QED
    BY <1>2, <1>4, <2>1, <2>3, <2>5, <2>6, <2>7, <2>8, <2>9, <2>10, <2>11, <2>12, <2>13, ObtainStep
<1> QED
  BY <1>3, <1>4

LEMMA AddProducerStep ==
  ASSUME ProducersAssumption, HashInv, NEW a \in Agents, AddProducer(a)
  PROVE  HashInv'
<1> DEFINE p == Len(producers) + 1
           e == [isExplicit |-> Explicit(a), inactive |-> FALSE, token |-> TokenOf(a, NoToken)]
<1>1. /\ TypeInv /\ loc[a] \in Locals /\ LocalsInRange(loc[a])
      /\ implicitProducerHashResizeInProgress \in BOOLEAN
  BY DEF HashInv, TypeInv
<1>2. /\ loc[a].at = "traverse" /\ HashUnchanged /\ alive' = alive
      /\ producers' = Append(producers, e) /\ Obtained(a, Len(producers'), FALSE)
  BY DEF AddProducer
<1>3. Len(producers) \in Nat /\ DOMAIN producers = 1 .. Len(producers)
      /\ producers \in Seq(ProducerRecords) /\ p \in Nat \ {0}
  BY <1>1 DEF TypeInv
<1>4. /\ e \in ProducerRecords /\ e.inactive = FALSE
      /\ e.isExplicit = Explicit(a) /\ (a \in Tokens => e.token = a)
  BY DEF TokenOf, Explicit, ProducerRecords
<1> HIDE DEF e
<1>5. /\ producers' \in Seq(ProducerRecords) /\ Len(producers') = p
      /\ DOMAIN producers' = DOMAIN producers \cup {p} /\ p \notin DOMAIN producers
      /\ producers'[p] = e /\ \A q \in DOMAIN producers : producers'[q] = producers[q]
  BY <1>2, <1>3, <1>4
<1>6. Len(producers) <= Len(producers') /\ p \in DOMAIN producers'
  BY <1>3, <1>5
<1>7. /\ producers'[p].inactive = FALSE /\ producers'[p].isExplicit = Explicit(a)
      /\ a \in Tokens => producers'[p].token = a
  BY <1>4, <1>5
<1>8. Cardinality(ImplicitProducers) \in Nat /\ IsFiniteSet(ImplicitProducers)
      /\ Cardinality(Counted) \in Nat
      /\ implicitProducerHashCount = Cardinality(ImplicitProducers) + Cardinality(Counted)
  BY <1>1, CountedType, CountedSays DEF HashInv
<1>9. CASE a \in Tokens
  <2> DEFINE l == [loc[a] EXCEPT !.ptr = Null, !.producer = p, !.at = "use"]
  <2>1. loc' = [loc EXCEPT ![a] = l]
    BY <1>2, <1>5, <1>9 DEF Obtained, Explicit
  <2>2. /\ l.at = "use" /\ l.producer = p /\ l.ptr = Null
        /\ l.id = loc[a].id /\ l.newCount = loc[a].newCount /\ l.listener = loc[a].listener
        /\ l.main = loc[a].main /\ l.table = loc[a].table
    BY <1>1 DEF Locals
  <2>3. l \in Locals
    BY <1>1, <1>3 DEF Locals, Places, Null
  <2> HIDE DEF l, p
  <2>4. CountsProducers'
    <3>1. ImplicitProducers' = ImplicitProducers
      BY <1>5, <1>7, <1>9 DEF ImplicitProducers, Explicit
    <3>2. Share(a, l) = 0 /\ Share(a, loc[a]) = 0
      BY <1>9 DEF Share, ProducersAssumption
    <3>3. implicitProducerHashCount' = implicitProducerHashCount + Share(a, l) - Share(a, loc[a])
      BY <1>1, <1>2, <3>2 DEF HashUnchanged, TypeInv
    <3> QED
      BY <2>1, <2>3, <3>1, <3>3, CountsStep
  <2>5. l.table <= Len(tables) /\ a \notin Threads
    BY <1>1, <1>9, <2>2 DEF LocalsInRange, ProducersAssumption
  <2> QED
    BY <1>2, <1>3, <1>5, <1>6, <1>7, <1>9, <2>1, <2>2, <2>3, <2>4, <2>5, ObtainStep
<1>10. CASE a \in Threads
  <2> DEFINE l == From([loc[a] EXCEPT !.ptr = Null, !.producer = p, !.at = "insert"], loc[a].main)
  <2>1. a \notin Tokens /\ ~Explicit(a)
    BY <1>10 DEF ProducersAssumption, Explicit
  <2>2. loc' = [loc EXCEPT ![a] = l]
    <3>1. p # Null
      BY <1>3 DEF Null
    <3>2. [[loc[a] EXCEPT !.ptr = Null, !.producer = p] EXCEPT !.at = "insert"] =
          [loc[a] EXCEPT !.ptr = Null, !.producer = p, !.at = "insert"]
      BY <1>1 DEF Locals
    <3>3. [loc[a] EXCEPT !.ptr = Null, !.producer = p].main = loc[a].main
      BY <1>1 DEF Locals
    <3> HIDE DEF p
    <3> QED
      BY <1>2, <1>5, <2>1, <3>1, <3>2, <3>3 DEF Obtained
  <2>3. /\ loc[a].id \in Ids /\ loc[a].main # 0 /\ alive
    BY <1>2, <1>10, MissingFacts DEF MissingPlaces, CountedPlaces
  <2>4. HashOf[loc[a].id] \in Nat
    BY <2>3 DEF ProducersAssumption
  <2>5. /\ l.at = "insert" /\ l.producer = p /\ l.ptr = Null
        /\ l.id = loc[a].id /\ l.newCount = loc[a].newCount /\ l.listener = loc[a].listener
        /\ l.main = loc[a].main /\ l.table = loc[a].main /\ l.index = HashOf[loc[a].id]
    BY <1>1 DEF Locals, From
  <2>6. l \in Locals
    BY <1>1, <1>3, <2>4 DEF Locals, Places, Null, From
  <2> HIDE DEF l
  <2>7. /\ loc[a].newCount # 0 /\ l.producer # Null
        /\ loc[a].newCount < ThreeQuarters(Capacity(loc[a].main))
    BY <1>2, <1>3, <1>10, <2>5, ThreadFacts
       DEF ThreadInv, ThreadPlace, MissingPlaces, CountedPlaces, Null
  <2>8. tables' = tables /\ loc[a].at \in MissingPlaces
    BY <1>2 DEF HashUnchanged, MissingPlaces, CountedPlaces
  <2>9. ThreadInv(a)'
    BY <1>2, <1>10, <2>2, <2>5, <2>6, <2>7, <2>8, InsertThread
  <2> HIDE DEF p
  <2>10. CountsProducers'
    <3>1. ImplicitProducers' = ImplicitProducers \cup {p} /\ p \notin ImplicitProducers
      BY <1>5, <1>7, <2>1 DEF ImplicitProducers
    <3>2. Cardinality(ImplicitProducers') = Cardinality(ImplicitProducers) + 1
      BY <1>8, <3>1, FS_AddElement
    <3>3. a \in Counted /\ Counted' = Counted \ {a}
      BY <1>1, <1>2, <1>10, <2>2, <2>5, <2>6, CountedStep DEF Counts, CountedPlaces
    <3>4. Counted \in SUBSET Threads /\ IsFiniteSet(Threads)
      BY DEF Counted, ProducersAssumption
    <3>5. Cardinality(Counted') = Cardinality(Counted) - 1
      BY <3>3, <3>4, ThreadLeaves
    <3>6. implicitProducerHashCount' = Cardinality(ImplicitProducers') + Cardinality(Counted')
      BY <1>2, <1>8, <3>2, <3>5 DEF HashUnchanged
    <3> QED
      BY <3>6, CountedSays
  <2>11. l.table <= Len(tables)
    BY <1>1, <2>5 DEF LocalsInRange
  <2> QED
    BY <1>2, <1>3, <1>5, <1>6, <1>7, <2>1, <2>2, <2>5, <2>6, <2>9, <2>10, <2>11, ObtainStep
<1> QED
  BY <1>9, <1>10 DEF Agents
\* A producer that its thread or token leaves is inactive.
LEMMA RetireStep ==
  ASSUME ProducersAssumption, HashInv, NEW a \in Agents, Retire(a)
  PROVE  HashInv'
<1> DEFINE p == IF Explicit(a) THEN loc[a].producer ELSE loc[a].listener
           e == [producers[p] EXCEPT !.inactive = TRUE]
<1>1. /\ TypeInv /\ loc[a] \in Locals /\ LocalsInRange(loc[a])
      /\ implicitProducerHashResizeInProgress \in BOOLEAN
  BY DEF HashInv, TypeInv
<1>2. /\ loc[a].at = "retire" /\ HashUnchanged /\ alive' = alive
      /\ loc' = [loc EXCEPT ![a] = Out] /\ producers' = [producers EXCEPT ![p] = e]
  BY DEF Retire
<1>3. /\ tables' = tables /\ implicitProducerHashCount' = implicitProducerHashCount
      /\ implicitProducerHashResizeInProgress' = implicitProducerHashResizeInProgress
  BY <1>2 DEF HashUnchanged
<1>4. /\ Out.id = Null /\ Out.listener = Null /\ Out.producer = Null /\ Out.at = "out"
      /\ Out.main = 0 /\ Out.table = 0 /\ Out.ptr = Null /\ Out.newCount = 0
  BY DEF Out
<1>5. Out \in Locals
  BY DEF Out, Locals, Places, Null
<1>6. /\ loc' \in [Agents -> Locals] /\ loc'[a] = Out
      /\ \A b \in Agents : b # a => loc'[b] = loc[b]
  BY <1>1, <1>2, <1>5, LocalsStep
<1>7. /\ alive /\ Has(a) = p /\ p # Null
      /\ a \in Threads => \A h \in DOMAIN tables : ~HasKey(h, loc[a].id)
  <2>1. CASE a \in Tokens
    <3>1. TokenInv(a) /\ a \notin Threads
      BY <2>1, TokenFacts
    <3> QED
      BY <1>2, <2>1, <3>1 DEF TokenInv, Has, Explicit
  <2>2. CASE a \in Threads
    <3>1. ThreadInv(a) /\ a \notin Tokens
      BY <2>2, ThreadFacts
    <3>2. alive /\ loc[a].producer = Null /\ loc[a].listener # Null
      BY <1>2, <3>1 DEF ThreadInv, ThreadPlace, MissingPlaces, CountedPlaces
    <3>3. \A h \in DOMAIN tables : ~HasKey(h, loc[a].id)
      BY <1>2, <3>1 DEF ThreadInv, ThreadSearch
    <3> QED
      BY <3>1, <3>2, <3>3 DEF Has, Explicit
  <2> QED
    BY <2>1, <2>2 DEF Agents
<1>8. /\ Len(producers) \in Nat /\ DOMAIN producers = 1 .. Len(producers)
      /\ Len(tables) \in Nat /\ p \in DOMAIN producers /\ producers[p] \in ProducerRecords
  <2>1. /\ Len(producers) \in Nat /\ DOMAIN producers = 1 .. Len(producers)
        /\ Len(tables) \in Nat
    BY <1>1 DEF TypeInv
  <2>2. p \in Nat /\ p <= Len(producers)
    BY <1>1 DEF Locals, LocalsInRange
  <2>3. p \in DOMAIN producers
    BY <1>7, <2>1, <2>2 DEF Null
  <2> QED
    BY <1>1, <2>1, <2>3 DEF TypeInv
<1> HIDE DEF p
<1>9. /\ e \in ProducerRecords /\ e.isExplicit = producers[p].isExplicit
      /\ e.token = producers[p].token
  BY <1>8 DEF ProducerRecords
<1> HIDE DEF e
<1>10. /\ producers' \in Seq(ProducerRecords) /\ Len(producers') = Len(producers)
       /\ DOMAIN producers' = DOMAIN producers /\ producers'[p] = e
       /\ \A q \in DOMAIN producers : q # p => producers'[q] = producers[q]
  BY <1>1, <1>2, <1>8, <1>9 DEF TypeInv
<1>11. /\ \A b \in Agents : b # a => Has(b)' = Has(b) /\ Has(b) # p
       /\ Has(a)' = Null
       /\ \A b \in Agents : Has(b) \in Nat
  <2>1. Has(a)' = Null
    BY <1>4, <1>6 DEF Has
  <2>2. \A b \in Agents : b # a => Has(b) # p
    BY <1>7 DEF HashInv, OwnersInv
  <2> QED
    BY <1>1, <1>6, <2>1, <2>2, HasStep, HasType
<1>12. TypeInv'
  <2>1. ASSUME NEW b \in Agents
        PROVE  LocalsInRange(loc[b])'
    <3>1. CASE b = a
      BY <1>3, <1>4, <1>6, <1>8, <1>10, <3>1 DEF LocalsInRange, Null
    <3>2. CASE b # a
      BY <1>1, <1>3, <1>6, <1>10, <3>2 DEF LocalsInRange, TypeInv
    <3> QED
      BY <3>1, <3>2
  <2> QED
    BY <1>1, <1>2, <1>3, <1>6, <1>10, <2>1 DEF TypeInv
<1>13. AgentsInv'
  <2>1. ASSUME NEW t \in Threads
        PROVE  ThreadInv(t)'
    <3>1. CASE t = a
      BY <1>4, <1>6, <3>1 DEF ThreadInv, ThreadPlace, ThreadListener, ThreadSearch,
         MissingPlaces, CountedPlaces
    <3>2. CASE t # a
      <4>1. loc[t] \in Locals /\ ThreadInv(t) /\ t \in Agents
        BY ThreadFacts
      <4>2. loc[t].id \in Ids \cup {Null}
        BY <4>1 DEF Locals
      <4>3. loc[t].id # invalid_thread_id2
        BY <4>2 DEF ProducersAssumption, invalid_thread_id2, Null
      <4>4. loc'[t] = loc[t] /\ TablesStep(invalid_thread_id2)
        BY <1>1, <1>3, <1>6, <3>2, <4>1, SameTables
      <4> QED
        BY <1>1, <1>2, <4>1, <4>3, <4>4, ThreadRests DEF invalid_thread_id, invalid_thread_id2
    <3> QED
      BY <3>1, <3>2
  <2>2. ASSUME NEW k \in Tokens
        PROVE  TokenInv(k)'
    <3>1. TokenInv(k) /\ k \in Agents
      BY TokenFacts
    <3> QED
      BY <1>2, <1>4, <1>6, <3>1 DEF TokenInv
  <2> QED
    BY <2>1, <2>2 DEF AgentsInv
<1>14. IdsDiffer'
  BY <1>4, <1>6 DEF HashInv, IdsDiffer, Agents
<1>15. OwnersInv'
  <2>1. \A b, c \in Agents : b # c /\ Has(b)' # Null => Has(b)' # Has(c)'
    BY <1>7, <1>11 DEF HashInv, OwnersInv
  <2>2. ASSUME NEW b \in Agents, Has(b)' # Null
        PROVE  ~producers'[Has(b)'].inactive /\ producers'[Has(b)'].isExplicit = Explicit(b)
    <3>1. Has(b)' = Has(b) /\ Has(b) # p /\ Has(b) # Null
      BY <1>11, <2>2
    <3>2. ~producers[Has(b)].inactive /\ producers[Has(b)].isExplicit = Explicit(b)
      BY <1>7, <3>1 DEF HashInv, OwnersInv
    <3>3. Has(b) \in DOMAIN producers
      BY <1>1, <3>1, HasType
    <3> QED
      BY <1>10, <3>1, <3>2, <3>3
  <2> QED
    BY <2>1, <2>2 DEF OwnersInv, Explicit
<1>16. EntriesInv'
  <2>1. \A x, q : Entered(x, q)' <=> Entered(x, q)
    BY <1>3 DEF Entered
  <2>2. ASSUME NEW x \in Ids, NEW q \in Nat, Entered(x, q)
        PROVE  EntryInv(x, q)'
    <3>1. EntryInv(x, q)
      BY <1>7, <2>2 DEF HashInv, EntriesInv
    <3>2. q # p
      <4>1. q = p => a \in Threads /\ loc[a].id = x
        BY <1>7, <3>1 DEF EntryInv
      <4> QED
        BY <1>7, <2>2, <4>1, EnteredHasKey
    <3>3. x # Null /\ q # Null
      BY <1>8, <3>1 DEF ProducersAssumption, Null, EntryInv
    <3>4. \A b \in Agents : Has(b)' = q => b \in Threads /\ loc'[b].id = x
      BY <1>6, <1>11, <3>1, <3>3 DEF EntryInv
    <3>5. \A t \in Threads : loc'[t].id = x => Has(t)' \in {Null, q}
      BY <1>6, <1>11, <3>1 DEF EntryInv, Agents
    <3>6. q \in DOMAIN producers' /\ ~producers'[q].isExplicit /\ ~producers'[q].inactive
      BY <1>10, <3>1, <3>2 DEF EntryInv
    <3>7. \A y \in Ids, r \in Nat : Entered(y, r)' => (x = y <=> q = r)
      BY <2>1, <3>1 DEF EntryInv
    <3> QED
      BY <3>4, <3>5, <3>6, <3>7 DEF EntryInv
  <2> QED
    BY <2>1, <2>2 DEF EntriesInv
<1>17. TablesInv'
  BY <1>2, <1>3 DEF HashInv, TablesInv, TableInv, Offset, Capacity
<1>18. RoomInv'
  <2>1. ~Counts(Out) /\ Out.at # "insert"
    BY <1>4 DEF Counts, CountedPlaces
  <2>2. \A n \in Nat : Reserved(n)' \subseteq Reserved(n)
    BY <1>1, <1>2, <1>3, <1>5, <2>1, ReservedStep
  <2> QED
    BY <1>2, <2>2, RoomStays
<1>19. CountsProducers'
  <2>1. Share(a, Out) = 0 /\ Share(a, loc[a]) = 0
    BY <1>2, <1>4 DEF Share, Counts, CountedPlaces
  <2>2. implicitProducerHashCount' = implicitProducerHashCount + Share(a, Out) - Share(a, loc[a])
    BY <1>1, <1>3, <2>1 DEF TypeInv
  <2>3. ImplicitProducers' = ImplicitProducers
    BY <1>8, <1>9, <1>10 DEF ImplicitProducers
  <2> QED
    BY <1>2, <1>5, <2>2, <2>3, CountsStep
<1>20. TokensAreValid'
  <2>1. ASSUME NEW k \in Tokens, loc'[k].at = "use", loc'[k].producer # Null
        PROVE  alive /\ producers'[loc'[k].producer].token = k
    <3>1. k # a /\ k \in Agents /\ loc'[k] = loc[k] /\ LocalsInRange(loc[k]) /\ loc[k] \in Locals
      BY <1>4, <1>6, <2>1, TokenFacts
    <3>2. producers[loc[k].producer].token = k
      BY <2>1, <3>1 DEF HashInv, TokensAreValid
    <3>3. loc[k].producer \in Nat /\ loc[k].producer <= Len(producers) /\ loc[k].producer # Null
      BY <2>1, <3>1 DEF LocalsInRange, Locals
    <3>4. loc[k].producer \in DOMAIN producers
      BY <1>8, <3>3 DEF Null
    <3> QED
      BY <1>7, <1>9, <1>10, <3>1, <3>2, <3>4
  <2> QED
    BY <1>2, <2>1 DEF TokensAreValid
<1> QED
  BY <1>12, <1>13, <1>14, <1>15, <1>16, <1>17, <1>18, <1>19, <1>20 DEF HashInv
\* Tokens exchange the producers they hold.
LEMMA TokensExchange ==
  ASSUME ProducersAssumption, HashInv, HashUnchanged, alive' = alive,
         loc' \in [Agents -> Locals], \A t \in Threads : loc'[t] = loc[t],
         \A k \in Tokens : LocalsInRange(loc'[k]) /\ TokenInv(k)',
         producers' \in Seq(ProducerRecords), Len(producers') = Len(producers),
         \A q \in DOMAIN producers : /\ producers'[q].isExplicit = producers[q].isExplicit
                                     /\ producers'[q].inactive = producers[q].inactive,
         \A k \in Tokens : loc'[k].producer # Null =>
           \E j \in Tokens : loc[j].producer = loc'[k].producer,
         \A j, k \in Tokens : j # k /\ loc'[j].producer # Null =>
           loc'[j].producer # loc'[k].producer,
         TokensAreValid'
  PROVE  HashInv'
<1>1. /\ TypeInv /\ implicitProducerHashResizeInProgress \in BOOLEAN
      /\ Threads \subseteq Agents /\ Tokens \subseteq Agents
  BY DEF HashInv, TypeInv, Agents
<1>2. /\ tables' = tables /\ implicitProducerHashCount' = implicitProducerHashCount
      /\ implicitProducerHashResizeInProgress' = implicitProducerHashResizeInProgress
  BY DEF HashUnchanged
<1>3. /\ Len(producers) \in Nat /\ DOMAIN producers = 1 .. Len(producers)
      /\ DOMAIN producers' = DOMAIN producers
  BY <1>1 DEF TypeInv
<1>4. /\ \A t \in Threads : Has(t)' = Has(t)
      /\ \A k \in Tokens : Has(k) = loc[k].producer /\ Has(k)' = loc'[k].producer
      /\ \A b \in Agents : Has(b) \in Nat
  BY <1>1, HasStep, HasType DEF Has, Explicit
<1>5. TypeInv'
  <2>1. ASSUME NEW b \in Agents
        PROVE  LocalsInRange(loc[b])'
    <3>1. CASE b \in Tokens
      BY <1>2, <3>1 DEF LocalsInRange
    <3>2. CASE b \in Threads
      BY <1>1, <1>2, <3>2 DEF LocalsInRange, TypeInv
    <3> QED
      BY <3>1, <3>2 DEF Agents
  <2> QED
    BY <1>1, <1>2, <2>1 DEF TypeInv
<1>6. AgentsInv'
  <2>1. ASSUME NEW t \in Threads
        PROVE  ThreadInv(t)'
    <3>1. loc[t] \in Locals /\ ThreadInv(t)
      BY ThreadFacts
    <3>2. loc[t].id \in Ids \cup {Null}
      BY <3>1 DEF Locals
    <3>3. loc[t].id # invalid_thread_id2
      BY <3>2 DEF ProducersAssumption, invalid_thread_id2, Null
    <3>4. loc'[t] = loc[t] /\ TablesStep(invalid_thread_id2)
      BY <1>1, <1>2, SameTables
    <3> QED
      BY <1>1, <3>1, <3>3, <3>4, ThreadRests DEF invalid_thread_id, invalid_thread_id2
  <2> QED
    BY <2>1 DEF AgentsInv
<1>7. IdsDiffer'
  BY DEF HashInv, IdsDiffer
<1>8. OwnersInv'
  <2>1. SUFFICES ASSUME alive
                 PROVE  /\ \A b, c \in Agents : b # c /\ Has(b)' # Null => Has(b)' # Has(c)'
                        /\ \A b \in Agents : Has(b)' # Null =>
                             /\ ~producers'[Has(b)'].inactive
                             /\ producers'[Has(b)'].isExplicit = Explicit(b)
    BY DEF OwnersInv, Explicit
  <2>2. \A b \in Agents : Has(b)' # Null =>
          \E c \in Agents : Has(c) = Has(b)' /\ Explicit(c) = Explicit(b) /\ (b \in Threads => c = b)
    <3>1. ASSUME NEW t \in Threads
          PROVE  Has(t) = Has(t)'
      BY <1>4
    <3>2. ASSUME NEW k \in Tokens, Has(k)' # Null
          PROVE  \E c \in Tokens : Has(c) = Has(k)' /\ Explicit(c) = Explicit(k)
      BY <1>4, <3>2 DEF Explicit
    <3> QED
      BY <1>1, <3>1, <3>2 DEF Agents, ProducersAssumption
  <2>3. ASSUME NEW b \in Agents, NEW c \in Agents, b # c, Has(b)' # Null, Has(b)' = Has(c)'
        PROVE  FALSE
    <3>1. CASE b \in Tokens /\ c \in Tokens
      BY <1>4, <2>3, <3>1
    <3>2. CASE ~(b \in Tokens /\ c \in Tokens)
      <4>1. PICK f \in Agents : Has(f) = Has(b)' /\ Explicit(f) = Explicit(b)
                                /\ (b \in Threads => f = b)
        BY <2>2, <2>3
      <4>2. PICK g \in Agents : Has(g) = Has(c)' /\ Explicit(g) = Explicit(c)
                                /\ (c \in Threads => g = c)
        BY <2>2, <2>3
      <4>3. f # g
        BY <2>3, <3>2, <4>1, <4>2 DEF Explicit, Agents
      <4> QED
        BY <2>1, <2>3, <4>1, <4>2, <4>3 DEF HashInv, OwnersInv
    <3> QED
      BY <3>1, <3>2
  <2>4. ASSUME NEW b \in Agents, Has(b)' # Null
        PROVE  ~producers'[Has(b)'].inactive /\ producers'[Has(b)'].isExplicit = Explicit(b)
    <3>1. PICK c \in Agents : Has(c) = Has(b)' /\ Explicit(c) = Explicit(b)
      BY <2>2, <2>4
    <3>2. ~producers[Has(c)].inactive /\ producers[Has(c)].isExplicit = Explicit(c)
      BY <2>1, <2>4, <3>1 DEF HashInv, OwnersInv
    <3>3. Has(c) \in DOMAIN producers
      <4>1. loc[c] \in Locals /\ LocalsInRange(loc[c])
        BY <1>1 DEF TypeInv
      <4>2. Has(c) \in Nat /\ Has(c) <= Len(producers)
        BY <4>1 DEF Has, LocalsInRange, Locals
      <4> QED
        BY <1>3, <2>4, <3>1, <4>2 DEF Null
    <3> QED
      BY <3>1, <3>2, <3>3
  <2> QED
    BY <2>3, <2>4
<1>9. EntriesInv'
  <2>1. \A x, q : Entered(x, q)' <=> Entered(x, q)
    BY <1>2 DEF Entered
  <2>2. ASSUME alive, NEW x \in Ids, NEW q \in Nat, Entered(x, q)
        PROVE  EntryInv(x, q)'
    <3>1. EntryInv(x, q)
      BY <2>2 DEF HashInv, EntriesInv
    <3>2. q # Null
      BY <1>3, <3>1 DEF EntryInv, Null
    <3>3. \A k \in Tokens : Has(k)' # q
      <4>1. \A k \in Tokens : Has(k) # q
        BY <1>1, <3>1 DEF EntryInv, ProducersAssumption
      <4> QED
        BY <1>4, <3>2, <4>1
    <3>4. \A b \in Agents : Has(b)' = q => b \in Threads /\ loc'[b].id = x
      BY <1>1, <1>4, <3>1, <3>3 DEF EntryInv, Agents
    <3>5. \A t \in Threads : loc'[t].id = x => Has(t)' \in {Null, q}
      BY <1>4, <3>1 DEF EntryInv
    <3>6. q \in DOMAIN producers' /\ ~producers'[q].isExplicit /\ ~producers'[q].inactive
      BY <1>3, <3>1 DEF EntryInv
    <3>7. \A y \in Ids, r \in Nat : Entered(y, r)' => (x = y <=> q = r)
      BY <2>1, <3>1 DEF EntryInv
    <3> QED
      BY <3>4, <3>5, <3>6, <3>7 DEF EntryInv
  <2> QED
    BY <2>1, <2>2 DEF EntriesInv
<1>10. TablesInv'
  BY <1>2 DEF HashInv, TablesInv, TableInv, Offset, Capacity
<1>11. Counted' = Counted /\ ImplicitProducers' = ImplicitProducers
  BY <1>3 DEF Counted, ImplicitProducers
<1>12. RoomInv'
  <2>1. ASSUME NEW n \in Nat
        PROVE  Reserved(n)' \subseteq Reserved(n)
    BY <1>2, <1>11 DEF Reserved, HasKey, Capacity, Claims
  <2> QED
    BY <2>1, RoomStays
<1>13. CountsProducers'
  BY <1>2, <1>11, CountedSays DEF HashInv
<1> QED
  BY <1>5, <1>6, <1>7, <1>8, <1>9, <1>10, <1>12, <1>13 DEF HashInv

LEMMA DestroyTokenStep ==
  ASSUME ProducersAssumption, HashInv, NEW k \in Tokens, DestroyToken(k)
  PROVE  HashInv'
<1> DEFINE p == loc[k].producer
           e == [producers[p] EXCEPT !.token = NoToken]
           l == [loc[k] EXCEPT !.at = "retire"]
<1>1. CASE p = Null
  BY <1>1, DestroyEmptyToken
<1>2. CASE p # Null
  <2>1. /\ TypeInv /\ k \in Agents /\ loc[k] \in Locals /\ LocalsInRange(loc[k])
        /\ loc[k].at = "use" /\ HashUnchanged /\ alive' = alive /\ k \notin Threads
    BY TokenFacts DEF DestroyToken
  <2>2. loc' = [loc EXCEPT ![k] = l] /\ producers' = [producers EXCEPT ![p] = e]
    BY <1>2, <2>1 DEF DestroyToken, GoTo, TypeInv
  <2>3. alive
    BY <1>2, <2>1 DEF HashInv, TokensAreValid
  <2>4. l \in Locals /\ l.at = "retire" /\ l.producer = p /\ LocalsInRange(l)
    <3>1. l \in Locals /\ l.at = "retire" /\ l.producer = p
      BY <2>1 DEF Locals, Places
    <3>2. LocalsInRange(l)
      BY <2>1 DEF Locals, LocalsInRange
    <3> QED
      BY <3>1, <3>2
  <2> HIDE DEF l
  <2>5. /\ loc' \in [Agents -> Locals] /\ loc'[k] = l
        /\ \A b \in Agents : b # k => loc'[b] = loc[b]
    BY <2>1, <2>2, <2>4, LocalsStep
  <2>6. /\ Len(producers) \in Nat /\ DOMAIN producers = 1 .. Len(producers)
        /\ p \in DOMAIN producers /\ producers[p] \in ProducerRecords
    BY <1>2, <2>1 DEF TypeInv, Locals, LocalsInRange, Null
  <2>7. /\ e \in ProducerRecords /\ e.isExplicit = producers[p].isExplicit
        /\ e.inactive = producers[p].inactive
    BY <2>6 DEF ProducerRecords
  <2> HIDE DEF e
  <2>8. /\ producers' \in Seq(ProducerRecords) /\ Len(producers') = Len(producers)
        /\ producers'[p] = e /\ \A q \in DOMAIN producers : q # p => producers'[q] = producers[q]
    BY <2>1, <2>2, <2>6, <2>7 DEF TypeInv
  <2>9. \A j \in Tokens : loc'[j].producer = loc[j].producer /\ j \in Agents
    BY <2>4, <2>5 DEF Agents
  <2>10. \A i, j \in Tokens : i # j /\ loc[i].producer # Null => loc[i].producer # loc[j].producer
    <3>1. \A j \in Tokens : Has(j) = loc[j].producer /\ j \in Agents
      BY DEF Has, Explicit, Agents
    <3> QED
      BY <2>3, <3>1 DEF HashInv, OwnersInv
  <2>11. ASSUME NEW j \in Tokens
         PROVE  LocalsInRange(loc'[j]) /\ TokenInv(j)'
    <3>1. CASE j = k
      BY <1>2, <2>1, <2>3, <2>4, <2>5, <3>1 DEF TokenInv
    <3>2. CASE j # k
      BY <2>1, <2>5, <2>9, <3>2, TokenFacts DEF TokenInv
    <3> QED
      BY <3>1, <3>2
  <2>12. TokensAreValid'
    <3>1. ASSUME NEW j \in Tokens, loc'[j].at = "use", loc'[j].producer # Null
          PROVE  producers'[loc'[j].producer].token = j
      <4>1. j # k /\ loc'[j] = loc[j]
        BY <2>4, <2>5, <2>9, <3>1
      <4>2. producers[loc[j].producer].token = j /\ loc[j].producer # p
        BY <1>2, <2>10, <3>1, <4>1 DEF HashInv, TokensAreValid
      <4>3. loc[j] \in Locals /\ LocalsInRange(loc[j])
        BY TokenFacts
      <4>4. loc[j].producer \in Nat /\ loc[j].producer <= Len(producers)
        BY <4>3 DEF Locals, LocalsInRange
      <4>5. loc[j].producer \in DOMAIN producers
        BY <2>6, <3>1, <4>1, <4>4 DEF Null
      <4> QED
        BY <2>8, <4>1, <4>2, <4>5
    <3> QED
      BY <2>1, <2>3, <3>1 DEF TokensAreValid
  <2>13. \A t \in Threads : loc'[t] = loc[t]
    BY <2>1, <2>5 DEF Agents
  <2>14. \A q \in DOMAIN producers : /\ producers'[q].isExplicit = producers[q].isExplicit
                                     /\ producers'[q].inactive = producers[q].inactive
    BY <2>7, <2>8
  <2> QED
    BY <2>1, <2>5, <2>8, <2>9, <2>10, <2>11, <2>12, <2>13, <2>14, TokensExchange
<1> QED
  BY <1>1, <1>2
\* What two tokens hold, and whose the other producers are.
LEMMA TokensHold ==
  ASSUME ProducersAssumption, HashInv
  PROVE  /\ \A k \in Tokens : /\ loc[k].producer \in Nat /\ loc[k].producer <= Len(producers)
                              /\ loc[k].producer # Null => loc[k].producer \in DOMAIN producers
         /\ alive => \A j, k \in Tokens : j # k /\ loc[j].producer # Null =>
              loc[j].producer # loc[k].producer
         /\ \A k \in Tokens : loc[k].at = "use" /\ loc[k].producer # Null =>
              alive /\ producers[loc[k].producer].token = k
         /\ Len(producers) \in Nat /\ DOMAIN producers = 1 .. Len(producers)
<1>1. TypeInv
  BY DEF HashInv
<1>2. Len(producers) \in Nat /\ DOMAIN producers = 1 .. Len(producers)
  BY <1>1 DEF TypeInv
<1>3. ASSUME NEW k \in Tokens
      PROVE  /\ loc[k].producer \in Nat /\ loc[k].producer <= Len(producers)
             /\ loc[k].producer # Null => loc[k].producer \in DOMAIN producers
  <2>1. loc[k] \in Locals /\ LocalsInRange(loc[k])
    BY TokenFacts
  <2>2. loc[k].producer \in Nat /\ loc[k].producer <= Len(producers)
    BY <2>1 DEF Locals, LocalsInRange
  <2> QED
    BY <1>2, <2>2 DEF Null
<1>4. alive => \A j, k \in Tokens : j # k /\ loc[j].producer # Null =>
        loc[j].producer # loc[k].producer
  <2>1. \A k \in Tokens : Has(k) = loc[k].producer /\ k \in Agents
    BY DEF Has, Explicit, Agents
  <2> QED
    BY <2>1 DEF HashInv, OwnersInv
<1>5. \A k \in Tokens : loc[k].at = "use" /\ loc[k].producer # Null =>
        alive /\ producers[loc[k].producer].token = k
  BY DEF HashInv, TokensAreValid
<1> QED
  BY <1>2, <1>3, <1>4, <1>5

\* The list of producers with other tokens.
LEMMA OtherTokens ==
  ASSUME TypeInv, NEW T \in [DOMAIN producers -> Tokens \cup {NoToken}],
         producers' = [q \in DOMAIN producers |-> [producers[q] EXCEPT !.token = T[q]]]
  PROVE  /\ producers' \in Seq(ProducerRecords) /\ Len(producers') = Len(producers)
         /\ \A q \in DOMAIN producers : /\ producers'[q].isExplicit = producers[q].isExplicit
                                        /\ producers'[q].inactive = producers[q].inactive
                                        /\ producers'[q].token = T[q]
<1>1. producers \in Seq(ProducerRecords) /\ Len(producers) \in Nat
      /\ DOMAIN producers = 1 .. Len(producers)
  BY DEF TypeInv
<1>2. ASSUME NEW q \in DOMAIN producers
      PROVE  /\ [producers[q] EXCEPT !.token = T[q]] \in ProducerRecords
             /\ [producers[q] EXCEPT !.token = T[q]].isExplicit = producers[q].isExplicit
             /\ [producers[q] EXCEPT !.token = T[q]].inactive = producers[q].inactive
             /\ [producers[q] EXCEPT !.token = T[q]].token = T[q]
  <2>1. producers[q] \in ProducerRecords
    BY <1>1
  <2> QED
    BY <2>1 DEF ProducerRecords
<1>3. producers' \in [1 .. Len(producers) -> ProducerRecords]
  BY <1>1, <1>2
<1>4. producers' \in Seq(ProducerRecords) /\ Len(producers') = Len(producers)
  BY <1>1, <1>3
<1> QED
  BY <1>2, <1>4

LEMMA MoveTokenStep ==
  ASSUME ProducersAssumption, HashInv, NEW k \in Tokens, NEW m \in Tokens, MoveToken(k, m)
  PROVE  HashInv'
<1> DEFINE p == loc[k].producer
           s == [loc[k] EXCEPT !.producer = Null]
           l == [Out EXCEPT !.at = "use", !.producer = p]
           T == [q \in DOMAIN producers |-> IF q = p THEN m ELSE producers[q].token]
<1>1. /\ TypeInv /\ k \in Agents /\ m \in Agents /\ loc[k] \in Locals /\ LocalsInRange(loc[k])
      /\ k \notin Threads /\ m \notin Threads
  BY TokenFacts
<1>2. /\ loc[k].at = "use" /\ loc[m].at = "out" /\ k # m /\ HashUnchanged /\ alive' = alive
      /\ TokenInv(m) /\ loc[m].producer = Null
  BY TokenFacts DEF MoveToken, TokenInv
<1>3. /\ \A j \in Tokens : /\ loc[j].producer \in Nat /\ loc[j].producer <= Len(producers)
                           /\ loc[j].producer # Null => loc[j].producer \in DOMAIN producers
      /\ alive => \A i, j \in Tokens : i # j /\ loc[i].producer # Null =>
           loc[i].producer # loc[j].producer
      /\ \A j \in Tokens : loc[j].at = "use" /\ loc[j].producer # Null =>
           alive /\ producers[loc[j].producer].token = j
      /\ Len(producers) \in Nat /\ DOMAIN producers = 1 .. Len(producers)
  BY TokensHold
<1>4. s \in Locals /\ s.at = "use" /\ s.producer = Null /\ LocalsInRange(s)
  <2>1. s \in Locals /\ s.at = "use" /\ s.producer = Null
    BY <1>1, <1>2 DEF Locals, Null
  <2>2. LocalsInRange(s)
    BY <1>1, <1>3 DEF Locals, LocalsInRange, Null
  <2> QED
    BY <2>1, <2>2
<1>5. l \in Locals /\ l.at = "use" /\ l.producer = p /\ LocalsInRange(l)
  <2>1. p \in Nat /\ p <= Len(producers) /\ Len(tables) \in Nat
    BY <1>1, <1>3 DEF TypeInv
  <2> HIDE DEF p
  <2>2. l \in Locals /\ l.at = "use" /\ l.producer = p
    BY <2>1 DEF Out, Locals, Places, Null
  <2>3. LocalsInRange(l)
    BY <1>3, <2>1 DEF Out, LocalsInRange, Null
  <2> QED
    BY <2>2, <2>3
<1>6. /\ loc' = [loc EXCEPT ![k] = s, ![m] = l]
  BY <1>1, <1>2 DEF MoveToken, TypeInv
<1> HIDE DEF s, l
<1>7. /\ loc' \in [Agents -> Locals] /\ loc'[k] = s /\ loc'[m] = l
      /\ \A b \in Agents : b \notin {k, m} => loc'[b] = loc[b]
  BY <1>1, <1>2, <1>4, <1>5, <1>6 DEF TypeInv
<1>8. T \in [DOMAIN producers -> Tokens \cup {NoToken}]
  <2>1. ASSUME NEW q \in DOMAIN producers
        PROVE  producers[q].token \in Tokens \cup {NoToken}
    <3>1. producers[q] \in ProducerRecords
      BY <1>1 DEF TypeInv
    <3> QED
      BY <3>1 DEF ProducerRecords
  <2> QED
    BY <2>1
<1>9. producers' = [q \in DOMAIN producers |-> [producers[q] EXCEPT !.token = T[q]]]
  <2>1. ASSUME NEW q \in DOMAIN producers
        PROVE  (IF q = p THEN [producers[q] EXCEPT !.token = m] ELSE producers[q])
                 = [producers[q] EXCEPT !.token = T[q]]
    <3>1. producers[q] \in ProducerRecords
      BY <1>1 DEF TypeInv
    <3> QED
      BY <3>1 DEF ProducerRecords
  <2> QED
    BY <2>1 DEF MoveToken
<1> HIDE DEF T
<1>10. /\ producers' \in Seq(ProducerRecords) /\ Len(producers') = Len(producers)
       /\ \A q \in DOMAIN producers : /\ producers'[q].isExplicit = producers[q].isExplicit
                                      /\ producers'[q].inactive = producers[q].inactive
                                      /\ producers'[q].token = T[q]
  BY <1>1, <1>8, <1>9, OtherTokens
<1>11. ASSUME NEW j \in Tokens
       PROVE  /\ LocalsInRange(loc'[j]) /\ TokenInv(j)'
              /\ loc'[j].producer = IF j = k THEN Null ELSE IF j = m THEN p ELSE loc[j].producer
  <2>1. CASE j \in {k, m}
    BY <1>2, <1>4, <1>5, <1>7, <2>1 DEF TokenInv
  <2>2. CASE j \notin {k, m}
    <3>1. j \in Agents /\ LocalsInRange(loc[j]) /\ TokenInv(j) /\ loc'[j] = loc[j]
      BY <1>7, <2>2, TokenFacts
    <3> QED
      BY <1>2, <2>2, <3>1 DEF TokenInv
  <2> QED
    BY <2>1, <2>2
<1>12. \A j \in Tokens : loc'[j].producer # Null =>
         \E i \in Tokens : loc[i].producer = loc'[j].producer
  BY <1>11
<1>13. \A i, j \in Tokens : i # j /\ loc'[i].producer # Null => loc'[i].producer # loc'[j].producer
  <2>1. CASE alive
    BY <1>2, <1>3, <1>11, <2>1
  <2>2. CASE ~alive
    <3>1. \A j \in Tokens : loc[j].producer = Null
      BY <1>3, <2>2, TokenFacts DEF TokenInv
    <3> QED
      BY <1>11, <3>1
  <2> QED
    BY <2>1, <2>2 DEF HashInv, TypeInv
<1>14. TokensAreValid'
  <2>1. ASSUME NEW j \in Tokens, loc'[j].at = "use", loc'[j].producer # Null
        PROVE  alive /\ producers'[loc'[j].producer].token = j
    <3>1. CASE j = m
      <4>1. p # Null /\ p \in DOMAIN producers /\ loc'[j].producer = p /\ alive
        BY <1>2, <1>3, <1>11, <2>1, <3>1
      <4> QED
        BY <1>10, <3>1, <4>1 DEF T
    <3>2. CASE j # m
      <4>1. j # k /\ loc'[j] = loc[j] /\ loc[j].producer # Null /\ loc[j].at = "use"
        BY <1>4, <1>7, <2>1, <3>2 DEF Agents
      <4>2. alive /\ loc[j].producer # p /\ loc[j].producer \in DOMAIN producers
            /\ producers[loc[j].producer].token = j
        BY <1>3, <4>1
      <4> QED
        BY <1>10, <4>1, <4>2 DEF T
    <3> QED
      BY <3>1, <3>2
  <2> QED
    BY <1>2, <2>1 DEF TokensAreValid
<1>15. \A t \in Threads : loc'[t] = loc[t]
  BY <1>1, <1>7 DEF Agents
<1>16. \A j \in Tokens : LocalsInRange(loc'[j]) /\ TokenInv(j)'
  BY <1>11
<1> QED
  BY <1>2, <1>7, <1>10, <1>12, <1>13, <1>14, <1>15, <1>16, TokensExchange

LEMMA SwapTokensStep ==
  ASSUME ProducersAssumption, HashInv, NEW k \in Tokens, NEW m \in Tokens, SwapTokens(k, m)
  PROVE  HashInv'
<1> DEFINE p == loc[k].producer
           r == loc[m].producer
           s == [loc[k] EXCEPT !.producer = r]
           l == [loc[m] EXCEPT !.producer = p]
           T == [q \in DOMAIN producers |-> IF q = r THEN k ELSE IF q = p THEN m
                                            ELSE producers[q].token]
<1>1. /\ TypeInv /\ k \in Agents /\ m \in Agents /\ loc[k] \in Locals /\ LocalsInRange(loc[k])
      /\ loc[m] \in Locals /\ LocalsInRange(loc[m])
      /\ k \notin Threads /\ m \notin Threads
  BY TokenFacts
<1>2. /\ loc[k].at = "use" /\ loc[m].at = "use" /\ k # m /\ HashUnchanged /\ alive' = alive
  BY DEF SwapTokens
<1>3. /\ \A j \in Tokens : /\ loc[j].producer \in Nat /\ loc[j].producer <= Len(producers)
                           /\ loc[j].producer # Null => loc[j].producer \in DOMAIN producers
      /\ alive => \A i, j \in Tokens : i # j /\ loc[i].producer # Null =>
           loc[i].producer # loc[j].producer
      /\ \A j \in Tokens : loc[j].at = "use" /\ loc[j].producer # Null =>
           alive /\ producers[loc[j].producer].token = j
      /\ Len(producers) \in Nat /\ DOMAIN producers = 1 .. Len(producers)
  BY TokensHold
<1>4. p \in Nat /\ p <= Len(producers) /\ r \in Nat /\ r <= Len(producers)
  BY <1>3
<1> HIDE DEF p, r
<1>5. s \in Locals /\ s.at = "use" /\ s.producer = r /\ LocalsInRange(s)
  <2>1. s \in Locals /\ s.at = "use" /\ s.producer = r
    BY <1>1, <1>2, <1>4 DEF Locals
  <2>2. LocalsInRange(s)
    BY <1>1, <1>4 DEF Locals, LocalsInRange
  <2> QED
    BY <2>1, <2>2
<1>6. l \in Locals /\ l.at = "use" /\ l.producer = p /\ LocalsInRange(l)
  <2>1. l \in Locals /\ l.at = "use" /\ l.producer = p
    BY <1>1, <1>2, <1>4 DEF Locals
  <2>2. LocalsInRange(l)
    BY <1>1, <1>4 DEF Locals, LocalsInRange
  <2> QED
    BY <2>1, <2>2
<1>7. /\ loc' = [loc EXCEPT ![k] = s, ![m] = l]
  BY <1>1, <1>2 DEF SwapTokens, TypeInv, p, r
<1> HIDE DEF s, l
<1>8. /\ loc' \in [Agents -> Locals] /\ loc'[k] = s /\ loc'[m] = l
      /\ \A b \in Agents : b \notin {k, m} => loc'[b] = loc[b]
  BY <1>1, <1>2, <1>5, <1>6, <1>7 DEF TypeInv
<1>9. T \in [DOMAIN producers -> Tokens \cup {NoToken}]
  <2>1. ASSUME NEW q \in DOMAIN producers
        PROVE  producers[q].token \in Tokens \cup {NoToken}
    <3>1. producers[q] \in ProducerRecords
      BY <1>1 DEF TypeInv
    <3> QED
      BY <3>1 DEF ProducerRecords
  <2> QED
    BY <2>1
<1>10. producers' = [q \in DOMAIN producers |-> [producers[q] EXCEPT !.token = T[q]]]
  <2>1. ASSUME NEW q \in DOMAIN producers
        PROVE  (CASE q = r -> [producers[q] EXCEPT !.token = k]
                  [] q = p -> [producers[q] EXCEPT !.token = m]
                  [] OTHER -> producers[q])
                 = [producers[q] EXCEPT !.token = T[q]]
    <3>1. producers[q] \in ProducerRecords
      BY <1>1 DEF TypeInv
    <3>2. q = r /\ q = p => k = m
      <4>1. q # Null
        BY <1>3 DEF Null
      <4> QED
        BY <1>2, <1>3, <4>1 DEF p, r
    <3>3. CASE q = r
      <4>1. T[q] = k
        BY <3>3
      <4>2. q # p
        BY <1>2, <3>2, <3>3
      <4> QED
        BY <3>3, <4>1, <4>2
    <3>4. CASE q # r /\ q = p
      BY <3>4
    <3>5. CASE q # r /\ q # p
      BY <3>1, <3>5 DEF ProducerRecords
    <3> QED
      BY <3>3, <3>4, <3>5
  <2> QED
    BY <2>1 DEF SwapTokens, p, r
<1> HIDE DEF T
<1>11. /\ producers' \in Seq(ProducerRecords) /\ Len(producers') = Len(producers)
       /\ \A q \in DOMAIN producers : /\ producers'[q].isExplicit = producers[q].isExplicit
                                      /\ producers'[q].inactive = producers[q].inactive
                                      /\ producers'[q].token = T[q]
  BY <1>1, <1>9, <1>10, OtherTokens
<1>12. ASSUME NEW j \in Tokens
       PROVE  /\ LocalsInRange(loc'[j]) /\ TokenInv(j)'
              /\ loc'[j].producer = IF j = k THEN r ELSE IF j = m THEN p ELSE loc[j].producer
  <2>1. CASE j \in {k, m}
    BY <1>2, <1>5, <1>6, <1>8, <2>1 DEF TokenInv
  <2>2. CASE j \notin {k, m}
    <3>1. j \in Agents /\ LocalsInRange(loc[j]) /\ TokenInv(j) /\ loc'[j] = loc[j]
      BY <1>8, <2>2, TokenFacts
    <3> QED
      BY <1>2, <2>2, <3>1 DEF TokenInv
  <2> QED
    BY <2>1, <2>2
<1>13. \A j \in Tokens : loc'[j].producer # Null =>
         \E i \in Tokens : loc[i].producer = loc'[j].producer
  BY <1>12 DEF p, r
<1>14. \A i, j \in Tokens : i # j /\ loc'[i].producer # Null => loc'[i].producer # loc'[j].producer
  <2>1. CASE alive
    BY <1>2, <1>3, <1>12, <2>1 DEF p, r
  <2>2. CASE ~alive
    <3>1. \A j \in Tokens : loc[j].producer = Null
      BY <1>3, <2>2, TokenFacts DEF TokenInv
    <3> QED
      BY <1>12, <3>1 DEF p, r
  <2> QED
    BY <2>1, <2>2 DEF HashInv, TypeInv
<1>15. TokensAreValid'
  <2>1. ASSUME NEW j \in Tokens, loc'[j].at = "use", loc'[j].producer # Null
        PROVE  alive /\ producers'[loc'[j].producer].token = j
    <3>1. CASE j = k
      <4>1. r # Null /\ r \in DOMAIN producers /\ loc'[j].producer = r /\ alive
        BY <1>2, <1>3, <1>12, <2>1, <3>1 DEF r
      <4> QED
        BY <1>11, <3>1, <4>1 DEF T
    <3>2. CASE j = m
      <4>1. p # Null /\ p \in DOMAIN producers /\ loc'[j].producer = p /\ alive
        BY <1>2, <1>3, <1>12, <2>1, <3>2 DEF p
      <4>2. p # r
        BY <1>2, <1>3, <4>1 DEF p, r
      <4> QED
        BY <1>11, <3>2, <4>1, <4>2 DEF T
    <3>3. CASE j \notin {k, m}
      <4>1. loc'[j] = loc[j] /\ loc[j].producer # Null /\ loc[j].at = "use"
        BY <1>8, <2>1, <3>3 DEF Agents
      <4>2. alive /\ loc[j].producer # p /\ loc[j].producer # r
            /\ loc[j].producer \in DOMAIN producers /\ producers[loc[j].producer].token = j
        BY <1>3, <3>3, <4>1 DEF p, r
      <4> QED
        BY <1>11, <4>1, <4>2 DEF T
    <3> QED
      BY <3>1, <3>2, <3>3
  <2> QED
    BY <1>2, <2>1 DEF TokensAreValid
<1>16. \A t \in Threads : loc'[t] = loc[t]
  BY <1>1, <1>8 DEF Agents
<1>17. \A j \in Tokens : LocalsInRange(loc'[j]) /\ TokenInv(j)'
  BY <1>12
<1> QED
  BY <1>2, <1>8, <1>11, <1>13, <1>14, <1>15, <1>16, <1>17, TokensExchange
\* Nothing but the locals of those who are left is used in a queue that is destroyed.
LEMMA DestroyQueueStep ==
  ASSUME ProducersAssumption, HashInv, NEW t \in Threads, DestroyQueue(t)
  PROVE  HashInv'
<1> DEFINE Known(a) == \E p \in DOMAIN producers : producers[p].token = a
           l(a) == IF Known(a) THEN [loc[a] EXCEPT !.producer = Null]
                   ELSE IF a = t THEN [loc[a] EXCEPT !.listener = Null] ELSE loc[a]
<1>1. TypeInv /\ implicitProducerHashResizeInProgress \in BOOLEAN
  BY DEF HashInv, TypeInv
<1>2. /\ alive /\ alive' = FALSE
      /\ tables' = tables /\ producers' = producers
      /\ implicitProducerHashResizeInProgress' = implicitProducerHashResizeInProgress
      /\ implicitProducerHashCount' = implicitProducerHashCount
      /\ \A u \in Threads : loc[u].at \in {"idle", "out"}
      /\ \A k \in Tokens : loc[k].at \in {"use", "out"}
      /\ loc' = [a \in Agents |-> l(a)]
  BY DEF DestroyQueue, HashUnchanged, Agents
<1>3. ASSUME NEW a \in Agents
      PROVE  /\ loc'[a] \in Locals /\ LocalsInRange(loc'[a])
             /\ loc'[a].at = loc[a].at /\ loc'[a].id = loc[a].id
             /\ loc'[a].newCount = loc[a].newCount /\ loc'[a].main = loc[a].main
             /\ loc'[a].producer = IF Known(a) THEN Null ELSE loc[a].producer
             /\ loc'[a].listener \in {loc[a].listener, Null}
  <2>1. loc[a] \in Locals /\ LocalsInRange(loc[a]) /\ Len(producers) \in Nat
    BY <1>1 DEF TypeInv
  <2>2. loc'[a] = l(a)
    BY <1>2
  <2>3. \/ Known(a) /\ loc'[a] = [loc[a] EXCEPT !.producer = Null]
        \/ ~Known(a) /\ loc'[a] = [loc[a] EXCEPT !.listener = Null]
        \/ ~Known(a) /\ loc'[a] = loc[a]
    BY <2>2
  <2> HIDE DEF Known, l
  <2>4. /\ loc'[a] \in Locals
        /\ loc'[a].at = loc[a].at /\ loc'[a].id = loc[a].id
        /\ loc'[a].newCount = loc[a].newCount /\ loc'[a].main = loc[a].main
        /\ loc'[a].table = loc[a].table /\ loc'[a].ptr = loc[a].ptr
        /\ loc'[a].producer = IF Known(a) THEN Null ELSE loc[a].producer
        /\ loc'[a].listener \in {loc[a].listener, Null}
    <3>1. /\ [loc[a] EXCEPT !.producer = Null] \in Locals
          /\ [loc[a] EXCEPT !.listener = Null] \in Locals
      BY <2>1 DEF Locals, Null
    <3>2. loc'[a] \in Locals
      BY <2>1, <2>3, <3>1
    <3> QED
      BY <2>1, <2>3, <3>2 DEF Locals
  <2>5. LocalsInRange(loc'[a])
    BY <2>1, <2>4 DEF LocalsInRange, Null
  <2> QED
    BY <2>4, <2>5
<1> HIDE DEF l
<1>4. TypeInv'
  <2>1. loc' \in [Agents -> Locals]
    BY <1>2, <1>3
  <2>2. \A b \in Agents : LocalsInRange(loc[b])'
    BY <1>2, <1>3 DEF LocalsInRange
  <2> QED
    BY <1>1, <1>2, <2>1, <2>2 DEF TypeInv
<1>5. AgentsInv'
  <2>1. ASSUME NEW u \in Threads
        PROVE  ThreadInv(u)'
    <3>1. /\ u \in Agents /\ ThreadInv(u) /\ loc[u].at \in {"idle", "out"}
          /\ loc[u].producer = Null
      BY <1>2, ThreadFacts DEF ThreadInv, ThreadPlace, MissingPlaces, CountedPlaces
    <3>2. /\ loc'[u].at = loc[u].at /\ loc'[u].id = loc[u].id /\ loc'[u].producer = Null
          /\ loc'[u].listener \in {loc[u].listener, Null}
      BY <1>3, <3>1
    <3>3. ThreadPlace(u)'
      BY <3>1, <3>2 DEF ThreadInv, ThreadPlace, MissingPlaces, CountedPlaces
    <3>4. ThreadListener(u)'
      BY <1>2, <3>2 DEF ThreadListener
    <3>5. ThreadSearch(u)'
      BY <3>1, <3>2 DEF ThreadSearch, MissingPlaces, CountedPlaces
    <3> QED
      BY <3>3, <3>4, <3>5 DEF ThreadInv
  <2>2. ASSUME NEW k \in Tokens
        PROVE  TokenInv(k)'
    <3>1. k \in Agents /\ TokenInv(k) /\ loc[k].at \in {"use", "out"}
      BY <1>2, TokenFacts
    <3>2. loc'[k].at = loc[k].at /\ loc'[k].producer \in {Null, loc[k].producer}
      BY <1>3, <3>1
    <3> QED
      BY <3>1, <3>2 DEF TokenInv
  <2> QED
    BY <2>1, <2>2 DEF AgentsInv
<1>6. IdsDiffer'
  <2>1. \A u \in Threads : loc'[u].id = loc[u].id
    BY <1>3 DEF Agents
  <2> QED
    BY <2>1 DEF HashInv, IdsDiffer
<1>7. OwnersInv' /\ EntriesInv' /\ TablesInv' /\ RoomInv'
  BY <1>2 DEF OwnersInv, EntriesInv, TablesInv, RoomInv
<1>8. CountsProducers'
  <2>1. Counted' = Counted
    BY <1>3 DEF Counted, Agents
  <2>2. ImplicitProducers' = ImplicitProducers
    BY <1>2 DEF ImplicitProducers
  <2> QED
    BY <1>2, <2>1, <2>2, CountedSays DEF HashInv
<1>9. TokensAreValid'
  <2>1. ASSUME NEW k \in Tokens, loc'[k].at = "use", loc'[k].producer # Null
        PROVE  FALSE
    <3>1. k \in Agents /\ loc[k].at = "use" /\ ~Known(k) /\ loc[k].producer # Null
      BY <1>3, <2>1 DEF Agents
    <3>2. loc[k].producer \in DOMAIN producers /\ producers[loc[k].producer].token = k
      BY <3>1, TokensHold
    <3> QED
      BY <3>1, <3>2
  <2> QED
    BY <2>1 DEF TokensAreValid
<1> QED
  BY <1>4, <1>5, <1>6, <1>7, <1>8, <1>9 DEF HashInv

------------------------------------------------------------------------------
(* Room in the tables                                                        *)

\* A table that is in use has a slot that was never written, or that has been left.
LEMMA SomeSlotIsTakable ==
  ASSUME ProducersAssumption, HashInv, alive, NEW h \in DOMAIN tables
  PROVE  \E i \in DOMAIN tables[h] : tables[h][i].key \in Takable
<1> DEFINE c == Capacity(h)
           n == IF ThreeQuarters(c) = 0 THEN 0 ELSE ThreeQuarters(c) - 1
           D == DOMAIN tables[h]
           f == [i \in D |-> tables[h][i].key]
<1>1. SUFFICES ASSUME \A i \in D : tables[h][i].key \notin Takable
               PROVE  FALSE
  OBVIOUS
<1>2. TypeInv /\ TableInv(h)
  BY DEF HashInv, TablesInv
<1>3. c \in Nat \ {0} /\ D = 0 .. c - 1 /\ \A i \in D : tables[h][i] \in Slots
  BY <1>2, Capacities
<1>4. n \in Nat /\ n < c /\ ThreeQuarters(c) <= n + 1
  BY <1>3 DEF ThreeQuarters
<1>5. Cardinality(D) = c /\ IsFiniteSet(D)
  BY <1>3, FS_Interval
<1>6. \A i \in D : tables[h][i].key \in Ids
  <2>1. ASSUME NEW i \in D
        PROVE  tables[h][i].key \in Ids
    <3>1. tables[h][i].key \in Ids \cup {invalid_thread_id, invalid_thread_id2}
      BY <1>3 DEF Slots, Keys
    <3>2. tables[h][i].key # invalid_thread_id
      BY <1>1 DEF Takable
    <3>3. tables[h][i].key # invalid_thread_id2
      BY <1>1, <1>2 DEF Takable, TableInv
    <3> QED
      BY <3>1, <3>2, <3>3
  <2> QED
    BY <2>1
<1> HIDE DEF c, n
<1>7. f \in Injection(D, Reserved(n))
  <2>1. \A i \in D : f[i] \in Reserved(n)
    BY <1>4, <1>6 DEF Reserved, HasKey, c
  <2>2. \A i, j \in D : f[i] = f[j] => i = j
    BY <1>2, <1>6 DEF TableInv
  <2> QED
    BY <2>1, <2>2 DEF Injection, IsInjective
<1>8. Reserved(n) \subseteq Claimants
  BY DEF Reserved, Claimants
<1>9. IsFiniteSet(Reserved(n)) /\ Cardinality(Reserved(n)) \in Nat
  BY <1>8, ClaimantsAreCounted, FS_Subset, FS_CardinalityType
<1>10. Cardinality(D) <= Cardinality(Reserved(n))
  BY <1>7, <1>9, FS_Injection
<1>11. Cardinality(Reserved(n)) <= n
  BY <1>4 DEF HashInv, RoomInv
<1> QED
  BY <1>3, <1>4, <1>5, <1>9, <1>10, <1>11

\* A queue that is gone leaves its tables as they are.
FreeSlotsInv == ThreadLocalSupported \/ SomeSlotIsFree
RoomIsLeft == HashInv /\ (alive \/ FreeSlotsInv)

LEMMA SlotsAreFree ==
  ASSUME ProducersAssumption, RoomIsLeft
  PROVE  FreeSlotsInv
<1>1. CASE alive /\ ~ThreadLocalSupported
  <2>1. Takable = {invalid_thread_id}
    BY <1>1 DEF Takable
  <2> QED
    BY <1>1, <2>1, SomeSlotIsTakable DEF RoomIsLeft, FreeSlotsInv, SomeSlotIsFree
<1> QED
  BY <1>1 DEF RoomIsLeft, FreeSlotsInv

------------------------------------------------------------------------------
(* The invariant is kept                                                     *)

LEMMA HashInit ==
  ASSUME ProducersAssumption, Init
  PROVE  HashInv
<1> DEFINE T == EmptyTable(INITIAL_IMPLICIT_PRODUCER_HASH_SIZE)
<1>1. /\ T \in HashTables
      /\ \A i \in DOMAIN T : T[i].key = invalid_thread_id /\ T[i].value = Null
  BY EmptyTableType DEF ProducersAssumption
<1>2. tables = <<T>> /\ DOMAIN tables = {1} /\ Len(tables) = 1 /\ tables[1] = T
  BY DEF Init
<1> HIDE DEF T
<1>3. /\ producers = <<>> /\ alive = TRUE /\ implicitProducerHashCount = 0
      /\ implicitProducerHashResizeInProgress = FALSE
      /\ loc \in [Agents -> {Out}] /\ \A a \in Agents : loc[a] = Out
  BY DEF Init, Agents
<1>4. /\ Out \in Locals /\ Out.at = "out" /\ Out.id = Null /\ Out.producer = Null
      /\ Out.listener = Null /\ Out.main = 0 /\ Out.table = 0 /\ Out.ptr = Null
  BY DEF Out, Locals, Places, Null
<1>5. \A h \in DOMAIN tables : \A i \in DOMAIN tables[h] :
        tables[h][i].key = invalid_thread_id /\ tables[h][i].value = Null
  BY <1>1, <1>2
<1>6. TypeInv
  <2>1. tables \in Seq(HashTables) /\ Len(tables) # 0
    BY <1>1, <1>2
  <2>2. \A a \in Agents : LocalsInRange(loc[a])
    BY <1>2, <1>3, <1>4 DEF LocalsInRange, Null
  <2>3. \A h \in DOMAIN tables : \A i \in DOMAIN tables[h] :
          tables[h][i].value <= Len(producers)
    BY <1>3, <1>5 DEF Null
  <2>4. producers \in Seq(ProducerRecords)
    BY <1>3
  <2>5. loc \in [Agents -> Locals]
    <3>1. loc = [a \in Agents |-> Out] /\ Out \in Locals
      BY <1>4 DEF Init, Agents
    <3> QED
      BY <3>1
  <2>6. implicitProducerHashCount \in Int
    BY <1>3
  <2>7. implicitProducerHashResizeInProgress \in BOOLEAN /\ alive \in BOOLEAN
    <3>1. implicitProducerHashResizeInProgress = FALSE /\ alive = TRUE
      BY DEF Init
    <3> QED
      BY <3>1, Zenon
  <2> QED
    BY <2>1, <2>2, <2>3, <2>4, <2>5, <2>6, <2>7 DEF TypeInv
<1>7. /\ \A a \in Agents : Has(a) = Null
      /\ \A h \in DOMAIN tables, x \in Ids : ~HasKey(h, x)
      /\ \A x \in Ids, p \in Nat : ~Entered(x, p)
  <2>1. \A a \in Agents : Has(a) = Null
    BY <1>3, <1>4 DEF Has
  <2>2. \A x \in Ids : x # invalid_thread_id
    BY DEF ProducersAssumption, invalid_thread_id
  <2> QED
    BY <1>5, <2>1, <2>2 DEF HasKey, Entered
<1>8. AgentsInv
  <2>1. ASSUME NEW t \in Threads
        PROVE  ThreadInv(t)
    <3>1. loc[t] = Out
      BY <1>3 DEF Agents
    <3>2. ThreadPlace(t)
      BY <1>3, <1>4, <3>1 DEF ThreadPlace, MissingPlaces, CountedPlaces
    <3>3. ThreadListener(t) /\ ThreadSearch(t)
      BY <1>4, <3>1 DEF ThreadListener, ThreadSearch, MissingPlaces, CountedPlaces
    <3> QED
      BY <3>2, <3>3 DEF ThreadInv
  <2>2. ASSUME NEW k \in Tokens
        PROVE  TokenInv(k)
    BY <1>3, <1>4 DEF TokenInv, Agents
  <2> QED
    BY <2>1, <2>2 DEF AgentsInv
<1>9. IdsDiffer /\ TokensAreValid
  BY <1>3, <1>4 DEF IdsDiffer, TokensAreValid, Agents
<1>10. OwnersInv /\ EntriesInv
  BY <1>7 DEF OwnersInv, EntriesInv
<1>11. TablesInv
  <2>1. \A x \in Ids : x # invalid_thread_id
    BY DEF ProducersAssumption, invalid_thread_id
  <2>2. ASSUME NEW h \in DOMAIN tables
        PROVE  TableInv(h)
    BY <1>5, <2>1 DEF TableInv, invalid_thread_id, invalid_thread_id2
  <2>3. \A g, h \in DOMAIN tables : ~(g < h)
    BY <1>2
  <2> QED
    BY <2>2, <2>3 DEF TablesInv
<1>12. Counted = {} /\ ImplicitProducers = {}
  BY <1>3, <1>4 DEF Counted, ImplicitProducers, CountedPlaces, Agents
<1>13. RoomInv
  <2>1. \A n \in Nat : Reserved(n) = {}
    BY <1>3, <1>4, <1>7, <1>12 DEF Reserved, Claims, Agents
  <2> QED
    BY <2>1, FS_EmptySet DEF RoomInv
<1>14. CountsProducers
  BY <1>3, <1>12, CountedSays, FS_EmptySet
<1> QED
  BY <1>6, <1>8, <1>9, <1>10, <1>11, <1>13, <1>14 DEF HashInv

LEMMA HashRests ==
  ASSUME HashInv, UNCHANGED vars
  PROVE  HashInv'
<1>1. /\ tables' = tables /\ producers' = producers /\ loc' = loc /\ alive' = alive
      /\ implicitProducerHashCount' = implicitProducerHashCount
      /\ implicitProducerHashResizeInProgress' = implicitProducerHashResizeInProgress
  BY DEF vars
<1>2. TypeInv'
  BY <1>1 DEF HashInv, TypeInv, LocalsInRange
<1>3. /\ \A h : Capacity(h)' = Capacity(h)
      /\ \A h, x : HasKey(h, x)' <=> HasKey(h, x)
      /\ \A x, p : Entered(x, p)' <=> Entered(x, p)
      /\ \A a : Has(a)' = Has(a)
  BY <1>1 DEF Capacity, HasKey, Entered, Has
<1>4. Counted' = Counted /\ ImplicitProducers' = ImplicitProducers
  BY <1>1 DEF Counted, ImplicitProducers
<1>5. AgentsInv'
  <2>1. ASSUME NEW t \in Threads
        PROVE  ThreadInv(t)'
    <3>1. ThreadPlace(t)' /\ ThreadListener(t)'
      BY <1>1, <1>3 DEF HashInv, AgentsInv, ThreadInv, ThreadPlace, ThreadListener
    <3>2. \A i : Passed(t, i)' <=> Passed(t, i)
      BY <1>1, <1>3 DEF Passed, Offset, Here
    <3>3. ThreadSearch(t)'
      BY <1>1, <1>3, <3>2 DEF HashInv, AgentsInv, ThreadInv, ThreadSearch
    <3> QED
      BY <3>1, <3>3 DEF ThreadInv
  <2>2. \A k \in Tokens : TokenInv(k)'
    BY <1>1 DEF HashInv, AgentsInv, TokenInv
  <2> QED
    BY <2>1, <2>2 DEF AgentsInv
<1>6. IdsDiffer' /\ TokensAreValid'
  BY <1>1 DEF HashInv, IdsDiffer, TokensAreValid
<1>7. OwnersInv'
  BY <1>1, <1>3 DEF HashInv, OwnersInv
<1>8. EntriesInv'
  <2>1. \A x, p : EntryInv(x, p)' <=> EntryInv(x, p)
    BY <1>1, <1>3 DEF EntryInv
  <2> QED
    BY <1>1, <1>3, <2>1 DEF HashInv, EntriesInv
<1>9. TablesInv'
  <2>1. \A h, x, i : Offset(h, x, i)' = Offset(h, x, i)
    BY <1>3 DEF Offset
  <2>2. \A h : TableInv(h)' <=> TableInv(h)
    BY <1>1, <2>1 DEF TableInv
  <2> QED
    BY <1>1, <1>3, <2>2 DEF HashInv, TablesInv
<1>10. RoomInv'
  <2>1. \A t \in Threads : Claims(t)' <=> Claims(t)
    BY <1>1, <1>4 DEF Claims
  <2>2. \A n : Reserved(n)' = Reserved(n)
    BY <1>1, <1>3, <2>1 DEF Reserved
  <2> QED
    BY <1>1, <2>2 DEF HashInv, RoomInv
<1>11. CountsProducers'
  BY <1>1, <1>4, CountedSays DEF HashInv
<1> QED
  BY <1>2, <1>5, <1>6, <1>7, <1>8, <1>9, <1>10, <1>11 DEF HashInv

LEMMA HashStep ==
  ASSUME ProducersAssumption, HashInv, [Next]_vars
  PROVE  HashInv'
<1>1. ASSUME NEW t \in Threads, Call(t)
      PROVE  HashInv'
  <2>1. t \in Agents
    BY DEF Agents
  <2> QED
    BY <1>1, <2>1, ProbeStep, EnterStep, CountStep, LockStep, GrowStep, CannotGrowStep,
       UnlockStep, RoomStep, RecycleStep, AddProducerStep, NoProducerStep, UncountStep,
       EnqueuedStep DEF Call
<1>2. ASSUME NEW t \in Threads, ThreadStep(t)
      PROVE  HashInv'
  <2>1. t \in Agents
    BY DEF Agents
  <2> QED
    BY <1>1, <1>2, <2>1, StartStep, BeginStep, ExitStep, ForgetStep, RetireStep,
       DestroyQueueStep DEF ThreadStep
<1>3. ASSUME NEW k \in Tokens, TokenStep(k)
      PROVE  HashInv'
  <2>1. k \in Agents
    BY DEF Agents
  <2> QED
    BY <1>3, <2>1, ConstructTokenStep, RecycleStep, AddProducerStep, NoTokenProducerStep,
       DestroyTokenStep, RetireStep, MoveTokenStep, SwapTokensStep DEF TokenStep
<1> QED
  BY <1>2, <1>3, HashRests DEF Next

\* The tables are written only by calls and by threads that end while there is a queue.
LEMMA TablesAreLeft ==
  ASSUME ProducersAssumption, HashInv, [Next]_vars
  PROVE  tables' = tables \/ alive'
<1>1. ASSUME NEW t \in Threads, Enter(t) \/ Forget(t)
      PROVE  alive'
  BY <1>1, SlotHere DEF Enter, Forget
<1>2. ASSUME NEW t \in Threads, Grow(t)
      PROVE  alive'
  <2>1. loc[t].at \in MissingPlaces
    BY <1>2 DEF Grow, MissingPlaces, CountedPlaces
  <2> QED
    BY <1>2, <2>1, MissingFacts DEF Grow
<1>3. ASSUME NEW t \in Threads, Call(t)
      PROVE  tables' = tables \/ alive'
  BY <1>1, <1>2, <1>3 DEF Call, Probe, Count, Lock, CannotGrow, Unlock, Room, Recycle,
     AddProducer, NoProducer, Uncount, Enqueued, HashUnchanged
<1>4. ASSUME NEW t \in Threads, ThreadStep(t)
      PROVE  tables' = tables \/ alive'
  BY <1>1, <1>3, <1>4 DEF ThreadStep, Start, Begin, Exit, Retire, DestroyQueue, HashUnchanged
<1>5. ASSUME NEW k \in Tokens, TokenStep(k)
      PROVE  tables' = tables
  BY <1>5 DEF TokenStep, ConstructToken, Recycle, AddProducer, NoProducer, DestroyToken, Retire,
     MoveToken, SwapTokens, HashUnchanged
<1> QED
  BY <1>4, <1>5 DEF Next, vars

LEMMA RoomIsLeftStep ==
  ASSUME ProducersAssumption, RoomIsLeft, [Next]_vars
  PROVE  RoomIsLeft'
<1>1. HashInv'
  BY HashStep DEF RoomIsLeft
<1>2. CASE alive'
  BY <1>1, <1>2 DEF RoomIsLeft
<1>3. CASE tables' = tables
  <2>1. FreeSlotsInv'
    BY <1>3, SlotsAreFree DEF FreeSlotsInv, SomeSlotIsFree
  <2> QED
    BY <1>1, <2>1 DEF RoomIsLeft
<1> QED
  BY <1>2, <1>3, TablesAreLeft DEF RoomIsLeft

LEMMA HashInvariant == ASSUME ProducersAssumption PROVE Spec => []RoomIsLeft
<1>1. Init => RoomIsLeft
  BY HashInit DEF Init, RoomIsLeft
<1>2. RoomIsLeft /\ [Next]_vars => RoomIsLeft'
  BY RoomIsLeftStep
<1> QED
  BY <1>1, <1>2, PTL DEF Spec

------------------------------------------------------------------------------
(* What it says                                                              *)

LEMMA HashIsTyped ==
  ASSUME ProducersAssumption, HashInv
  PROVE  TypeOK
<1>1. TypeInv
  BY DEF HashInv
<1>2. ASSUME NEW h \in DOMAIN tables
      PROVE  /\ DOMAIN tables[h] = 0 .. Cardinality(DOMAIN tables[h]) - 1
             /\ \A i \in DOMAIN tables[h] :
                  tables[h][i] \in [key : Keys, value : DOMAIN producers \cup {Null}]
  <2>1. DOMAIN tables[h] = 0 .. Cardinality(DOMAIN tables[h]) - 1
    BY <1>1, Capacities DEF Capacity
  <2>2. ASSUME NEW i \in DOMAIN tables[h]
        PROVE  tables[h][i] \in [key : Keys, value : DOMAIN producers \cup {Null}]
    <3>1. tables[h][i] \in Slots /\ tables[h][i].value <= Len(producers)
      BY <1>1, Capacities DEF TypeInv
    <3>2. tables[h][i].value \in DOMAIN producers \cup {Null}
      BY <1>1, <3>1 DEF Slots, TypeInv, Null
    <3> QED
      BY <3>1, <3>2 DEF Slots
  <2> QED
    BY <2>1, <2>2
<1>3. implicitProducerHashCount \in 0 .. Len(producers) + Cardinality(Threads)
  <2>1. Cardinality(Threads) \in Nat /\ Len(producers) \in Nat
    BY <1>1, FS_CardinalityType DEF ProducersAssumption, TypeInv
  <2>2. implicitProducerHashCount = Cardinality(ImplicitProducers) + Cardinality(Counted)
    BY CountedSays DEF HashInv
  <2> QED
    BY <1>1, <2>1, <2>2, CountedType
<1>4. producers \in Seq([isExplicit : BOOLEAN, inactive : BOOLEAN, token : Tokens \cup {NoToken}])
  BY <1>1 DEF TypeInv, ProducerRecords
<1>5. ASSUME NEW a \in Threads \cup Tokens
      PROVE  /\ loc[a].id \in Ids \cup {Null}
             /\ {loc[a].main, loc[a].table} \subseteq 0 .. Len(tables)
             /\ {loc[a].ptr, loc[a].producer, loc[a].listener} \subseteq 0 .. Len(producers)
  <2>1. loc[a] \in Locals /\ LocalsInRange(loc[a])
    BY <1>1 DEF TypeInv, Agents
  <2>2. Len(tables) \in Nat /\ Len(producers) \in Nat
    BY <1>1 DEF TypeInv
  <2> QED
    BY <2>1, <2>2 DEF Locals, LocalsInRange
<1> QED
  BY <1>1, <1>2, <1>3, <1>4, <1>5 DEF TypeOK, TypeInv

LEMMA HashEntriesAgree ==
  ASSUME ProducersAssumption, HashInv
  PROVE  EntriesAgree
<1>1. SUFFICES ASSUME NEW t \in Threads, loc[t].at = "use",
                      NEW h \in DOMAIN tables, NEW i \in DOMAIN tables[h]
               PROVE  /\ tables[h][i].key = loc[t].id => tables[h][i].value = loc[t].producer
                      /\ tables[h][i].key \in Ids /\ tables[h][i].value = loc[t].producer
                           => tables[h][i].key = loc[t].id
  BY DEF EntriesAgree
<1>2. TypeInv /\ t \in Agents /\ t \notin Tokens /\ ThreadInv(t)
  BY ThreadFacts
<1>3. alive /\ loc[t].producer # Null /\ loc[t].id \in Ids
  BY <1>1, <1>2, IdOfThread DEF ThreadInv, ThreadPlace
<1>4. Has(t) = loc[t].producer
  BY <1>2, <1>3 DEF Has, Explicit
<1>5. ASSUME tables[h][i].key \in Ids
      PROVE  EntryInv(tables[h][i].key, tables[h][i].value)
  <2>1. tables[h][i].value \in Nat
    BY <1>2, Capacities DEF Slots
  <2>2. Entered(tables[h][i].key, tables[h][i].value)
    BY DEF Entered
  <2> QED
    BY <1>3, <1>5, <2>1, <2>2 DEF HashInv, EntriesInv
<1>6. ASSUME tables[h][i].key = loc[t].id
      PROVE  tables[h][i].value = loc[t].producer
  BY <1>3, <1>4, <1>5, <1>6 DEF EntryInv
<1>7. ASSUME tables[h][i].key \in Ids, tables[h][i].value = loc[t].producer
      PROVE  tables[h][i].key = loc[t].id
  BY <1>2, <1>4, <1>5, <1>7 DEF EntryInv
<1> QED
  BY <1>6, <1>7

LEMMA HashHasRoom ==
  ASSUME ProducersAssumption, HashInv
  PROVE  RoomToEnter
<1>1. SUFFICES ASSUME NEW t \in Threads, loc[t].at \in {"adopt", "insert"}
               PROVE  \E i \in DOMAIN tables[loc[t].main] :
                        tables[loc[t].main][i].key \in Takable
  BY DEF RoomToEnter
<1>2. ThreadInv(t)
  BY ThreadFacts
<1>3. loc[t].main \in DOMAIN tables /\ alive
  BY <1>1, <1>2, SlotHere DEF ThreadInv, ThreadPlace
<1> QED
  BY <1>3, SomeSlotIsTakable

\* What the producers of a queue and their hash are for, for any number of threads, tokens and
\* ids (an id may come back) and any hash function: a producer has one owner
\* (concurrentqueue.h:3219-3222), no table knows a thread by another producer (:3380-3382),
\* whoever enters one finds a slot (:3405-3407, :3398), the count is that of the producers
\* (:3659), and tokens and producers know each other (:664-668).
THEOREM ProducersAreRight == ASSUME ProducersAssumption PROVE Spec => []ProducersInv
<1>1. RoomIsLeft => ProducersInv
  <2>1. SUFFICES ASSUME RoomIsLeft
                 PROVE  ProducersInv
    OBVIOUS
  <2>2. HashInv
    BY <2>1 DEF RoomIsLeft
  <2>3. OneOwner
    BY <2>2 DEF HashInv, OwnersInv, OneOwner, Agents
  <2>4. CountsProducers /\ TokensAreValid
    BY <2>2 DEF HashInv
  <2> QED
    BY <2>1, <2>2, <2>3, <2>4, HashIsTyped, HashEntriesAgree, HashHasRoom, SlotsAreFree
       DEF ProducersInv, FreeSlotsInv
<1> QED
  BY <1>1, HashInvariant, PTL

\* "Not an infinite loop because at least one slot is free in the hash table"
\* (concurrentqueue.h:3398) holds where there is no thread exit tracking: only with it do slots
\* that have been left take the place of free ones.
THEOREM SearchesMeetAFreeSlot ==
  ASSUME ProducersAssumption, ~ThreadLocalSupported
  PROVE  Spec => []SomeSlotIsFree
<1>1. RoomIsLeft => SomeSlotIsFree
  BY SlotsAreFree DEF FreeSlotsInv
<1> QED
  BY <1>1, HashInvariant, PTL
==============================================================================
