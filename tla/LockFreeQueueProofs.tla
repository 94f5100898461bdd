------------------------- MODULE LockFreeQueueProofs -------------------------
(***************************************************************************)
(* Theorems about LockFreeQueue, for any number of threads, any capacity    *)
(* the constructor's assertion admits and any bound on the tickets.         *)
(***************************************************************************)
EXTENDS LockFreeQueue, FiniteSetTheorems, SequenceTheorems, TLAPS

------------------------------------------------------------------------------
(* Counters that wrap around, and numbers of threads                        *)

\* A number is a multiple and a remainder.
LEMMA Division ==
  ASSUME NEW m \in Nat \ {0}, NEW x \in Int
  PROVE  /\ x \div m \in Int
         /\ x % m \in 0 .. m - 1
         /\ x = m * (x \div m) + (x % m)
OBVIOUS

\* Numbers less than m apart that differ by a multiple of m are equal.
LEMMA EqualRemainders ==
  ASSUME NEW m \in Nat \ {0}, NEW a \in Int,
         NEW x \in 0 .. m - 1, NEW y \in 0 .. m - 1, x - y = m * a
  PROVE  x = y
<1>1. CASE a > 0
  <2>1. m * a >= m
    BY <1>1, SMT
  <2> QED
    BY <2>1
<1>2. CASE a < 0
  <2>1. m * a <= - m
    BY <1>2, SMT
  <2> QED
    BY <2>1
<1>3. CASE a = 0
  BY <1>3
<1> QED
  BY <1>1, <1>2, <1>3

\* A counter that is reduced before it counts one up or down is the one that is not.
LEMMA CountReduced ==
  ASSUME NEW m \in Nat \ {0}, NEW x \in Int, NEW n \in {1, -1}
  PROVE  ((x % m) + n) % m = (x + n) % m
<1> DEFINE r == x % m
           a == x \div m
           b == (r + n) \div m
           c == (x + n) \div m
           y == (r + n) % m
           z == (x + n) % m
<1>1. a \in Int /\ r \in 0 .. m - 1 /\ x = m * a + r
  BY Division
<1>2. r + n \in Int /\ x + n \in Int
  BY <1>1
<1>3. b \in Int /\ y \in 0 .. m - 1 /\ r + n = m * b + y
  BY <1>2, Division
<1>4. c \in Int /\ z \in 0 .. m - 1 /\ x + n = m * c + z
  BY <1>2, Division
<1> HIDE DEF r, a, b, c, y, z
<1>5. z - y = m * (a + b - c)
  <2> DEFINE A == m * a
             B == m * b
             C == m * c
  <2>1. A \in Int /\ B \in Int /\ C \in Int /\ m * (a + b - c) = A + B - C
    BY <1>1, <1>3, <1>4, SMT
  <2>2. x = A + r /\ r + n = B + y /\ x + n = C + z
    BY <1>1, <1>3, <1>4
  <2> HIDE DEF A, B, C
  <2> QED
    BY <1>1, <1>3, <1>4, <2>1, <2>2
<1>6. a + b - c \in Int
  BY <1>1, <1>3, <1>4
<1>7. z = y
  BY <1>3, <1>4, <1>5, <1>6, EqualRemainders
<1> QED
  BY <1>7 DEF r, y, z

\* A finite set of threads with one more, or one less.
LEMMA ThreadEnters ==
  ASSUME NEW All, IsFiniteSet(All), NEW S \in SUBSET All, NEW t \in All, t \notin S
  PROVE  Cardinality(S) \in Nat /\ Cardinality(S \cup {t}) = Cardinality(S) + 1
BY FS_Subset, FS_CardinalityType, FS_AddElement

LEMMA ThreadLeaves ==
  ASSUME NEW All, IsFiniteSet(All), NEW S \in SUBSET All, NEW t \in S
  PROVE  Cardinality(S) \in Nat /\ Cardinality(S \ {t}) = Cardinality(S) - 1
BY FS_Subset, FS_CardinalityType, FS_RemoveElement

------------------------------------------------------------------------------
(* Cells of the ring                                                        *)

\* The capacity is at least two cells.
LEMMA CapacityType == Capacity \in Nat /\ Capacity >= 2
BY CapacityAssumption

\* A position belongs to a cell.
LEMMA CellType == ASSUME NEW p \in Int PROVE Cell(p) \in Cells
BY CapacityType DEF Cell, Cells

\* A position is a lap and a cell.
LEMMA CellDivision ==
  ASSUME NEW p \in Int
  PROVE  /\ p \div Capacity \in Int
         /\ Cell(p) \in 0 .. Capacity - 1
         /\ p = Capacity * (p \div Capacity) + Cell(p)
BY CapacityType DEF Cell

\* Multiples of the capacity less than a lap apart are equal.
LEMMA MultipleBound ==
  ASSUME NEW a \in Int, a > 0
  PROVE  Capacity * a >= Capacity
BY CapacityType, SMT

\* Two tickets less than a lap apart are never in the same cell.
LEMMA CellInjective ==
  ASSUME NEW p \in Int, NEW q \in Int, p <= q, q < p + Capacity, Cell(p) = Cell(q)
  PROVE  p = q
<1> DEFINE a == p \div Capacity
           b == q \div Capacity
<1>1. a \in Int /\ p = Capacity * a + Cell(p)
  BY CellDivision
<1>2. b \in Int /\ q = Capacity * b + Cell(q)
  BY CellDivision
<1>3. Cell(p) \in Int /\ Cell(q) \in Int
  BY CellDivision, CapacityType
<1> HIDE DEF a, b
<1>4. q - p = Capacity * (b - a)
  BY <1>1, <1>2, <1>3, CapacityType
<1>5. CASE b - a <= 0
  <2>1. Capacity * (b - a) <= 0
    BY <1>1, <1>2, <1>5, CapacityType
  <2> QED
    BY <1>4, <2>1
<1>6. CASE b - a > 0
  <2>1. Capacity * (b - a) >= Capacity
    BY <1>1, <1>2, <1>6, MultipleBound
  <2> QED
    BY <1>4, <2>1, CapacityType
<1> QED
  BY <1>1, <1>2, <1>5, <1>6

\* A ticket and the one a lap later are in the same cell (line 97 stores the
\* sequence number that the next lap's enqueue of the cell waits for).
LEMMA CellLap ==
  ASSUME NEW p \in Int
  PROVE  Cell(p - Capacity) = Cell(p) /\ Cell(p + Capacity) = Cell(p)
<1>1. ASSUME NEW q \in Int PROVE Cell(q + Capacity) = Cell(q)
  <2> DEFINE a == q \div Capacity
             b == (q + Capacity) \div Capacity
  <2>1. a \in Int /\ q = Capacity * a + Cell(q) /\ Cell(q) \in 0 .. Capacity - 1
    BY CellDivision
  <2>2. q + Capacity \in Int
    BY CapacityType
  <2>3. /\ b \in Int
        /\ q + Capacity = Capacity * b + Cell(q + Capacity)
        /\ Cell(q + Capacity) \in 0 .. Capacity - 1
    BY <2>2, CellDivision
  <2> HIDE DEF a, b
  <2>4. Cell(q + Capacity) - Cell(q) = Capacity * (a + 1 - b)
    <3> DEFINE x == Capacity * a
               y == Capacity * b
    <3>1. x \in Int /\ y \in Int /\ Capacity * (a + 1 - b) = x + Capacity - y
      BY <2>1, <2>3, CapacityType, SMT
    <3>2. q = x + Cell(q) /\ q + Capacity = y + Cell(q + Capacity)
      BY <2>1, <2>3
    <3> HIDE DEF x, y
    <3> QED
      BY <3>1, <3>2, <2>1, <2>3, CapacityType
  <2>5. CASE a + 1 - b > 0
    <3>1. Capacity * (a + 1 - b) >= Capacity
      BY <2>1, <2>3, <2>5, MultipleBound
    <3> QED
      BY <2>1, <2>3, <2>4, <3>1, CapacityType
  <2>6. CASE a + 1 - b < 0
    <3>1. Capacity * (b - a - 1) >= Capacity
      BY <2>1, <2>3, <2>6, MultipleBound
    <3>2. Cell(q) - Cell(q + Capacity) = Capacity * (b - a - 1)
      BY <2>1, <2>3, <2>4, CapacityType
    <3> QED
      BY <2>1, <2>3, <3>1, <3>2, CapacityType
  <2>7. CASE a + 1 - b = 0
    BY <2>1, <2>3, <2>4, <2>7, CapacityType
  <2> QED
    BY <2>1, <2>3, <2>5, <2>6, <2>7
<1>2. p - Capacity \in Int /\ (p - Capacity) + Capacity = p
  BY CapacityType
<1> QED
  BY <1>1, <1>2

------------------------------------------------------------------------------
(* The inductive invariant                                                  *)

\* A step by which a thread that owns no ticket comes to own none, and which
\* touches neither the sequence numbers nor the positions: every load, every
\* check, every failed compare-and-swap, every invocation and every return.
LEMMA UnownedStep ==
  ASSUME QueueInv, TypeOK',
         NEW t \in Threads, NEW to \in PCs,
         ~Owns(t), to \notin EnqOwner \cup DeqOwner,
         pc' = [pc EXCEPT ![t] = to],
         \A u \in Threads : u # t => pos'[u] = pos[u],
         UNCHANGED <<sequence, enqueue_pos, dequeue_pos>>
  PROVE  PositionInv' /\ TicketInv' /\ OwnerInv'
<1> USE DEF QueueInv
<1>1. \A u \in Threads : Owns(u) => u # t /\ pc'[u] = pc[u] /\ pos'[u] = pos[u]
  BY DEF TypeOK, Owns
<1>2. \A u \in Threads : Owns(u)' => Owns(u)
  BY DEF TypeOK, Owns
<1>3. PositionInv'
  BY DEF PositionInv
<1>4. TicketInv'
  BY <1>1 DEF TicketInv, Window, Owns
<1>5. OwnerInv'
  BY <1>1, <1>2 DEF OwnerInv, Owns
<1> QED
  BY <1>3, <1>4, <1>5

\* Initially every variable has its type.
LEMMA TypeInit == Init => TypeOK
BY CapacityType, ConstantsAssumption DEF Init, TypeOK, Cells, PCs

\* m_size stays a uint32_t when it is counted up or down.
LEMMA SizeType ==
  ASSUME NEW n \in Int
  PROVE  n % SizeMod \in 0 .. SizeMod - 1
BY ConstantsAssumption

\* Every step keeps the types.
LEMMA TypeStep == TypeOK /\ [Next]_vars => TypeOK'
<1> SUFFICES ASSUME TypeOK, [Next]_vars PROVE TypeOK'
  OBVIOUS
<1> USE DEF TypeOK, Goto, Return, PCs, EnqOwner, DeqOwner
<1>1. CASE UNCHANGED vars
  BY <1>1 DEF vars
<1>2. ASSUME NEW t \in Threads, EnqStep(t) PROVE TypeOK'
  <2>1. CASE \E x \in Items : EnqInvoke(t, x)
    BY <2>1 DEF EnqInvoke
  <2>2. CASE EnqLoad(t)
    BY <2>2 DEF EnqLoad
  <2>3. CASE EnqCheckFree(t) \/ EnqCheckStale(t) \/ EnqCheckFull(t)
    BY <2>3 DEF EnqCheckFree, EnqCheckStale, EnqCheckFull
  <2>4. CASE EnqCas(t) \/ EnqCasFail(t)
    BY <2>4 DEF EnqCas, EnqCasFail
  <2>5. CASE EnqWrite(t)
    BY <2>5 DEF EnqWrite
  <2>6. CASE EnqPublish(t)
    <3>1. pos[t] + 1 \in Nat
      OBVIOUS
    <3>2. sequence' \in [Cells -> Nat]
      BY <2>6, <3>1 DEF EnqPublish
    <3> QED
      BY <2>6, <3>2 DEF EnqPublish
  <2>7. CASE EnqCount(t)
    BY <2>7, SizeType DEF EnqCount
  <2> QED
    BY <1>2, <2>1, <2>2, <2>3, <2>4, <2>5, <2>6, <2>7 DEF EnqStep
<1>3. ASSUME NEW t \in Threads, DeqStep(t) PROVE TypeOK'
  <2>1. CASE DeqInvoke(t)
    BY <2>1 DEF DeqInvoke
  <2>2. CASE DeqLoad(t)
    BY <2>2 DEF DeqLoad
  <2>3. CASE DeqCheckReady(t) \/ DeqCheckStale(t) \/ DeqCheckEmpty(t)
    BY <2>3 DEF DeqCheckReady, DeqCheckStale, DeqCheckEmpty
  <2>4. CASE DeqCas(t) \/ DeqCasFail(t)
    BY <2>4 DEF DeqCas, DeqCasFail
  <2>5. CASE DeqRead(t)
    BY <2>5, CellType DEF DeqRead
  <2>6. CASE DeqClear(t)
    BY <2>6 DEF DeqClear
  <2>7. CASE DeqRelease(t)
    <3>1. pos[t] + Capacity \in Nat
      BY CapacityType
    <3>2. sequence' \in [Cells -> Nat]
      BY <2>7, <3>1 DEF DeqRelease
    <3> QED
      BY <2>7, <3>2 DEF DeqRelease
  <2>8. CASE DeqCount(t)
    BY <2>8, SizeType DEF DeqCount
  <2> QED
    BY <1>3, <2>1, <2>2, <2>3, <2>4, <2>5, <2>6, <2>7, <2>8 DEF DeqStep
<1> QED
  BY <1>1, <1>2, <1>3 DEF Next

\* The invariant holds initially.
LEMMA QueueInvInit == Init => QueueInv
<1> SUFFICES ASSUME Init PROVE QueueInv
  OBVIOUS
<1>1. TypeOK
  BY TypeInit
<1>2. PositionInv
  BY CapacityType DEF Init, PositionInv
<1>3. TicketInv
  <2> SUFFICES ASSUME NEW p \in Window
               PROVE  p < dequeue_pos /\ sequence[Cell(p)] = p + Capacity
    BY DEF TicketInv
  <2>1. p \in Int /\ p < 0 /\ p + Capacity \in Cells
    BY CapacityType DEF Init, Window, Cells
  <2>2. Cell(p) = Cell(p + Capacity)
    BY <2>1, CellLap
  <2>3. Cell(p + Capacity) = p + Capacity
    BY <2>1, CapacityType DEF Cell, Cells
  <2> QED
    BY <2>1, <2>2, <2>3 DEF Init
<1>4. OwnerInv /\ CasInv
  BY DEF Init, OwnerInv, CasInv, Owns, EnqOwner, DeqOwner
<1> QED
  BY <1>1, <1>2, <1>3, <1>4 DEF QueueInv

\* The compare-and-swap of an enqueue takes ticket enqueue_pos, whose cell was
\* given back by the dequeue of the previous lap.
LEMMA EnqCasStep ==
  ASSUME QueueInv, TypeOK', NEW t \in Threads, EnqCas(t)
  PROVE  QueueInv'
<1> USE DEF QueueInv
<1> DEFINE e == enqueue_pos
<1>1. /\ e \in Nat /\ dequeue_pos \in Nat /\ pos[t] = e /\ enqueue_pos' = e + 1
      /\ pc' = [pc EXCEPT ![t] = "enqWrite"] /\ pc[t] = "enqCas"
      /\ UNCHANGED <<sequence, dequeue_pos, pos>>
  BY DEF EnqCas, Goto, TypeOK
<1>2. sequence[Cell(e)] = e
  BY <1>1 DEF CasInv
<1>3. e - Capacity \in Window /\ Cell(e - Capacity) = Cell(e)
  BY <1>1, CellLap, CapacityType DEF Window
<1>4. e - Capacity < dequeue_pos
  BY <1>1, <1>2, <1>3, CapacityType DEF TicketInv
<1>5. PositionInv'
  BY <1>1, <1>4, CapacityType DEF PositionInv
<1>6. \A u \in Threads : Owns(u) => u # t /\ pc'[u] = pc[u]
  BY <1>1 DEF Owns, EnqOwner, DeqOwner, TypeOK
<1>7. \A u \in Threads : Owns(u)' => u = t \/ Owns(u)
  BY <1>1 DEF Owns, TypeOK
<1>8. \A u \in Threads : pc[u] \in DeqOwner => pos[u] # e - Capacity
  <2> SUFFICES ASSUME NEW u \in Threads, pc[u] \in DeqOwner, pos[u] = e - Capacity
               PROVE  FALSE
    OBVIOUS
  <2>1. sequence[Cell(e)] = e - Capacity + 1
    BY <1>3 DEF OwnerInv
  <2> QED
    BY <1>1, <1>2, <2>1, CapacityType
<1>9. TicketInv'
  <2> SUFFICES ASSUME NEW p \in Window'
               PROVE  \/ /\ dequeue_pos <= p
                         /\ sequence[Cell(p)] = p
                         /\ \E u \in Threads : pc'[u] \in EnqOwner /\ pos[u] = p
                      \/ /\ dequeue_pos <= p
                         /\ sequence[Cell(p)] = p + 1
                      \/ /\ p < dequeue_pos
                         /\ sequence[Cell(p)] = p + 1
                         /\ \E u \in Threads : pc'[u] \in DeqOwner /\ pos[u] = p
                      \/ /\ p < dequeue_pos
                         /\ sequence[Cell(p)] = p + Capacity
    BY <1>1 DEF TicketInv
  <2>1. CASE p = e
    BY <2>1, <1>1, <1>2 DEF PositionInv, EnqOwner, TypeOK
  <2>2. CASE p # e
    <3>1. p \in Window
      BY <1>1, <2>2, CapacityType DEF Window
    <3> QED
      BY <3>1, <1>6 DEF TicketInv, Owns
  <2> QED
    BY <2>1, <2>2
<1>10. OwnerInv'
  <2>1. ASSUME NEW u \in Threads, pc'[u] \in EnqOwner
        PROVE  /\ pos'[u] \in dequeue_pos' .. (enqueue_pos' - 1)
               /\ sequence'[Cell(pos'[u])] = pos'[u]
    <3>1. CASE u = t
      BY <3>1, <1>1, <1>2 DEF PositionInv
    <3>2. CASE u # t
      BY <2>1, <3>2, <1>1 DEF OwnerInv, TypeOK
    <3> QED
      BY <3>1, <3>2
  <2>2. ASSUME NEW u \in Threads, pc'[u] \in DeqOwner
        PROVE  /\ pos'[u] \in (enqueue_pos' - Capacity) .. (dequeue_pos' - 1)
               /\ sequence'[Cell(pos'[u])] = pos'[u] + 1
    <3>1. u # t /\ pc[u] \in DeqOwner
      BY <2>2, <1>1 DEF DeqOwner, TypeOK
    <3> QED
      BY <3>1, <1>1, <1>8, CapacityType DEF OwnerInv
  <2>3. ASSUME NEW u \in Threads, NEW v \in Threads,
               Owns(u)', Owns(v)', pos'[u] = pos'[v]
        PROVE  u = v
    <3>1. \A w \in Threads : Owns(w) => pos[w] # e
      BY <1>1, CapacityType DEF OwnerInv, Owns, PositionInv
    <3> QED
      BY <2>3, <3>1, <1>1, <1>7 DEF OwnerInv
  <2> QED
    BY <2>1, <2>2, <2>3 DEF OwnerInv
<1>11. CasInv'
  BY <1>1 DEF CasInv, TypeOK
<1> QED
  BY <1>5, <1>9, <1>10, <1>11

\* A step by which the owner of a ticket stays its owner and which touches
\* neither the sequence numbers nor the positions: the accesses to data_.
LEMMA OwnedStep ==
  ASSUME QueueInv, TypeOK', NEW t \in Threads, NEW to \in PCs,
         \/ pc[t] \in EnqOwner /\ to \in EnqOwner
         \/ pc[t] \in DeqOwner /\ to \in DeqOwner,
         pc' = [pc EXCEPT ![t] = to],
         UNCHANGED <<sequence, enqueue_pos, dequeue_pos, pos>>
  PROVE  QueueInv'
<1> USE DEF QueueInv
<1>1. \A u \in Threads : /\ pc'[u] \in EnqOwner <=> pc[u] \in EnqOwner
                         /\ pc'[u] \in DeqOwner <=> pc[u] \in DeqOwner
  BY DEF TypeOK, EnqOwner, DeqOwner
<1>2. PositionInv' /\ TicketInv'
  BY <1>1 DEF PositionInv, TicketInv, Window
<1>3. OwnerInv'
  BY <1>1 DEF OwnerInv, Owns
<1>4. CasInv'
  BY DEF CasInv, TypeOK, EnqOwner, DeqOwner
<1> QED
  BY <1>2, <1>3, <1>4

\* The store of a cell's sequence number by the owner of its ticket, p: no other
\* ticket of the window, no other owner and no valid compare-and-swap depends on
\* that cell.
LEMMA OtherCells ==
  ASSUME QueueInv, NEW t \in Threads, Owns(t)
  PROVE  /\ pos[t] \in Window
         /\ \A q \in Window : q # pos[t] => Cell(q) # Cell(pos[t])
         /\ \A u \in Threads :
              Owns(u) /\ u # t => pos[u] \in Window /\ pos[u] # pos[t]
<1> USE DEF QueueInv
<1>1. /\ enqueue_pos \in Nat /\ dequeue_pos \in Nat
      /\ dequeue_pos <= enqueue_pos /\ enqueue_pos <= dequeue_pos + Capacity
  BY DEF TypeOK, PositionInv
<1>2. \A u \in Threads : Owns(u) => pos[u] \in Window
  BY <1>1, CapacityType DEF OwnerInv, Owns, Window
<1>3. ASSUME NEW q \in Window, Cell(q) = Cell(pos[t]) PROVE q = pos[t]
  <2>1. /\ q \in Int /\ pos[t] \in Int
        /\ q < pos[t] + Capacity /\ pos[t] < q + Capacity
    BY <1>1, <1>2, CapacityType DEF Window
  <2>2. CASE q <= pos[t]
    BY <1>3, <2>1, <2>2, CellInjective
  <2>3. CASE pos[t] <= q
    BY <1>3, <2>1, <2>3, CellInjective
  <2> QED
    BY <2>1, <2>2, <2>3
<1>4. \A u \in Threads : Owns(u) /\ u # t => pos[u] # pos[t]
  BY DEF OwnerInv
<1> QED
  BY <1>2, <1>3, <1>4

\* The owner of ticket p stores a new sequence number into its cell and owns the
\* ticket no more: p + 1 once the item is in, p + Capacity once it is out.
LEMMA GiveUpStep ==
  ASSUME QueueInv, TypeOK', NEW t \in Threads, NEW s \in Nat, NEW to \in PCs,
         \/ pc[t] \in EnqOwner /\ s = pos[t] + 1 /\ to = "enqCount"
         \/ pc[t] \in DeqOwner /\ s = pos[t] + Capacity /\ to = "deqCount",
         pc' = [pc EXCEPT ![t] = to],
         sequence' = [sequence EXCEPT ![Cell(pos[t])] = s],
         UNCHANGED <<enqueue_pos, dequeue_pos, pos>>
  PROVE  QueueInv'
<1> USE DEF QueueInv
<1> DEFINE p == pos[t]
<1>1. /\ Owns(t) /\ p \in Nat /\ Cell(p) \in Cells /\ p \in Window
      /\ enqueue_pos \in Nat /\ dequeue_pos \in Nat
  BY OtherCells, CellType DEF Owns, TypeOK
<1>2. sequence'[Cell(p)] = s
  BY <1>1 DEF TypeOK
<1>3. \A q \in Int : Cell(q) # Cell(p) => sequence'[Cell(q)] = sequence[Cell(q)]
  BY CellType DEF TypeOK
<1>4. \A q \in Window : q # p => Cell(q) # Cell(p)
  BY <1>1, OtherCells
<1>5. \A u \in Threads : u # t => pc'[u] = pc[u]
  BY DEF TypeOK
<1>6. ~Owns(t)'
  BY DEF Owns, EnqOwner, DeqOwner, TypeOK
<1>7. \A u \in Threads : Owns(u)' => u # t /\ Owns(u) /\ pc'[u] = pc[u]
  BY <1>5, <1>6 DEF Owns
<1>8. PositionInv'
  BY DEF PositionInv
<1>9. TicketInv'
  <2> SUFFICES ASSUME NEW q \in Window
               PROVE  \/ /\ dequeue_pos <= q
                         /\ sequence'[Cell(q)] = q
                         /\ \E u \in Threads : pc'[u] \in EnqOwner /\ pos[u] = q
                      \/ /\ dequeue_pos <= q
                         /\ sequence'[Cell(q)] = q + 1
                      \/ /\ q < dequeue_pos
                         /\ sequence'[Cell(q)] = q + 1
                         /\ \E u \in Threads : pc'[u] \in DeqOwner /\ pos[u] = q
                      \/ /\ q < dequeue_pos
                         /\ sequence'[Cell(q)] = q + Capacity
    BY DEF TicketInv, Window
  <2>1. CASE q = p
    BY <2>1, <1>1, <1>2 DEF OwnerInv, EnqOwner, DeqOwner
  <2>2. CASE q # p
    <3>1. q \in Int /\ sequence'[Cell(q)] = sequence[Cell(q)]
      BY <2>2, <1>1, <1>3, <1>4, CapacityType DEF Window
    <3>2. \A u \in Threads : pos[u] = q => pc'[u] = pc[u]
      BY <2>2, <1>5
    <3> QED
      BY <3>1, <3>2 DEF TicketInv
  <2> QED
    BY <2>1, <2>2
<1>10. OwnerInv'
  <2>1. ASSUME NEW u \in Threads, Owns(u)'
        PROVE  sequence'[Cell(pos[u])] = sequence[Cell(pos[u])]
    <3>1. pos[u] \in Int /\ Cell(pos[u]) # Cell(p)
      BY <2>1, <1>1, <1>4, <1>7, OtherCells DEF TypeOK
    <3> QED
      BY <3>1, <1>3
  <2> QED
    BY <2>1, <1>7 DEF OwnerInv, Owns
<1>11. CasInv'
  <2>1. ASSUME NEW u \in Threads, pc'[u] = "enqCas", pos[u] = enqueue_pos
        PROVE  sequence'[Cell(pos[u])] = pos[u]
    <3>1. pc[u] = "enqCas" /\ sequence[Cell(enqueue_pos)] = enqueue_pos
      BY <2>1, <1>5 DEF CasInv, TypeOK
    <3>2. CASE Cell(enqueue_pos) = Cell(p)
      <4>1. p <= enqueue_pos /\ enqueue_pos <= p + Capacity
        BY <1>1, CapacityType DEF Window
      <4>2. p # enqueue_pos
        BY <1>1 DEF Window
      <4>3. p = enqueue_pos - Capacity
        BY <3>2, <4>1, <4>2, <1>1, CellInjective, CapacityType
      <4>4. sequence[Cell(p)] = p \/ sequence[Cell(p)] = p + 1
        BY DEF OwnerInv
      <4> QED
        BY <3>1, <3>2, <4>3, <4>4, <1>1, CapacityType
    <3>3. CASE Cell(enqueue_pos) # Cell(p)
      BY <3>1, <3>3, <2>1, <1>1, <1>3
    <3> QED
      BY <3>2, <3>3
  <2>2. ASSUME NEW u \in Threads, pc'[u] = "deqCas", pos[u] = dequeue_pos
        PROVE  sequence'[Cell(pos[u])] = pos[u] + 1
    <3>1. pc[u] = "deqCas" /\ sequence[Cell(dequeue_pos)] = dequeue_pos + 1
      BY <2>2, <1>5 DEF CasInv, TypeOK
    <3>2. Cell(dequeue_pos) # Cell(p)
      <4> SUFFICES ASSUME Cell(dequeue_pos) = Cell(p) PROVE FALSE
        OBVIOUS
      <4>1. CASE pc[t] \in EnqOwner
        <5>1. p \in dequeue_pos .. (enqueue_pos - 1) /\ sequence[Cell(p)] = p
          BY <4>1 DEF OwnerInv
        <5>2. p < dequeue_pos + Capacity
          BY <5>1, <1>1, CapacityType DEF PositionInv
        <5>3. dequeue_pos = p
          BY <5>1, <5>2, <1>1, CellInjective
        <5> QED
          BY <5>1, <5>3, <3>1, <1>1
      <4>2. CASE pc[t] \in DeqOwner
        <5>1. /\ p < dequeue_pos /\ dequeue_pos <= p + Capacity
              /\ sequence[Cell(p)] = p + 1
          BY <4>2, <1>1, CapacityType DEF OwnerInv, PositionInv
        <5>2. dequeue_pos = p + Capacity
          BY <5>1, <1>1, CellInjective, CapacityType
        <5> QED
          BY <5>1, <5>2, <3>1, <1>1, CapacityType
      <4> QED
        BY <4>1, <4>2
    <3> QED
      BY <3>1, <3>2, <2>2, <1>1, <1>3
  <2>3. \A u \in Threads : pc'[u] \in {"enqCheck", "enqCas"} => pos[u] <= enqueue_pos
    BY <1>5 DEF CasInv, TypeOK
  <2>4. \A u \in Threads : pc'[u] \in {"deqCheck", "deqCas"} => pos[u] <= dequeue_pos
    BY <1>5 DEF CasInv, TypeOK
  <2> QED
    BY <2>1, <2>2, <2>3, <2>4 DEF CasInv
<1> QED
  BY <1>8, <1>9, <1>10, <1>11

\* The compare-and-swap of a dequeue takes ticket dequeue_pos, which some enqueue
\* has taken and filled before.
LEMMA DeqCasStep ==
  ASSUME QueueInv, TypeOK', NEW t \in Threads, DeqCas(t)
  PROVE  QueueInv' /\ dequeue_pos < enqueue_pos
<1> USE DEF QueueInv
<1> DEFINE d == dequeue_pos
<1>1. /\ d \in Nat /\ enqueue_pos \in Nat /\ pos[t] = d /\ dequeue_pos' = d + 1
      /\ pc' = [pc EXCEPT ![t] = "deqRead"] /\ pc[t] = "deqCas"
      /\ UNCHANGED <<sequence, enqueue_pos, pos>>
  BY DEF DeqCas, Goto, TypeOK
<1>2. sequence[Cell(d)] = d + 1
  BY <1>1 DEF CasInv
<1>3. d < enqueue_pos
  <2> SUFFICES ASSUME d = enqueue_pos PROVE FALSE
    BY <1>1 DEF PositionInv
  <2>1. d - Capacity \in Window /\ Cell(d - Capacity) = Cell(d)
    BY <1>1, CellLap, CapacityType DEF Window
  <2> QED
    BY <1>1, <1>2, <2>1, CapacityType DEF TicketInv
<1>4. PositionInv'
  BY <1>1, <1>3, CapacityType DEF PositionInv
<1>5. \A u \in Threads : Owns(u) => u # t /\ pc'[u] = pc[u]
  BY <1>1 DEF Owns, EnqOwner, DeqOwner, TypeOK
<1>6. \A u \in Threads : Owns(u)' => u = t \/ Owns(u)
  BY <1>1 DEF Owns, TypeOK
<1>7. \A u \in Threads : Owns(u) => pos[u] # d
  <2>1. ASSUME NEW u \in Threads, pc[u] \in EnqOwner PROVE pos[u] # d
    BY <2>1, <1>1, <1>2 DEF OwnerInv
  <2>2. ASSUME NEW u \in Threads, pc[u] \in DeqOwner PROVE pos[u] # d
    BY <2>2, <1>1 DEF OwnerInv
  <2> QED
    BY <2>1, <2>2 DEF Owns
<1>8. TicketInv'
  <2> SUFFICES ASSUME NEW p \in Window
               PROVE  \/ /\ d + 1 <= p
                         /\ sequence[Cell(p)] = p
                         /\ \E u \in Threads : pc'[u] \in EnqOwner /\ pos[u] = p
                      \/ /\ d + 1 <= p
                         /\ sequence[Cell(p)] = p + 1
                      \/ /\ p < d + 1
                         /\ sequence[Cell(p)] = p + 1
                         /\ \E u \in Threads : pc'[u] \in DeqOwner /\ pos[u] = p
                      \/ /\ p < d + 1
                         /\ sequence[Cell(p)] = p + Capacity
    BY <1>1 DEF TicketInv, Window
  <2>1. CASE p = d
    BY <2>1, <1>1, <1>2 DEF DeqOwner, TypeOK
  <2>2. CASE p # d
    <3>1. p \in Int
      BY <1>1, CapacityType DEF Window
    <3> QED
      BY <2>2, <3>1, <1>1, <1>5 DEF TicketInv, Owns
  <2> QED
    BY <2>1, <2>2
<1>9. OwnerInv'
  <2>1. ASSUME NEW u \in Threads, pc'[u] \in EnqOwner
        PROVE  /\ pos'[u] \in dequeue_pos' .. (enqueue_pos' - 1)
               /\ sequence'[Cell(pos'[u])] = pos'[u]
    <3>1. u # t /\ pc[u] \in EnqOwner
      BY <2>1, <1>1 DEF EnqOwner, TypeOK
    <3> QED
      BY <3>1, <1>1, <1>7 DEF OwnerInv, Owns
  <2>2. ASSUME NEW u \in Threads, pc'[u] \in DeqOwner
        PROVE  /\ pos'[u] \in (enqueue_pos' - Capacity) .. (dequeue_pos' - 1)
               /\ sequence'[Cell(pos'[u])] = pos'[u] + 1
    <3>1. CASE u = t
      BY <3>1, <1>1, <1>2, CapacityType DEF PositionInv
    <3>2. CASE u # t
      BY <2>2, <3>2, <1>1, CapacityType DEF OwnerInv, TypeOK
    <3> QED
      BY <3>1, <3>2
  <2>3. ASSUME NEW u \in Threads, NEW v \in Threads,
               Owns(u)', Owns(v)', pos'[u] = pos'[v]
        PROVE  u = v
    BY <2>3, <1>1, <1>6, <1>7 DEF OwnerInv
  <2> QED
    BY <2>1, <2>2, <2>3 DEF OwnerInv
<1>10. CasInv'
  BY <1>1 DEF CasInv, TypeOK
<1> QED
  BY <1>3, <1>4, <1>8, <1>9, <1>10

\* A thread that has loaded a position, checked a cell or failed a
\* compare-and-swap relies on nothing another thread may still change.
LEMMA UnownedQueueStep ==
  ASSUME QueueInv, TypeOK', NEW t \in Threads, NEW to \in PCs,
         ~Owns(t), to \notin EnqOwner \cup DeqOwner,
         pc' = [pc EXCEPT ![t] = to],
         \A u \in Threads : u # t => pos'[u] = pos[u],
         UNCHANGED <<sequence, enqueue_pos, dequeue_pos>>,
         to \in {"enqCheck", "enqCas"} => pos'[t] <= enqueue_pos,
         to \in {"deqCheck", "deqCas"} => pos'[t] <= dequeue_pos,
         to = "enqCas" => sequence[Cell(pos'[t])] = pos'[t],
         to = "deqCas" => sequence[Cell(pos'[t])] = pos'[t] + 1
  PROVE  QueueInv'
<1>1. PositionInv' /\ TicketInv' /\ OwnerInv'
  BY UnownedStep
<1>2. CasInv'
  <2> SUFFICES ASSUME NEW u \in Threads
               PROVE  /\ pc'[u] \in {"enqCheck", "enqCas"} => pos'[u] <= enqueue_pos
                      /\ pc'[u] \in {"deqCheck", "deqCas"} => pos'[u] <= dequeue_pos
                      /\ pc'[u] = "enqCas" /\ pos'[u] = enqueue_pos =>
                           sequence[Cell(pos'[u])] = pos'[u]
                      /\ pc'[u] = "deqCas" /\ pos'[u] = dequeue_pos =>
                           sequence[Cell(pos'[u])] = pos'[u] + 1
    BY DEF CasInv
  <2>1. CASE u = t
    BY <2>1 DEF QueueInv, TypeOK
  <2>2. CASE u # t
    BY <2>2 DEF QueueInv, TypeOK, CasInv
  <2> QED
    BY <2>1, <2>2
<1> QED
  BY <1>1, <1>2 DEF QueueInv

\* The invariant is inductive.
LEMMA QueueInvStep == QueueInv /\ [Next]_vars => QueueInv'
<1> SUFFICES ASSUME QueueInv, [Next]_vars PROVE QueueInv'
  OBVIOUS
<1>0. TypeOK /\ TypeOK'
  BY TypeStep DEF QueueInv
<1>1. CASE UNCHANGED vars
  BY <1>1 DEF vars, QueueInv, TypeOK, PositionInv, TicketInv, Window, OwnerInv,
              Owns, CasInv
<1>2. ASSUME NEW t \in Threads, EnqStep(t) PROVE QueueInv'
  <2> USE DEF Goto, Return, Owns, EnqOwner, DeqOwner, PCs
  <2>1. CASE \E x \in Items : EnqInvoke(t, x)
    BY <2>1, <1>0, UnownedQueueStep DEF EnqInvoke
  <2>2. CASE EnqLoad(t)
    <3>1. pos'[t] <= enqueue_pos /\ \A u \in Threads : u # t => pos'[u] = pos[u]
      BY <2>2, <1>0 DEF EnqLoad, TypeOK
    <3> QED
      BY <2>2, <1>0, <3>1, UnownedQueueStep DEF EnqLoad
  <2>3. CASE EnqCheckFree(t)
    BY <2>3, <1>0, UnownedQueueStep DEF EnqCheckFree, QueueInv, CasInv
  <2>4. CASE EnqCheckStale(t)
    BY <2>4, <1>0, UnownedQueueStep DEF EnqCheckStale
  <2>5. CASE EnqCheckFull(t)
    BY <2>5, <1>0, UnownedQueueStep DEF EnqCheckFull, TypeOK
  <2>6. CASE EnqCas(t)
    BY <2>6, <1>0, EnqCasStep
  <2>7. CASE EnqCasFail(t)
    <3>1. pos'[t] <= enqueue_pos /\ \A u \in Threads : u # t => pos'[u] = pos[u]
      BY <2>7, <1>0 DEF EnqCasFail, TypeOK
    <3> QED
      BY <2>7, <1>0, <3>1, UnownedQueueStep DEF EnqCasFail
  <2>8. CASE EnqWrite(t)
    BY <2>8, <1>0, OwnedStep DEF EnqWrite
  <2>9. CASE EnqPublish(t)
    <3>1. pos[t] + 1 \in Nat
      BY <1>0 DEF TypeOK
    <3> QED
      BY <2>9, <1>0, <3>1, GiveUpStep DEF EnqPublish
  <2>10. CASE EnqCount(t)
    BY <2>10, <1>0, UnownedQueueStep DEF EnqCount, TypeOK
  <2> QED
    BY <1>2, <2>1, <2>2, <2>3, <2>4, <2>5, <2>6, <2>7, <2>8, <2>9, <2>10 DEF EnqStep
<1>3. ASSUME NEW t \in Threads, DeqStep(t) PROVE QueueInv'
  <2> USE DEF Goto, Return, Owns, EnqOwner, DeqOwner, PCs
  <2>1. CASE DeqInvoke(t)
    BY <2>1, <1>0, UnownedQueueStep DEF DeqInvoke
  <2>2. CASE DeqLoad(t)
    <3>1. pos'[t] <= dequeue_pos /\ \A u \in Threads : u # t => pos'[u] = pos[u]
      BY <2>2, <1>0 DEF DeqLoad, TypeOK
    <3> QED
      BY <2>2, <1>0, <3>1, UnownedQueueStep DEF DeqLoad
  <2>3. CASE DeqCheckReady(t)
    BY <2>3, <1>0, UnownedQueueStep DEF DeqCheckReady, QueueInv, CasInv
  <2>4. CASE DeqCheckStale(t)
    BY <2>4, <1>0, UnownedQueueStep DEF DeqCheckStale
  <2>5. CASE DeqCheckEmpty(t)
    BY <2>5, <1>0, UnownedQueueStep DEF DeqCheckEmpty, TypeOK
  <2>6. CASE DeqCas(t)
    BY <2>6, <1>0, DeqCasStep
  <2>7. CASE DeqCasFail(t)
    <3>1. pos'[t] <= dequeue_pos /\ \A u \in Threads : u # t => pos'[u] = pos[u]
      BY <2>7, <1>0 DEF DeqCasFail, TypeOK
    <3> QED
      BY <2>7, <1>0, <3>1, UnownedQueueStep DEF DeqCasFail
  <2>8. CASE DeqRead(t)
    BY <2>8, <1>0, OwnedStep DEF DeqRead
  <2>9. CASE DeqClear(t)
    BY <2>9, <1>0, OwnedStep DEF DeqClear
  <2>10. CASE DeqRelease(t)
    <3>1. pos[t] + Capacity \in Nat
      BY <1>0, CapacityType DEF TypeOK
    <3> QED
      BY <2>10, <1>0, <3>1, GiveUpStep DEF DeqRelease
  <2>11. CASE DeqCount(t)
    BY <2>11, <1>0, UnownedQueueStep DEF DeqCount, TypeOK
  <2> QED
    BY <1>3, <2>1, <2>2, <2>3, <2>4, <2>5, <2>6, <2>7, <2>8, <2>9, <2>10, <2>11
       DEF DeqStep
<1> QED
  BY <1>1, <1>2, <1>3 DEF Next

\* The queue's structure holds in every reachable state: positions at most a lap
\* apart, every cell in the condition its sequence number tells, one owner per
\* ticket, and every compare-and-swap that can still succeed justified.
THEOREM QueueInvariant == Spec => []QueueInv
BY QueueInvInit, QueueInvStep, PTL DEF Spec

\* No two threads ever access the same cell's data_ (lines 62, 89, 94) at once,
\* whatever the number of threads and the capacity.
THEOREM NoDataRace == Spec => []ExclusiveCells
<1>1. QueueInv => ExclusiveCells
  <2> SUFFICES ASSUME QueueInv, NEW t \in Threads, NEW u \in Threads,
                      Owns(t), Owns(u), Cell(pos[t]) = Cell(pos[u]), t # u
               PROVE  FALSE
    BY DEF ExclusiveCells
  <2> QED
    BY OtherCells
<1> QED
  BY <1>1, QueueInvariant, PTL
------------------------------------------------------------------------------
(* No stale reference                                                       *)

\* A dequeue that has emptied its cell and not yet given it back finds it empty still.
ClearedInv ==
  \A t \in Threads : pc[t] = "deqRelease" => data[Cell(pos[t])] = NoItem

StaleInv == NoStaleReference /\ ClearedInv

\* Two owners are in different cells (NoDataRace, as a lemma about states).
LEMMA OwnersApart ==
  ASSUME QueueInv, NEW t \in Threads, NEW u \in Threads, Owns(t), Owns(u), t # u
  PROVE  Cell(pos[t]) # Cell(pos[u])
BY OtherCells

\* A step that leaves the cells and the end of the queue alone, and brings nobody to
\* deqRelease.
LEMMA StaleUnchanged ==
  ASSUME StaleInv, QueueInv, QueueInv',
         UNCHANGED <<sequence, data, enqueue_pos>>,
         \A u \in Threads : pc'[u] = "deqRelease" => pc[u] = "deqRelease" /\ pos'[u] = pos[u]
  PROVE  StaleInv'
<1>1. NoStaleReference'
  BY DEF StaleInv, NoStaleReference, Window
<1>2. ClearedInv'
  BY DEF StaleInv, ClearedInv
<1> QED
  BY <1>1, <1>2 DEF StaleInv

\* The window moves on: its new ticket is being filled.
LEMMA StaleEnqCas ==
  ASSUME StaleInv, QueueInv, NEW t \in Threads, EnqCas(t)
  PROVE  StaleInv'
<1>1. /\ enqueue_pos \in Nat /\ enqueue_pos' = enqueue_pos + 1
      /\ sequence' = sequence /\ data' = data /\ pos' = pos
  BY DEF EnqCas, QueueInv, TypeOK
<1>2. sequence[Cell(enqueue_pos)] = enqueue_pos
  BY DEF EnqCas, Goto, QueueInv, CasInv
<1>3. ASSUME NEW p \in Window', sequence[Cell(p)] = p + Capacity
      PROVE  data[Cell(p)] = NoItem
  <2>1. p \in Window \/ p = enqueue_pos
    BY <1>1, CapacityType DEF Window
  <2>2. p # enqueue_pos
    BY <1>1, <1>2, <1>3, CapacityType
  <2> QED
    BY <1>3, <2>1, <2>2 DEF StaleInv, NoStaleReference
<1>4. NoStaleReference'
  BY <1>1, <1>3 DEF NoStaleReference
<1>5. \A u \in Threads : pc'[u] = "deqRelease" => pc[u] = "deqRelease"
  BY DEF EnqCas, Goto, QueueInv, TypeOK
<1>6. ClearedInv'
  BY <1>1, <1>5 DEF StaleInv, ClearedInv
<1> QED
  BY <1>4, <1>6 DEF StaleInv

\* The owner of a ticket changes its cell: no other ticket's cell, and no other owner's.
LEMMA StaleOwnerStep ==
  ASSUME StaleInv, QueueInv, NEW t \in Threads, Owns(t),
         UNCHANGED <<enqueue_pos, pos>>,
         \A u \in Threads : u # t => pc'[u] = pc[u],
         \A c \in Cells : c # Cell(pos[t]) => sequence'[c] = sequence[c] /\ data'[c] = data[c],
         \/ sequence'[Cell(pos[t])] # pos[t] + Capacity
         \/ data'[Cell(pos[t])] = NoItem,
         pc'[t] = "deqRelease" => data'[Cell(pos[t])] = NoItem
  PROVE  StaleInv'
<1>1. \A p \in Window : p \in Int /\ Cell(p) \in Cells
  BY CellType, CapacityType DEF Window, QueueInv, TypeOK
<1>2. ASSUME NEW p \in Window, sequence'[Cell(p)] = p + Capacity
      PROVE  data'[Cell(p)] = NoItem
  <2>1. CASE p = pos[t]
    BY <1>2, <2>1
  <2>2. CASE p # pos[t]
    <3>1. Cell(p) # Cell(pos[t])
      BY <2>2, OtherCells
    <3> QED
      BY <1>1, <1>2, <3>1 DEF StaleInv, NoStaleReference
  <2> QED
    BY <2>1, <2>2
<1>3. NoStaleReference'
  BY <1>2 DEF NoStaleReference, Window
<1>4. ASSUME NEW u \in Threads, pc'[u] = "deqRelease" PROVE data'[Cell(pos[u])] = NoItem
  <2>1. CASE u = t
    BY <1>4, <2>1
  <2>2. CASE u # t
    <3>1. pc[u] = "deqRelease" /\ Owns(u)
      BY <1>4, <2>2 DEF Owns, DeqOwner
    <3>2. Cell(pos[u]) # Cell(pos[t]) /\ pos[u] \in Nat
      BY <2>2, <3>1, OwnersApart DEF QueueInv, TypeOK
    <3>3. Cell(pos[u]) \in Cells
      BY <3>2, CellType
    <3> QED
      BY <3>1, <3>2, <3>3 DEF StaleInv, ClearedInv
  <2> QED
    BY <2>1, <2>2
<1>5. ClearedInv'
  BY <1>4 DEF ClearedInv
<1> QED
  BY <1>3, <1>5 DEF StaleInv

\* Every step keeps the cells of the next lap free of references.
LEMMA StaleStep ==
  ASSUME StaleInv, QueueInv, QueueInv', [Next]_vars
  PROVE  StaleInv'
<1> USE DEF Goto, Return
<1>0. pc \in [Threads -> PCs] /\ pos \in [Threads -> Nat] /\ data \in [Cells -> Items \cup {NoItem}]
      /\ sequence \in [Cells -> Nat]
  BY DEF QueueInv, TypeOK
<1>1. CASE UNCHANGED vars
  BY <1>1, StaleUnchanged DEF vars
<1>2. ASSUME NEW t \in Threads, EnqStep(t) PROVE StaleInv'
  <2>1. CASE EnqWrite(t) \/ EnqPublish(t)
    <3>1. Owns(t) /\ pos[t] \in Nat /\ Cell(pos[t]) \in Cells
      BY <1>0, <2>1, CellType DEF EnqWrite, EnqPublish, Owns, EnqOwner
    <3>2. sequence[Cell(pos[t])] = pos[t]
      BY <2>1 DEF EnqWrite, EnqPublish, EnqOwner, QueueInv, OwnerInv
    <3>3. sequence'[Cell(pos[t])] # pos[t] + Capacity
      BY <1>0, <2>1, <3>1, <3>2, CapacityType DEF EnqWrite, EnqPublish
    <3> QED
      BY <1>0, <2>1, <3>1, <3>3, StaleOwnerStep DEF EnqWrite, EnqPublish
  <2>2. CASE EnqCas(t)
    BY <2>2, StaleEnqCas
  <2>3. CASE \/ \E x \in Items : EnqInvoke(t, x)
             \/ EnqLoad(t) \/ EnqCheckFree(t) \/ EnqCheckStale(t) \/ EnqCheckFull(t)
             \/ EnqCasFail(t) \/ EnqCount(t)
    <3>1. /\ UNCHANGED <<sequence, data, enqueue_pos>>
          /\ pc'[t] # "deqRelease"
          /\ \A u \in Threads : u # t => pc'[u] = pc[u] /\ pos'[u] = pos[u]
      BY <1>0, <2>3
         DEF EnqInvoke, EnqLoad, EnqCheckFree, EnqCheckStale, EnqCheckFull, EnqCasFail,
             EnqCount
    <3> QED
      BY <3>1, StaleUnchanged
  <2> QED
    BY <1>2, <2>1, <2>2, <2>3 DEF EnqStep
<1>3. ASSUME NEW t \in Threads, DeqStep(t) PROVE StaleInv'
  <2>1. CASE DeqClear(t)
    <3>1. Owns(t) /\ pos[t] \in Nat /\ Cell(pos[t]) \in Cells
      BY <1>0, <2>1, CellType DEF DeqClear, Owns, DeqOwner
    <3> QED
      BY <1>0, <2>1, <3>1, StaleOwnerStep DEF DeqClear
  <2>2. CASE DeqRelease(t)
    <3>1. Owns(t) /\ pos[t] \in Nat /\ Cell(pos[t]) \in Cells
      BY <1>0, <2>2, CellType DEF DeqRelease, Owns, DeqOwner
    <3>2. data'[Cell(pos[t])] = NoItem
      BY <2>2 DEF DeqRelease, StaleInv, ClearedInv
    <3> QED
      BY <1>0, <2>2, <3>1, <3>2, StaleOwnerStep DEF DeqRelease
  <2>3. CASE \/ DeqInvoke(t) \/ DeqLoad(t) \/ DeqCheckReady(t) \/ DeqCheckStale(t)
             \/ DeqCheckEmpty(t) \/ DeqCas(t) \/ DeqCasFail(t) \/ DeqRead(t) \/ DeqCount(t)
    <3>1. /\ UNCHANGED <<sequence, data, enqueue_pos>>
          /\ pc'[t] # "deqRelease"
          /\ \A u \in Threads : u # t => pc'[u] = pc[u] /\ pos'[u] = pos[u]
      BY <1>0, <2>3
         DEF DeqInvoke, DeqLoad, DeqCheckReady, DeqCheckStale, DeqCheckEmpty, DeqCas,
             DeqCasFail, DeqRead, DeqCount
    <3> QED
      BY <3>1, StaleUnchanged
  <2> QED
    BY <1>3, <2>1, <2>2, <2>3 DEF DeqStep
<1> QED
  BY <1>1, <1>2, <1>3 DEF Next

LEMMA StaleInit == Init => StaleInv
<1> SUFFICES ASSUME Init PROVE StaleInv
  OBVIOUS
<1>1. ASSUME NEW p \in Window PROVE data[Cell(p)] = NoItem
  <2>1. p \in Int
    BY CapacityType DEF Init, Window
  <2> QED
    BY <2>1, CellType DEF Init
<1>2. ClearedInv
  BY DEF Init, ClearedInv
<1> QED
  BY <1>1, <1>2 DEF StaleInv, NoStaleReference

\* A cell that waits for the next lap holds no reference (comment at lines 90-91), whatever
\* the number of threads and the capacity: a job that has been handed out is not kept alive.
THEOREM NoReferenceIsKept == Spec => []NoStaleReference
<1>1. StaleInv => NoStaleReference
  BY DEF StaleInv
<1>2. StaleInv /\ QueueInv /\ QueueInv' /\ [Next]_vars => StaleInv'
  BY StaleStep
<1> QED
  BY <1>1, <1>2, StaleInit, QueueInvariant, PTL DEF Spec
------------------------------------------------------------------------------
(* m_size counts the items                                                  *)

\* The number that m_size stands for.
Counted ==
  enqueue_pos - dequeue_pos - Cardinality(UncountedPuts) + Cardinality(UncountedTakes)

LEMMA CountedType ==
  ASSUME IsFiniteSet(Threads), TypeOK
  PROVE  /\ Counted \in Int
         /\ Cardinality(UncountedPuts) \in Nat /\ Cardinality(UncountedTakes) \in Nat
<1>1. UncountedPuts \in SUBSET Threads /\ UncountedTakes \in SUBSET Threads
  BY DEF UncountedPuts, UncountedTakes
<1>2. Cardinality(UncountedPuts) \in Nat /\ Cardinality(UncountedTakes) \in Nat
  BY <1>1, FS_Subset, FS_CardinalityType
<1> QED
  BY <1>2 DEF Counted, TypeOK

LEMMA SizeInit ==
  ASSUME ZeroedStorage, Init
  PROVE  SizeCountsItems
<1>1. UncountedPuts = {} /\ UncountedTakes = {}
  BY DEF Init, UncountedPuts, UncountedTakes, EnqOwner, DeqOwner
<1>2. Cardinality(UncountedPuts) = 0 /\ Cardinality(UncountedTakes) = 0
  BY <1>1, FS_EmptySet
<1>3. 0 % SizeMod = 0
  BY ConstantsAssumption
<1> QED
  BY <1>2, <1>3 DEF Init, SizeCountsItems

\* Whoever takes a ticket has still to count, and whoever counts leaves.
LEMMA SizeStep ==
  ASSUME IsFiniteSet(Threads), TypeOK, TypeOK', SizeCountsItems, [Next]_vars
  PROVE  SizeCountsItems'
<1> USE DEF Goto, Return, EnqOwner, DeqOwner, PCs
<1> DEFINE P == Cardinality(UncountedPuts)
           T == Cardinality(UncountedTakes)
<1>0. /\ pc \in [Threads -> PCs] /\ enqueue_pos \in Nat /\ dequeue_pos \in Nat
      /\ pos \in [Threads -> Nat]
  BY DEF TypeOK
<1>1. /\ UncountedPuts \in SUBSET Threads /\ UncountedTakes \in SUBSET Threads
      /\ P \in Nat /\ T \in Nat /\ Counted \in Int
      /\ m_size = Counted % SizeMod /\ Counted = enqueue_pos - dequeue_pos - P + T
  BY CountedType DEF UncountedPuts, UncountedTakes, SizeCountsItems, Counted
<1>2. SUFFICES m_size' = Counted' % SizeMod
  BY DEF SizeCountsItems, Counted
<1>3. Counted' = enqueue_pos' - dequeue_pos' - P' + T'
  BY DEF Counted
<1>4. ASSUME UNCHANGED <<enqueue_pos, dequeue_pos, m_size, UncountedPuts, UncountedTakes>>
      PROVE  m_size' = Counted' % SizeMod
  BY <1>1, <1>4 DEF Counted
<1>5. CASE UNCHANGED vars
  BY <1>4, <1>5 DEF vars, UncountedPuts, UncountedTakes
<1>6. ASSUME NEW t \in Threads, EnqStep(t) \/ DeqStep(t)
      PROVE  m_size' = Counted' % SizeMod
  <2>1. CASE EnqCas(t)
    <3>1. /\ UncountedPuts' = UncountedPuts \cup {t} /\ t \notin UncountedPuts
          /\ UncountedTakes' = UncountedTakes
      BY <1>0, <2>1 DEF EnqCas, UncountedPuts, UncountedTakes
    <3>2. P' = P + 1 /\ T' = T
      BY <1>1, <3>1, ThreadEnters
    <3>3. enqueue_pos' = enqueue_pos + 1 /\ dequeue_pos' = dequeue_pos /\ m_size' = m_size
      BY <2>1 DEF EnqCas
    <3>4. Counted' = Counted
      BY <1>0, <1>1, <1>3, <3>2, <3>3
    <3> QED
      BY <1>1, <3>3, <3>4
  <2>2. CASE EnqCount(t)
    <3>1. /\ UncountedPuts' = UncountedPuts \ {t} /\ t \in UncountedPuts
          /\ UncountedTakes' = UncountedTakes
      BY <1>0, <2>2 DEF EnqCount, UncountedPuts, UncountedTakes
    <3>2. P' = P - 1 /\ T' = T
      BY <1>1, <3>1, ThreadLeaves
    <3>3. /\ enqueue_pos' = enqueue_pos /\ dequeue_pos' = dequeue_pos
          /\ m_size' = (m_size + 1) % SizeMod
      BY <2>2 DEF EnqCount
    <3>4. Counted' = Counted + 1
      BY <1>0, <1>1, <1>3, <3>2, <3>3
    <3> QED
      BY <1>1, <3>3, <3>4, CountReduced, ConstantsAssumption
  <2>3. CASE DeqCas(t)
    <3>1. /\ UncountedTakes' = UncountedTakes \cup {t} /\ t \notin UncountedTakes
          /\ UncountedPuts' = UncountedPuts
      BY <1>0, <2>3 DEF DeqCas, UncountedPuts, UncountedTakes
    <3>2. P' = P /\ T' = T + 1
      BY <1>1, <3>1, ThreadEnters
    <3>3. enqueue_pos' = enqueue_pos /\ dequeue_pos' = dequeue_pos + 1 /\ m_size' = m_size
      BY <2>3 DEF DeqCas
    <3>4. Counted' = Counted
      BY <1>0, <1>1, <1>3, <3>2, <3>3
    <3> QED
      BY <1>1, <3>3, <3>4
  <2>4. CASE DeqCount(t)
    <3>1. /\ UncountedTakes' = UncountedTakes \ {t} /\ t \in UncountedTakes
          /\ UncountedPuts' = UncountedPuts
      BY <1>0, <2>4 DEF DeqCount, UncountedPuts, UncountedTakes
    <3>2. P' = P /\ T' = T - 1
      BY <1>1, <3>1, ThreadLeaves
    <3>3. /\ enqueue_pos' = enqueue_pos /\ dequeue_pos' = dequeue_pos
          /\ m_size' = (m_size - 1) % SizeMod
      BY <2>4 DEF DeqCount
    <3>4. Counted' = Counted + (-1)
      BY <1>0, <1>1, <1>3, <3>2, <3>3
    <3>5. m_size - 1 = m_size + (-1)
      BY DEF TypeOK
    <3> QED
      BY <1>1, <3>3, <3>4, <3>5, CountReduced, ConstantsAssumption
  <2>5. CASE \/ \E x \in Items : EnqInvoke(t, x)
             \/ EnqLoad(t) \/ EnqCheckFree(t) \/ EnqCheckStale(t) \/ EnqCheckFull(t)
             \/ EnqCasFail(t) \/ EnqWrite(t) \/ EnqPublish(t)
    BY <1>0, <1>4, <2>5
       DEF EnqInvoke, EnqLoad, EnqCheckFree, EnqCheckStale, EnqCheckFull, EnqCasFail,
           EnqWrite, EnqPublish, UncountedPuts, UncountedTakes
  <2>6. CASE \/ DeqInvoke(t) \/ DeqLoad(t) \/ DeqCheckReady(t) \/ DeqCheckStale(t)
             \/ DeqCheckEmpty(t) \/ DeqCasFail(t) \/ DeqRead(t) \/ DeqClear(t) \/ DeqRelease(t)
    BY <1>0, <1>4, <2>6
       DEF DeqInvoke, DeqLoad, DeqCheckReady, DeqCheckStale, DeqCheckEmpty, DeqCasFail,
           DeqRead, DeqClear, DeqRelease, UncountedPuts, UncountedTakes
  <2> QED
    BY <1>6, <2>1, <2>2, <2>3, <2>4, <2>5, <2>6 DEF EnqStep, DeqStep
<1> QED
  BY <1>5, <1>6 DEF Next

\* With finitely many threads, and a queue in storage that starts as zeros, m_size is the
\* number of items up to the calls that have still to count (lines 64, 98), also while it is
\* below zero.
THEOREM SizeIsExact ==
  ASSUME IsFiniteSet(Threads), ZeroedStorage
  PROVE  Spec => []SizeCountsItems
<1>1. Init => SizeCountsItems
  BY SizeInit
<1>2. TypeOK /\ TypeOK' /\ SizeCountsItems /\ [Next]_vars => SizeCountsItems'
  BY SizeStep
<1>3. QueueInv => TypeOK
  BY DEF QueueInv
<1> QED
  BY <1>1, <1>2, <1>3, QueueInvariant, PTL DEF Spec

------------------------------------------------------------------------------
(* LockFreeQueue implements BoundedFIFO under the mapping of its last section. *)
(* A successful compare-and-swap is the step at which a call takes effect; the  *)
(* loads, the checks, the accesses to data_ and the stores of sequence numbers   *)
(* are stuttering steps.                                                        *)

\* What the mapping needs and no lemma above keeps: an item that is written and not yet
\* published is in its cell.
WrittenInv == \A t \in Threads : pc[t] = "enqPublish" => data[Cell(pos[t])] = item[t]

RefinementInv == QueueInv /\ WrittenInv

------------------------------------------------------------------------------
(* The items of the window                                                  *)

\* A position that has been passed has a ticket of the last lap in its cell.
LEMMA WindowTicket ==
  ASSUME TypeOK, NEW p \in Int, p < enqueue_pos
  PROVE  \E q \in Window : q >= p /\ Cell(q) = Cell(p)
<1> DEFINE x == enqueue_pos - 1 - p
           k == x \div Capacity
           r == x % Capacity
           q == enqueue_pos - 1 - r
           a == p \div Capacity
           b == q \div Capacity
           A == Capacity * a
           B == Capacity * b
           K == Capacity * k
<1>1. Capacity \in Nat \ {0} /\ enqueue_pos \in Nat /\ x \in Nat
  BY CapacityType DEF TypeOK
<1>2. k \in Int /\ r \in 0 .. Capacity - 1 /\ x = K + r
  BY <1>1, Division
<1>3. a \in Int /\ Cell(p) \in 0 .. Capacity - 1 /\ p = A + Cell(p)
  BY CellDivision
<1>4. q \in Int
  BY <1>1, <1>2
<1>5. b \in Int /\ Cell(q) \in 0 .. Capacity - 1 /\ q = B + Cell(q)
  BY <1>4, CellDivision
<1>6. k >= 0
  <2>1. CASE k < 0
    <3>1. Capacity * (-k) >= Capacity
      BY <1>2, <2>1, MultipleBound
    <3>2. K = -(Capacity * (-k))
      BY <1>1, <1>2
    <3> QED
      BY <1>1, <1>2, <3>1, <3>2
  <2> QED
    BY <1>2, <2>1
<1>7. K \in Nat /\ A \in Int /\ B \in Int /\ Capacity * (a + k - b) = A + K - B
  BY <1>1, <1>2, <1>3, <1>5, <1>6, SMT
<1> HIDE DEF k, r, a, b, A, B, K
<1>8. q = p + K
  BY <1>1, <1>2, <1>3, <1>7
<1>9. Cell(q) - Cell(p) = Capacity * (a + k - b) /\ a + k - b \in Int
  BY <1>1, <1>2, <1>3, <1>5, <1>7, <1>8
<1>10. Cell(q) = Cell(p)
  BY <1>1, <1>3, <1>5, <1>9, EqualRemainders
<1>11. q \in Window /\ q >= p
  BY <1>1, <1>2, <1>7, <1>8 DEF Window
<1> QED
  BY <1>10, <1>11

\* The item of a ticket is with the thread that has still to write it, or else in the cell.
ItemPlaces ==
  \A p \in Int :
    /\ \A t \in Threads : pc[t] = "enqWrite" /\ pos[t] = p => ItemAt(p) = item[t]
    /\ (\A t \in Threads : pc[t] = "enqWrite" => pos[t] # p) => ItemAt(p) = data[Cell(p)]

LEMMA ItemAtValue == QueueInv => ItemPlaces
<1> SUFFICES ASSUME QueueInv, NEW p \in Int
             PROVE  /\ \A t \in Threads : pc[t] = "enqWrite" /\ pos[t] = p => ItemAt(p) = item[t]
                    /\ (\A t \in Threads : pc[t] = "enqWrite" => pos[t] # p)
                         => ItemAt(p) = data[Cell(p)]
  BY DEF ItemPlaces
<1>1. ASSUME NEW t \in Threads, pc[t] = "enqWrite", pos[t] = p PROVE ItemAt(p) = item[t]
  <2> DEFINE u == CHOOSE v \in Threads : pc[v] = "enqWrite" /\ pos[v] = p
  <2>1. u \in Threads /\ pc[u] = "enqWrite" /\ pos[u] = p
    BY <1>1
  <2>2. u = t
    BY <1>1, <2>1 DEF QueueInv, OwnerInv, Owns, EnqOwner
  <2> QED
    BY <1>1, <2>2 DEF ItemAt
<1>2. ASSUME \A t \in Threads : pc[t] = "enqWrite" => pos[t] # p
      PROVE  ItemAt(p) = data[Cell(p)]
  BY <1>2 DEF ItemAt
<1> QED
  BY <1>1, <1>2

\* The same in the next state.
LEMMA ItemAtNext == QueueInv' => ItemPlaces'
BY ItemAtValue, PTL

\* A step changes no item of the window if it changes no cell of it and nobody comes to
\* write or ceases to.
LEMMA SameItem ==
  ASSUME QueueInv, QueueInv', NEW p \in Int,
         data'[Cell(p)] = data[Cell(p)],
         \A u \in Threads : /\ pc'[u] = "enqWrite" <=> pc[u] = "enqWrite"
                            /\ pc[u] = "enqWrite" => pos'[u] = pos[u] /\ item'[u] = item[u]
  PROVE  ItemAt(p)' = ItemAt(p)
<1>1. CASE \E t \in Threads : pc[t] = "enqWrite" /\ pos[t] = p
  BY <1>1, ItemAtValue, ItemAtNext DEF ItemPlaces
<1>2. CASE \A t \in Threads : pc[t] = "enqWrite" => pos[t] # p
  BY <1>2, ItemAtValue, ItemAtNext DEF ItemPlaces
<1> QED
  BY <1>1, <1>2

\* The contents of the queue as a sequence.
LEMMA ContentsShape ==
  ASSUME TypeOK, PositionInv
  PROVE  /\ Len(Contents) = enqueue_pos - dequeue_pos
         /\ DOMAIN Contents = 1 .. enqueue_pos - dequeue_pos
         /\ \A i \in 1 .. enqueue_pos - dequeue_pos : Contents[i] = ItemAt(dequeue_pos + i - 1)
         /\ Len(Contents) \in Nat
<1>1. enqueue_pos - dequeue_pos \in Nat
  BY DEF TypeOK, PositionInv
<1> QED
  BY <1>1 DEF Contents

LEMMA SameContents ==
  ASSUME TypeOK, UNCHANGED <<enqueue_pos, dequeue_pos>>,
         \A p \in dequeue_pos .. enqueue_pos - 1 : ItemAt(p)' = ItemAt(p)
  PROVE  Contents' = Contents
<1>1. \A i \in 1 .. enqueue_pos - dequeue_pos : dequeue_pos + i - 1 \in dequeue_pos .. enqueue_pos - 1
  BY DEF TypeOK
<1>2. ASSUME NEW i \in 1 .. enqueue_pos - dequeue_pos
      PROVE  ItemAt(dequeue_pos + i - 1)' = ItemAt(dequeue_pos + i - 1)
  <2> PICK p \in dequeue_pos .. enqueue_pos - 1 : p = dequeue_pos + i - 1
    BY <1>1
  <2> QED
    OBVIOUS
<1> QED
  BY <1>2 DEF Contents

------------------------------------------------------------------------------
(* Written items                                                            *)

LEMMA WrittenStep ==
  ASSUME WrittenInv, QueueInv, QueueInv', [Next]_vars
  PROVE  WrittenInv'
<1> USE DEF Goto, Return
<1>0. pc \in [Threads -> PCs] /\ pos \in [Threads -> Nat] /\ item \in [Threads -> Items \cup {NoItem}]
      /\ data \in [Cells -> Items \cup {NoItem}]
  BY DEF QueueInv, TypeOK
\* Nobody's written item is disturbed when no cell changes.
<1>1. ASSUME data' = data,
             \A u \in Threads : pc'[u] = "enqPublish" =>
               pc[u] = "enqPublish" /\ pos'[u] = pos[u] /\ item'[u] = item[u]
      PROVE  WrittenInv'
  BY <1>1 DEF WrittenInv
\* A ticket's owner changes its cell, which is nobody else's.
<1>2. ASSUME NEW t \in Threads, Owns(t), pos' = pos, item' = item,
             \A u \in Threads : u # t => pc'[u] = pc[u],
             \A c \in Cells : c # Cell(pos[t]) => data'[c] = data[c],
             pc'[t] = "enqPublish" => data'[Cell(pos[t])] = item[t]
      PROVE  WrittenInv'
  <2> SUFFICES ASSUME NEW u \in Threads, pc'[u] = "enqPublish"
               PROVE  data'[Cell(pos[u])] = item[u]
    BY <1>2 DEF WrittenInv
  <2>1. CASE u = t
    BY <1>2, <2>1
  <2>2. CASE u # t
    <3>1. pc[u] = "enqPublish" /\ Owns(u)
      BY <1>2, <2>2 DEF Owns, EnqOwner
    <3>2. Cell(pos[u]) # Cell(pos[t]) /\ Cell(pos[u]) \in Cells
      BY <1>0, <1>2, <2>2, <3>1, OwnersApart, CellType
    <3> QED
      BY <1>2, <3>1, <3>2 DEF WrittenInv
  <2> QED
    BY <2>1, <2>2
<1>3. CASE UNCHANGED vars
  BY <1>1, <1>3 DEF vars
<1>4. ASSUME NEW t \in Threads, EnqStep(t) PROVE WrittenInv'
  <2>1. CASE EnqWrite(t)
    <3>1. Owns(t) /\ Cell(pos[t]) \in Cells
      BY <1>0, <2>1, CellType DEF EnqWrite, Owns, EnqOwner
    <3> QED
      BY <1>0, <1>2, <2>1, <3>1 DEF EnqWrite
  <2>2. CASE EnqPublish(t)
    BY <1>0, <1>1, <2>2 DEF EnqPublish
  <2>3. CASE \/ \E x \in Items : EnqInvoke(t, x)
             \/ EnqLoad(t) \/ EnqCheckFree(t) \/ EnqCheckStale(t) \/ EnqCheckFull(t)
             \/ EnqCas(t) \/ EnqCasFail(t) \/ EnqCount(t)
    BY <1>0, <1>1, <2>3
       DEF EnqInvoke, EnqLoad, EnqCheckFree, EnqCheckStale, EnqCheckFull, EnqCas, EnqCasFail,
           EnqCount
  <2> QED
    BY <1>4, <2>1, <2>2, <2>3 DEF EnqStep
<1>5. ASSUME NEW t \in Threads, DeqStep(t) PROVE WrittenInv'
  <2>1. CASE DeqClear(t)
    <3>1. Owns(t) /\ Cell(pos[t]) \in Cells
      BY <1>0, <2>1, CellType DEF DeqClear, Owns, DeqOwner
    <3> QED
      BY <1>0, <1>2, <2>1, <3>1 DEF DeqClear
  <2>2. CASE \/ DeqInvoke(t) \/ DeqLoad(t) \/ DeqCheckReady(t) \/ DeqCheckStale(t)
             \/ DeqCheckEmpty(t) \/ DeqCas(t) \/ DeqCasFail(t) \/ DeqRead(t) \/ DeqRelease(t)
             \/ DeqCount(t)
    BY <1>0, <1>1, <2>2
       DEF DeqInvoke, DeqLoad, DeqCheckReady, DeqCheckStale, DeqCheckEmpty, DeqCas, DeqCasFail,
           DeqRead, DeqRelease, DeqCount
  <2> QED
    BY <1>5, <2>1, <2>2 DEF DeqStep
<1> QED
  BY <1>3, <1>4, <1>5 DEF Next

LEMMA RefinementInvariant == Spec => []RefinementInv
<1>1. Init => WrittenInv
  BY DEF Init, WrittenInv
<1>2. WrittenInv /\ QueueInv /\ QueueInv' /\ [Next]_vars => WrittenInv'
  BY WrittenStep
<1> QED
  BY <1>1, <1>2, QueueInvariant, PTL DEF Spec, RefinementInv

------------------------------------------------------------------------------
(* The steps                                                                *)

\* What the mapping says of a thread.
Seen(u) == <<CallOf(u), CarriedBy(u), SpanOf(u)>>

\* A step that changes nothing the mapping shows is a stuttering step.
LEMMA Stutter ==
  ASSUME Contents' = Contents, \A u \in Threads : Seen(u)' = Seen(u)
  PROVE  UNCHANGED FIFO!vars
BY DEF FIFO!vars, Seen

\* A step of one thread shows the others as they were, if it neither moves the end of the
\* queue nor changes a cell that one of them is about to read.
LEMMA OthersSeen ==
  ASSUME NEW t \in Threads, enqueue_pos' = enqueue_pos,
         \A u \in Threads : u # t => pc'[u] = pc[u] /\ pos'[u] = pos[u] /\ item'[u] = item[u],
         \A u \in Threads : u # t /\ pc[u] = "deqRead" => data'[Cell(pos[u])] = data[Cell(pos[u])]
  PROVE  \A u \in Threads : u # t => Seen(u)' = Seen(u)
BY DEF Seen, CallOf, CarriedBy, SpanOf

\* A step that moves a thread within its call and changes no cell: the loads, the checks
\* that let it go on, the failed compare-and-swaps and the stores of sequence numbers.
LEMMA WithinCall ==
  ASSUME RefinementInv, QueueInv', NEW t \in Threads, NEW to \in PCs,
         pc' = [pc EXCEPT ![t] = to],
         UNCHANGED <<data, enqueue_pos, dequeue_pos, item>>,
         \A u \in Threads : u # t => pos'[u] = pos[u],
         \/ {pc[t], to} \subseteq {"enqLoad", "enqCheck", "enqCas"}
         \/ {pc[t], to} \subseteq {"deqLoad", "deqCheck", "deqCas"}
         \/ pc[t] = "enqPublish" /\ to = "enqCount"
         \/ pc[t] = "deqRelease" /\ to = "deqCount" /\ pos'[t] = pos[t]
  PROVE  UNCHANGED FIFO!vars
<1>1. TypeOK
  BY DEF RefinementInv, QueueInv
<1>2. \A u \in Threads : u # t => pc'[u] = pc[u]
  BY <1>1 DEF TypeOK
<1>3. pc'[t] = to /\ pc[t] # "enqWrite" /\ to # "enqWrite"
  BY <1>1 DEF TypeOK
<1>4. Contents' = Contents
  <2> SUFFICES ASSUME NEW p \in dequeue_pos .. enqueue_pos - 1 PROVE ItemAt(p)' = ItemAt(p)
    BY <1>1, SameContents
  <2>1. p \in Int
    BY <1>1 DEF TypeOK
  <2> QED
    BY <1>2, <1>3, <2>1, SameItem DEF RefinementInv
<1>5. \A u \in Threads : u # t => Seen(u)' = Seen(u)
  BY <1>2, OthersSeen
<1>6. Seen(t)' = Seen(t)
  BY <1>3 DEF Seen, CallOf, CarriedBy, SpanOf, EnqOwner
<1> QED
  BY <1>4, <1>5, <1>6, Stutter

\* A call begins or returns: the queue stays as it is.
LEMMA CallBoundary ==
  ASSUME RefinementInv, QueueInv', NEW t \in Threads, NEW to \in PCs,
         pc' = [pc EXCEPT ![t] = to],
         UNCHANGED <<data, enqueue_pos, dequeue_pos>>,
         \A u \in Threads : u # t => pos'[u] = pos[u] /\ item'[u] = item[u],
         pc[t] # "enqWrite", to # "enqWrite"
  PROVE  /\ Contents' = Contents
         /\ \A u \in Threads : u # t => Seen(u)' = Seen(u)
<1>1. TypeOK
  BY DEF RefinementInv, QueueInv
<1>2. pc'[t] = to /\ \A u \in Threads : u # t => pc'[u] = pc[u]
  BY <1>1 DEF TypeOK
<1>3. Contents' = Contents
  <2> SUFFICES ASSUME NEW p \in dequeue_pos .. enqueue_pos - 1 PROVE ItemAt(p)' = ItemAt(p)
    BY <1>1, SameContents
  <2>1. p \in Int
    BY <1>1 DEF TypeOK
  <2> QED
    BY <1>2, <2>1, SameItem DEF RefinementInv
<1> QED
  BY <1>2, <1>3, OthersSeen

\* The contents are a sequence of items, in the next state too.
ContentsType ==
  /\ Contents \in Seq(Items \cup {NoItem})
  /\ Len(Contents) = enqueue_pos - dequeue_pos
  /\ \A i \in 1 .. Len(Contents) : Contents[i] = ItemAt(dequeue_pos + i - 1)

LEMMA ContentsTyped == QueueInv => ContentsType
<1> SUFFICES ASSUME QueueInv PROVE ContentsType
  OBVIOUS
<1>1. TypeOK /\ PositionInv
  BY DEF QueueInv
<1>2. \A p \in Int : ItemAt(p) \in Items \cup {NoItem}
  <2> SUFFICES ASSUME NEW p \in Int PROVE ItemAt(p) \in Items \cup {NoItem}
    OBVIOUS
  <2>1. CASE \E t \in Threads : pc[t] = "enqWrite" /\ pos[t] = p
    BY <1>1, <2>1, ItemAtValue DEF ItemPlaces, TypeOK
  <2>2. CASE \A t \in Threads : pc[t] = "enqWrite" => pos[t] # p
    BY <1>1, <2>2, ItemAtValue, CellType DEF ItemPlaces, TypeOK
  <2> QED
    BY <2>1, <2>2
<1>3. \A i \in 1 .. enqueue_pos - dequeue_pos : ItemAt(dequeue_pos + i - 1) \in Items \cup {NoItem}
  BY <1>1, <1>2 DEF TypeOK
<1>4. Contents \in [1 .. enqueue_pos - dequeue_pos -> Items \cup {NoItem}]
  BY <1>3 DEF Contents
<1>5. enqueue_pos - dequeue_pos \in Nat
  BY <1>1 DEF TypeOK, PositionInv
<1>6. Contents \in Seq(Items \cup {NoItem})
  BY <1>4, <1>5, SeqDef
<1> QED
  BY <1>1, <1>6, ContentsShape DEF ContentsType

LEMMA ContentsTypedNext == QueueInv' => ContentsType'
BY ContentsTyped, PTL

\* The compare-and-swap of an enqueue is the abstract enqueue.
LEMMA EnqueueMaps ==
  ASSUME RefinementInv, QueueInv', NEW t \in Threads, EnqCas(t)
  PROVE  FIFO!Enqueue(t)
<1> DEFINE e == enqueue_pos
           d == dequeue_pos
<1>1. TypeOK /\ QueueInv /\ PositionInv /\ PositionInv'
  BY DEF RefinementInv, QueueInv
<1>2. /\ pc[t] = "enqCas" /\ pc'[t] = "enqWrite" /\ pos[t] = e /\ e' = e + 1
      /\ UNCHANGED <<data, pos, item, sequence>> /\ d' = d
      /\ \A u \in Threads : u # t => pc'[u] = pc[u]
  BY <1>1 DEF EnqCas, Goto, TypeOK
<1>3. /\ e \in Nat /\ d \in Nat /\ pos \in [Threads -> Nat] /\ d <= e
      /\ item[t] \in Items \cup {NoItem}
  BY <1>1 DEF TypeOK, PositionInv
<1>4. ContentsType /\ ContentsType'
  BY <1>1, ContentsTyped, ContentsTypedNext
<1>5. Len(Contents) = e - d /\ Len(Contents') = e + 1 - d /\ Len(Contents) < Capacity
  BY <1>1, <1>2, <1>3, <1>4, CapacityType DEF ContentsType, PositionInv
<1>6. ASSUME NEW p \in d .. e - 1 PROVE ItemAt(p)' = ItemAt(p)
  <2>1. p \in Int /\ p # e
    BY <1>3
  <2>2. CASE \E u \in Threads : pc[u] = "enqWrite" /\ pos[u] = p
    <3> PICK u \in Threads : pc[u] = "enqWrite" /\ pos[u] = p
      BY <2>2
    <3>1. ItemAt(p) = item[u]
      BY <1>1, <2>1, ItemAtValue DEF ItemPlaces
    <3>2. pc'[u] = "enqWrite" /\ pos'[u] = p /\ item'[u] = item[u]
      BY <1>2
    <3>3. ItemAt(p)' = item'[u]
      BY <2>1, <3>2, ItemAtNext DEF ItemPlaces
    <3> QED
      BY <3>1, <3>2, <3>3
  <2>3. CASE \A u \in Threads : pc[u] = "enqWrite" => pos[u] # p
    <3>1. ItemAt(p) = data[Cell(p)]
      BY <1>1, <2>1, <2>3, ItemAtValue DEF ItemPlaces
    <3>2. \A u \in Threads : pc'[u] = "enqWrite" => pos'[u] # p
      BY <1>2, <2>1, <2>3
    <3>3. ItemAt(p)' = data'[Cell(p)]
      BY <2>1, <3>2, ItemAtNext DEF ItemPlaces
    <3> QED
      BY <1>2, <3>1, <3>3
  <2> QED
    BY <2>2, <2>3
<1>7. \A p \in Int : p = e => ItemAt(p)' = item[t]
  BY <1>2, ItemAtNext DEF ItemPlaces
<1>8. Contents' = Append(Contents, item[t])
  <2> DEFINE S == Items \cup {NoItem}
             a == Append(Contents, item[t])
  <2>1. Contents \in Seq(S) /\ Contents' \in Seq(S) /\ item[t] \in S
    BY <1>3, <1>4 DEF ContentsType
  <2>2. /\ a \in Seq(S) /\ Len(a) = Len(Contents) + 1 /\ a[Len(Contents) + 1] = item[t]
        /\ \A i \in 1 .. Len(Contents) : a[i] = Contents[i]
    BY <2>1, AppendProperties
  <2>3. ASSUME NEW i \in 1 .. Len(a) PROVE Contents'[i] = a[i]
    <3> PICK p \in Int : p = d + i - 1
      BY <1>3, <2>1, <2>2
    <3>1. Contents'[i] = ItemAt(p)'
      BY <1>2, <1>3, <1>4, <1>5, <2>2 DEF ContentsType
    <3>2. CASE i = e - d + 1
      <4>1. p = e
        BY <1>3, <3>2
      <4> QED
        BY <1>5, <1>7, <2>2, <3>1, <3>2, <4>1
    <3>3. CASE i # e - d + 1
      <4>1. p \in d .. e - 1 /\ i \in 1 .. Len(Contents)
        BY <1>3, <1>5, <2>2, <3>3
      <4>2. ItemAt(p)' = ItemAt(p)
        BY <1>6, <4>1
      <4>3. Contents[i] = ItemAt(p)
        BY <1>4, <4>1 DEF ContentsType
      <4> QED
        BY <2>2, <3>1, <4>1, <4>2, <4>3
    <3> QED
      BY <3>2, <3>3
  <2> HIDE DEF S, a
  <2>4. Len(Contents') = Len(a)
    BY <1>3, <1>5, <2>2
  <2>5. Contents' = a
    BY <2>1, <2>2, <2>3, <2>4, SeqEqual
  <2> QED
    BY <2>5 DEF a
<1>9. CallOf(t) = "enqueuing" /\ CallOf(t)' = "enqueued" /\ CarriedBy(t) = item[t]
  BY <1>2 DEF CallOf, CarriedBy, EnqOwner
<1>10. \A u \in Threads : CarriedBy(u)' = CarriedBy(u) /\ (u # t => CallOf(u)' = CallOf(u))
  BY <1>2 DEF CallOf, CarriedBy
<1>11. \A u \in Threads :
         SpanOf(u)' = IF CallOf(u) = "dequeued" THEN SpanOf(u) + 1 ELSE SpanOf(u)
  BY <1>2, <1>3, <1>9, <1>10 DEF SpanOf
<1> HIDE DEF e, d
<1> QED
  BY <1>5, <1>8, <1>9, <1>10, <1>11 DEF FIFO!Enqueue

\* The compare-and-swap of a dequeue is the abstract dequeue: it is given the head, which
\* has been written.
LEMMA DequeueMaps ==
  ASSUME RefinementInv, QueueInv', NEW t \in Threads, DeqCas(t)
  PROVE  FIFO!Dequeue(t)
<1> DEFINE e == enqueue_pos
           d == dequeue_pos
           S == Items \cup {NoItem}
<1>1. TypeOK /\ QueueInv /\ PositionInv /\ PositionInv'
  BY DEF RefinementInv, QueueInv
<1>2. /\ pc[t] = "deqCas" /\ pc'[t] = "deqRead" /\ pos[t] = d /\ d' = d + 1
      /\ UNCHANGED <<data, pos, item, sequence>> /\ e' = e
      /\ \A u \in Threads : u # t => pc'[u] = pc[u]
  BY <1>1 DEF DeqCas, Goto, TypeOK
<1>3. e \in Nat /\ d \in Nat /\ d < e /\ d' <= e'
  BY <1>1, <1>2 DEF TypeOK, PositionInv
<1>4. ContentsType /\ ContentsType'
  BY <1>1, ContentsTyped, ContentsTypedNext
<1>5. /\ Contents \in Seq(S) /\ Contents' \in Seq(S)
      /\ Len(Contents) = e - d /\ Len(Contents') = e - (d + 1)
  BY <1>2, <1>4 DEF ContentsType
<1>6. Contents # << >>
  BY <1>3, <1>5, EmptySeq
<1>7. \A p \in Int : p = d => ItemAt(p) = data[Cell(p)]
  <2> SUFFICES ASSUME NEW p \in Int, p = d PROVE ItemAt(p) = data[Cell(p)]
    OBVIOUS
  <2>1. sequence[Cell(p)] = p + 1
    BY <1>1, <1>2 DEF QueueInv, CasInv
  <2>2. \A u \in Threads : pc[u] = "enqWrite" => pos[u] # p
    BY <1>1, <2>1 DEF QueueInv, OwnerInv, EnqOwner
  <2> QED
    BY <1>1, <2>2, ItemAtValue DEF ItemPlaces
<1>8. Head(Contents) = data[Cell(d)]
  <2>1. Head(Contents) = Contents[1]
    BY <1>5, <1>6, SMT
  <2>2. Contents[1] = ItemAt(d + 1 - 1)
    BY <1>3, <1>4, <1>5 DEF ContentsType
  <2>3. d + 1 - 1 = d
    BY <1>3
  <2> QED
    BY <1>3, <1>7, <2>1, <2>2, <2>3
<1>9. Contents' = Tail(Contents)
  <2> DEFINE a == Tail(Contents)
  <2>1. /\ a \in Seq(S) /\ Len(a) = Len(Contents) - 1
        /\ \A i \in 1 .. Len(a) : a[i] = Contents[i + 1]
    BY <1>5, <1>6, HeadTailProperties
  <2>2. ASSUME NEW i \in 1 .. Len(a) PROVE Contents'[i] = a[i]
    <3> PICK p \in Int : p = d + i
      BY <1>3, <1>5, <2>1
    <3>1. Contents'[i] = ItemAt(p)'
      BY <1>2, <1>3, <1>4, <1>5, <2>1 DEF ContentsType
    <3>2. i + 1 \in 1 .. Len(Contents) /\ d + (i + 1) - 1 = p
      BY <1>3, <1>5, <2>1
    <3>3. Contents[i + 1] = ItemAt(p)
      BY <1>4, <3>2 DEF ContentsType
    <3>4. ItemAt(p)' = ItemAt(p)
      BY <1>1, <1>2, SameItem
    <3> QED
      BY <2>1, <3>1, <3>3, <3>4
  <2> HIDE DEF a, S
  <2>3. Len(Contents') = Len(a)
    BY <1>3, <1>5, <2>1
  <2>4. Contents' = a
    BY <1>5, <2>1, <2>2, <2>3, SeqEqual
  <2> QED
    BY <2>4 DEF a
<1>10. /\ CallOf(t) = "dequeuing" /\ CallOf(t)' = "dequeued"
       /\ CarriedBy(t)' = Head(Contents) /\ SpanOf(t)' = Len(Contents)
  <2>1. CallOf(t) = "dequeuing" /\ CallOf(t)' = "dequeued"
    BY <1>2 DEF CallOf, EnqOwner
  <2>2. CarriedBy(t)' = data[Cell(d)]
    BY <1>2 DEF CarriedBy
  <2>3. SpanOf(t)' = e - d
    BY <1>2, <2>1 DEF SpanOf
  <2> QED
    BY <1>5, <1>8, <2>1, <2>2, <2>3
<1>11. \A u \in Threads : u # t => Seen(u)' = Seen(u)
  BY <1>2, OthersSeen
<1> HIDE DEF e, d, S
<1> QED
  BY <1>6, <1>9, <1>10, <1>11 DEF FIFO!Dequeue, Seen

\* An enqueue that finds its cell not yet free answers "full": the queue is full, or the
\* dequeue that owns the cell's last ticket has been lapped.
LEMMA FailEnqueueMaps ==
  ASSUME RefinementInv, QueueInv', NEW t \in Threads, EnqCheckFull(t)
  PROVE  FIFO!FailEnqueue(t)
<1> DEFINE e == enqueue_pos
           d == dequeue_pos
<1>1. TypeOK /\ QueueInv /\ PositionInv
  BY DEF RefinementInv, QueueInv
<1>2. /\ pc[t] = "enqCheck" /\ sequence[Cell(pos[t])] < pos[t]
      /\ pc' = [pc EXCEPT ![t] = "idle"] /\ item' = [item EXCEPT ![t] = NoItem]
      /\ pos' = [pos EXCEPT ![t] = 0] /\ UNCHANGED <<sequence, data, enqueue_pos, dequeue_pos>>
  BY DEF EnqCheckFull, Return, Goto
<1>3. e \in Nat /\ d \in Nat /\ pos[t] \in Nat /\ pos[t] <= e
  BY <1>1, <1>2 DEF TypeOK, QueueInv, CasInv
<1>4. \A q \in Window : q \in Int /\ sequence[Cell(q)] >= q
  BY <1>1, CapacityType DEF QueueInv, TicketInv, TypeOK, Window
<1>5. pos[t] = e
  <2>1. CASE pos[t] < e
    <3> PICK q \in Window : q >= pos[t] /\ Cell(q) = Cell(pos[t])
      BY <1>1, <1>3, <2>1, WindowTicket
    <3>1. sequence[Cell(pos[t])] >= q
      BY <1>4
    <3>2. sequence[Cell(pos[t])] \in Nat
      BY <1>1, <1>3, CellType DEF TypeOK
    <3> QED
      BY <1>2, <1>3, <1>4, <3>1, <3>2
  <2> QED
    BY <1>3, <2>1
<1>6. e - Capacity \in Window /\ Cell(e - Capacity) = Cell(e)
  BY <1>3, CellLap, CapacityType DEF Window
<1>7. Len(Contents) = e - d
  BY <1>1, ContentsTyped DEF ContentsType
<1>8. \/ Len(Contents) >= Capacity
      \/ \E u \in Threads : pc[u] \in DeqOwner /\ pos[u] = e - Capacity
  <2>1. sequence[Cell(e - Capacity)] # e - Capacity + Capacity
    BY <1>2, <1>3, <1>5, <1>6, CapacityType
  <2> QED
    BY <1>1, <1>3, <1>6, <1>7, <2>1, CapacityType DEF QueueInv, TicketInv
<1>9. ASSUME NEW u \in Threads, pc[u] \in DeqOwner, pos[u] = e - Capacity
      PROVE  CallOf(u) = "dequeued" /\ SpanOf(u) >= Capacity
  <2>1. CallOf(u) = "dequeued"
    BY <1>9 DEF CallOf, DeqOwner, EnqOwner
  <2>2. SpanOf(u) = Capacity
    BY <1>3, <1>9, <2>1, CapacityType DEF SpanOf
  <2> QED
    BY <2>1, <2>2, CapacityType
<1>10. /\ Contents' = Contents
       /\ \A u \in Threads : u # t => Seen(u)' = Seen(u)
  <2>1. /\ "idle" \in PCs
        /\ \A u \in Threads : u # t => pos'[u] = pos[u] /\ item'[u] = item[u]
    BY <1>1, <1>2 DEF TypeOK, PCs
  <2> QED
    BY <1>2, <2>1, CallBoundary
<1>11. /\ CallOf(t) = "enqueuing" /\ CallOf(t)' = "idle"
       /\ CarriedBy(t)' = NoItem /\ SpanOf(t)' = 0
  BY <1>1, <1>2 DEF CallOf, CarriedBy, SpanOf, TypeOK, EnqOwner
<1> HIDE DEF e, d
<1>12. Len(Contents) < Capacity => \E u \in Threads : CallOf(u) = "dequeued" /\ SpanOf(u) >= Capacity
  <2>1. Len(Contents) \in Int
    BY <1>3, <1>7
  <2> QED
    BY <1>8, <1>9, <2>1, CapacityType
<1> QED
  BY <1>10, <1>11, <1>12 DEF FIFO!FailEnqueue, FIFO!Return, Seen

\* A dequeue that finds its cell not yet ready answers "empty": the queue is empty, or its
\* head is the item of an enqueue that has not returned.
LEMMA FailDequeueMaps ==
  ASSUME RefinementInv, QueueInv', NEW t \in Threads, DeqCheckEmpty(t)
  PROVE  FIFO!FailDequeue(t)
<1> DEFINE e == enqueue_pos
           d == dequeue_pos
<1>1. TypeOK /\ QueueInv /\ PositionInv
  BY DEF RefinementInv, QueueInv
<1>2. /\ pc[t] = "deqCheck" /\ sequence[Cell(pos[t])] < pos[t] + 1
      /\ pc' = [pc EXCEPT ![t] = "idle"] /\ item' = [item EXCEPT ![t] = NoItem]
      /\ pos' = [pos EXCEPT ![t] = 0] /\ UNCHANGED <<sequence, data, enqueue_pos, dequeue_pos>>
  BY DEF DeqCheckEmpty, Return, Goto
<1>3. e \in Nat /\ d \in Nat /\ pos[t] \in Nat /\ pos[t] <= d /\ d <= e /\ e <= d + Capacity
  BY <1>1, <1>2 DEF TypeOK, QueueInv, CasInv, PositionInv
<1>4. \A q \in Window : q \in Int /\ sequence[Cell(q)] >= q /\ (q < d => sequence[Cell(q)] >= q + 1)
  BY <1>1, CapacityType DEF QueueInv, TicketInv, TypeOK, Window
<1>5. pos[t] = d \/ d = e
  <2> SUFFICES ASSUME pos[t] < d PROVE FALSE
    BY <1>3
  <2> PICK q \in Window : q >= pos[t] /\ Cell(q) = Cell(pos[t])
    BY <1>1, <1>3, WindowTicket
  <2>1. sequence[Cell(pos[t])] \in Nat /\ q \in Int
    BY <1>1, <1>3, <1>4, CellType DEF TypeOK
  <2>2. CASE q < d
    BY <1>2, <1>3, <1>4, <2>1, <2>2
  <2>3. CASE q >= d
    <3>1. sequence[Cell(pos[t])] >= q
      BY <1>4
    <3> QED
      BY <1>2, <1>3, <2>1, <2>3, <3>1
  <2> QED
    BY <1>3, <2>1, <2>2, <2>3
<1>6. ContentsType
  BY <1>1, ContentsTyped
<1>7. ASSUME Contents # << >>
      PROVE  \E u \in Threads : CallOf(u) = "enqueued" /\ CarriedBy(u) = Head(Contents)
  <2>1. d < e
    BY <1>3, <1>6, <1>7, EmptySeq DEF ContentsType
  <2>2. d \in Window /\ pos[t] = d
    BY <1>3, <1>5, <2>1, CapacityType DEF Window
  <2> PICK u \in Threads : pc[u] \in EnqOwner /\ pos[u] = d
    <3>1. TicketInv /\ sequence[Cell(d)] # d + 1 /\ ~ (d < d)
      BY <1>1, <1>2, <1>3, <2>2 DEF QueueInv
    <3> QED
      BY <2>2, <3>1 DEF TicketInv
  <2>3. ItemAt(d) = item[u]
    <3>1. CASE pc[u] = "enqWrite"
      BY <1>1, <1>3, <3>1, ItemAtValue DEF ItemPlaces
    <3>2. CASE pc[u] = "enqPublish"
      <4>1. \A v \in Threads : pc[v] = "enqWrite" => pos[v] # d
        BY <1>1, <3>2 DEF QueueInv, OwnerInv, Owns, EnqOwner
      <4>2. ItemAt(d) = data[Cell(d)]
        BY <1>1, <1>3, <4>1, ItemAtValue DEF ItemPlaces
      <4> QED
        BY <3>2, <4>2 DEF RefinementInv, WrittenInv
    <3> QED
      BY <3>1, <3>2 DEF EnqOwner
  <2>4. Head(Contents) = item[u]
    <3>1. Head(Contents) = Contents[1]
      BY <1>6, <1>7, SMT DEF ContentsType
    <3>2. Contents[1] = ItemAt(d + 1 - 1)
      BY <1>3, <1>6, <2>1 DEF ContentsType
    <3>3. d + 1 - 1 = d
      BY <1>3
    <3> QED
      BY <2>3, <3>1, <3>2, <3>3
  <2>5. CallOf(u) = "enqueued" /\ CarriedBy(u) = item[u]
    BY DEF CallOf, CarriedBy, EnqOwner
  <2> QED
    BY <2>4, <2>5
<1>8. /\ Contents' = Contents
      /\ \A u \in Threads : u # t => Seen(u)' = Seen(u)
  <2>1. /\ "idle" \in PCs
        /\ \A u \in Threads : u # t => pos'[u] = pos[u] /\ item'[u] = item[u]
    BY <1>1, <1>2 DEF TypeOK, PCs
  <2> QED
    BY <1>2, <2>1, CallBoundary
<1>9. /\ CallOf(t) = "dequeuing" /\ CallOf(t)' = "idle"
      /\ CarriedBy(t)' = NoItem /\ SpanOf(t)' = 0
  BY <1>1, <1>2 DEF CallOf, CarriedBy, SpanOf, TypeOK, EnqOwner
<1> HIDE DEF e, d
<1> QED
  BY <1>7, <1>8, <1>9 DEF FIFO!FailDequeue, FIFO!Return, Seen

\* The two invocations, and the returns of calls that have taken effect.
LEMMA InvocationMaps ==
  ASSUME RefinementInv, QueueInv', NEW t \in Threads
  PROVE  /\ \A x \in Items : EnqInvoke(t, x) => FIFO!InvokeEnqueue(t, x)
         /\ DeqInvoke(t) => FIFO!InvokeDequeue(t)
<1>0. TypeOK
  BY DEF RefinementInv, QueueInv
<1>1. ASSUME NEW x \in Items, EnqInvoke(t, x) PROVE FIFO!InvokeEnqueue(t, x)
  <2>1. /\ pc[t] = "idle" /\ pc' = [pc EXCEPT ![t] = "enqLoad"]
        /\ item' = [item EXCEPT ![t] = x] /\ UNCHANGED <<data, enqueue_pos, dequeue_pos, pos>>
    BY <1>1 DEF EnqInvoke, Goto
  <2>2. /\ Contents' = Contents
        /\ \A u \in Threads : u # t => Seen(u)' = Seen(u)
    <3>1. "enqLoad" \in PCs /\ \A u \in Threads : u # t => pos'[u] = pos[u] /\ item'[u] = item[u]
      BY <1>0, <2>1 DEF TypeOK, PCs
    <3> QED
      BY <2>1, <3>1, CallBoundary
  <2>3. /\ CallOf(t) = "idle" /\ CallOf(t)' = "enqueuing"
        /\ CarriedBy(t)' = x /\ SpanOf(t)' = SpanOf(t)
    BY <1>0, <2>1 DEF CallOf, CarriedBy, SpanOf, TypeOK, EnqOwner
  <2> QED
    BY <2>2, <2>3 DEF FIFO!InvokeEnqueue, Seen
<1>2. ASSUME DeqInvoke(t) PROVE FIFO!InvokeDequeue(t)
  <2>1. /\ pc[t] = "idle" /\ pc' = [pc EXCEPT ![t] = "deqLoad"]
        /\ UNCHANGED <<data, enqueue_pos, dequeue_pos, pos, item>>
    BY <1>2 DEF DeqInvoke, Goto
  <2>2. /\ Contents' = Contents
        /\ \A u \in Threads : u # t => Seen(u)' = Seen(u)
    <3>1. "deqLoad" \in PCs
      BY DEF PCs
    <3> QED
      BY <2>1, <3>1, CallBoundary
  <2>3. /\ CallOf(t) = "idle" /\ CallOf(t)' = "dequeuing"
        /\ CarriedBy(t)' = CarriedBy(t) /\ SpanOf(t)' = SpanOf(t)
    BY <1>0, <2>1 DEF CallOf, CarriedBy, SpanOf, TypeOK, EnqOwner
  <2> QED
    BY <2>2, <2>3 DEF FIFO!InvokeDequeue, Seen
<1> QED
  BY <1>1, <1>2

LEMMA ReturnMaps ==
  ASSUME RefinementInv, QueueInv', NEW t \in Threads
  PROVE  /\ EnqCount(t) => FIFO!ReturnEnqueue(t)
         /\ DeqCount(t) => FIFO!ReturnDequeue(t)
<1>0. TypeOK
  BY DEF RefinementInv, QueueInv
<1>1. ASSUME NEW from \in {"enqCount", "deqCount"}, Return(t, from),
             UNCHANGED <<data, enqueue_pos, dequeue_pos>>
      PROVE  /\ FIFO!Return(t)
             /\ CallOf(t) = IF from = "enqCount" THEN "enqueued" ELSE "dequeued"
  <2>1. /\ pc[t] = from /\ pc' = [pc EXCEPT ![t] = "idle"]
        /\ item' = [item EXCEPT ![t] = NoItem] /\ pos' = [pos EXCEPT ![t] = 0]
    BY <1>1 DEF Return, Goto
  <2>2. /\ Contents' = Contents
        /\ \A u \in Threads : u # t => Seen(u)' = Seen(u)
    <3>1. "idle" \in PCs /\ \A u \in Threads : u # t => pos'[u] = pos[u] /\ item'[u] = item[u]
      BY <1>0, <2>1 DEF TypeOK, PCs
    <3> QED
      BY <1>1, <2>1, <3>1, CallBoundary
  <2>3. /\ CallOf(t) = IF from = "enqCount" THEN "enqueued" ELSE "dequeued"
        /\ CallOf(t)' = "idle" /\ CarriedBy(t)' = NoItem /\ SpanOf(t)' = 0
    BY <1>0, <2>1 DEF CallOf, CarriedBy, SpanOf, TypeOK, EnqOwner
  <2> QED
    BY <2>2, <2>3 DEF FIFO!Return, Seen
<1> QED
  BY <1>1 DEF EnqCount, DeqCount, FIFO!ReturnEnqueue, FIFO!ReturnDequeue

\* The accesses to data_: the item moves between its thread and the cell, and the mapping
\* shows the same.
LEMMA DataStutters ==
  ASSUME RefinementInv, QueueInv', NEW t \in Threads,
         EnqWrite(t) \/ DeqRead(t) \/ DeqClear(t)
  PROVE  UNCHANGED FIFO!vars
<1>1. TypeOK /\ QueueInv /\ PositionInv
  BY DEF RefinementInv, QueueInv
<1>2. /\ UNCHANGED <<sequence, enqueue_pos, dequeue_pos, pos>>
      /\ \A u \in Threads : u # t => pc'[u] = pc[u] /\ item'[u] = item[u]
      /\ \A c \in Cells : c # Cell(pos[t]) => data'[c] = data[c]
  BY <1>1 DEF EnqWrite, DeqRead, DeqClear, Goto, TypeOK
<1>3. Owns(t) /\ Cell(pos[t]) \in Cells /\ pos[t] \in Nat
  BY <1>1, CellType DEF EnqWrite, DeqRead, DeqClear, Goto, Owns, EnqOwner, DeqOwner, TypeOK
<1>4. \A u \in Threads : u # t => Seen(u)' = Seen(u)
  <2> SUFFICES ASSUME NEW u \in Threads, u # t, pc[u] = "deqRead"
               PROVE  data'[Cell(pos[u])] = data[Cell(pos[u])]
    BY <1>2, OthersSeen
  <2>1. Cell(pos[u]) # Cell(pos[t])
    BY <1>1, <1>3, OwnersApart DEF Owns, DeqOwner
  <2>2. Cell(pos[u]) \in Cells
    BY <1>1, CellType DEF TypeOK
  <2> QED
    BY <1>2, <2>1, <2>2
<1>5. Seen(t)' = Seen(t)
  <2>1. CASE EnqWrite(t)
    BY <1>1, <2>1 DEF EnqWrite, Goto, Seen, CallOf, CarriedBy, SpanOf, EnqOwner, TypeOK
  <2>2. CASE DeqRead(t)
    BY <1>1, <2>2 DEF DeqRead, Goto, Seen, CallOf, CarriedBy, SpanOf, EnqOwner, TypeOK
  <2>3. CASE DeqClear(t)
    BY <1>1, <2>3 DEF DeqClear, Goto, Seen, CallOf, CarriedBy, SpanOf, EnqOwner, TypeOK
  <2> QED
    BY <2>1, <2>2, <2>3
<1>6. ASSUME NEW p \in dequeue_pos .. enqueue_pos - 1 PROVE ItemAt(p)' = ItemAt(p)
  <2>0. p \in Int /\ p \in Window /\ Cell(p) \in Cells
    BY <1>1, CellType, CapacityType DEF TypeOK, PositionInv, Window
  <2>1. CASE p # pos[t]
    <3>1. data'[Cell(p)] = data[Cell(p)]
      BY <1>1, <1>2, <1>3, <2>0, <2>1, OtherCells
    <3>2. \A u \in Threads : (pc'[u] = "enqWrite" /\ pos'[u] = p <=> pc[u] = "enqWrite" /\ pos[u] = p)
                             /\ (pc[u] = "enqWrite" => item'[u] = item[u])
      BY <1>1, <1>2, <2>1 DEF EnqWrite, DeqRead, DeqClear, Goto, TypeOK
    <3>3. CASE \E u \in Threads : pc[u] = "enqWrite" /\ pos[u] = p
      BY <1>1, <2>0, <3>2, <3>3, ItemAtValue, ItemAtNext DEF ItemPlaces
    <3>4. CASE \A u \in Threads : pc[u] = "enqWrite" => pos[u] # p
      <4>1. \A u \in Threads : pc'[u] = "enqWrite" => pos'[u] # p
        BY <3>2, <3>4
      <4>2. ItemAt(p) = data[Cell(p)] /\ ItemAt(p)' = data'[Cell(p)]
        BY <1>1, <2>0, <3>4, <4>1, ItemAtValue, ItemAtNext DEF ItemPlaces
      <4> QED
        BY <3>1, <4>2
    <3> QED
      BY <3>3, <3>4
  <2>2. CASE p = pos[t]
    <3>1. pc[t] \notin DeqOwner
      BY <1>1, <2>0, <2>2 DEF QueueInv, OwnerInv, TypeOK
    <3>2. EnqWrite(t) /\ pc[t] = "enqWrite" /\ pc'[t] = "enqPublish"
      BY <1>1, <3>1 DEF DeqRead, DeqClear, DeqOwner, EnqWrite, Goto, TypeOK
    <3>3. ItemAt(p) = item[t]
      BY <1>1, <2>0, <2>2, <3>2, ItemAtValue DEF ItemPlaces
    <3>4. \A u \in Threads : pc'[u] = "enqWrite" => pos'[u] # p
      BY <1>1, <1>2, <2>2, <3>2 DEF QueueInv, OwnerInv, Owns, EnqOwner
    <3>5. ItemAt(p)' = data'[Cell(p)]
      BY <2>0, <3>4, ItemAtNext DEF ItemPlaces
    <3>6. data'[Cell(p)] = item[t]
      BY <1>1, <1>3, <2>2, <3>2 DEF EnqWrite, TypeOK
    <3> QED
      BY <3>3, <3>5, <3>6
  <2> QED
    BY <2>1, <2>2
<1>7. Contents' = Contents
  BY <1>1, <1>2, <1>6, SameContents
<1> QED
  BY <1>4, <1>5, <1>7, Stutter

\* The loads, the checks that let a call go on, the failed compare-and-swaps and the stores
\* of sequence numbers.
LEMMA LocalStutters ==
  ASSUME RefinementInv, QueueInv', NEW t \in Threads,
         \/ EnqLoad(t) \/ EnqCheckFree(t) \/ EnqCheckStale(t) \/ EnqCasFail(t) \/ EnqPublish(t)
         \/ DeqLoad(t) \/ DeqCheckReady(t) \/ DeqCheckStale(t) \/ DeqCasFail(t) \/ DeqRelease(t)
  PROVE  UNCHANGED FIFO!vars
<1>1. TypeOK
  BY DEF RefinementInv, QueueInv
<1>2. \A u \in Threads : u # t => pos'[u] = pos[u]
  BY <1>1 DEF EnqLoad, EnqCheckFree, EnqCheckStale, EnqCasFail, EnqPublish, DeqLoad,
              DeqCheckReady, DeqCheckStale, DeqCasFail, DeqRelease, TypeOK
<1>3. CASE EnqLoad(t) \/ EnqCheckFree(t) \/ EnqCheckStale(t) \/ EnqCasFail(t)
  BY <1>2, <1>3, WithinCall DEF EnqLoad, EnqCheckFree, EnqCheckStale, EnqCasFail, Goto, PCs
<1>4. CASE DeqLoad(t) \/ DeqCheckReady(t) \/ DeqCheckStale(t) \/ DeqCasFail(t)
  BY <1>2, <1>4, WithinCall DEF DeqLoad, DeqCheckReady, DeqCheckStale, DeqCasFail, Goto, PCs
<1>5. CASE EnqPublish(t)
  BY <1>2, <1>5, WithinCall DEF EnqPublish, Goto, PCs
<1>6. CASE DeqRelease(t)
  BY <1>2, <1>6, WithinCall DEF DeqRelease, Goto, PCs
<1> QED
  BY <1>3, <1>4, <1>5, <1>6

------------------------------------------------------------------------------
(* The refinement                                                           *)

LEMMA InitMaps == Init => FIFO!Init
<1> SUFFICES ASSUME Init PROVE FIFO!Init
  OBVIOUS
<1>1. QueueInv /\ enqueue_pos = 0 /\ dequeue_pos = 0
  BY QueueInvInit DEF Init
<1>2. Contents = << >>
  <2>1. Contents \in Seq(Items \cup {NoItem}) /\ Len(Contents) = 0
    BY <1>1, ContentsTyped DEF ContentsType
  <2> QED
    BY <2>1, EmptySeq
<1>3. \A t \in Threads : CallOf(t) = "idle" /\ CarriedBy(t) = NoItem /\ SpanOf(t) = 0
  BY DEF Init, CallOf, CarriedBy, SpanOf, EnqOwner
<1> QED
  BY <1>2, <1>3 DEF FIFO!Init

LEMMA StepMaps ==
  ASSUME RefinementInv, QueueInv', [Next]_vars
  PROVE  [FIFO!Next]_(FIFO!vars)
<1>1. CASE UNCHANGED vars
  BY <1>1 DEF vars, FIFO!vars, Contents, ItemAt, CallOf, CarriedBy, SpanOf
<1>2. ASSUME NEW t \in Threads, EnqStep(t) PROVE FIFO!Next \/ UNCHANGED FIFO!vars
  <2>1. CASE \E x \in Items : EnqInvoke(t, x)
    BY <2>1, InvocationMaps DEF FIFO!Next, FIFO!ThreadStep
  <2>2. CASE EnqCas(t)
    BY <2>2, EnqueueMaps DEF FIFO!Next, FIFO!ThreadStep
  <2>3. CASE EnqCheckFull(t)
    BY <2>3, FailEnqueueMaps DEF FIFO!Next, FIFO!ThreadStep
  <2>4. CASE EnqCount(t)
    BY <2>4, ReturnMaps DEF FIFO!Next, FIFO!ThreadStep
  <2>5. CASE EnqWrite(t)
    BY <2>5, DataStutters
  <2>6. CASE EnqLoad(t) \/ EnqCheckFree(t) \/ EnqCheckStale(t) \/ EnqCasFail(t) \/ EnqPublish(t)
    BY <2>6, LocalStutters
  <2> QED
    BY <1>2, <2>1, <2>2, <2>3, <2>4, <2>5, <2>6 DEF EnqStep
<1>3. ASSUME NEW t \in Threads, DeqStep(t) PROVE FIFO!Next \/ UNCHANGED FIFO!vars
  <2>1. CASE DeqInvoke(t)
    BY <2>1, InvocationMaps DEF FIFO!Next, FIFO!ThreadStep
  <2>2. CASE DeqCas(t)
    BY <2>2, DequeueMaps DEF FIFO!Next, FIFO!ThreadStep
  <2>3. CASE DeqCheckEmpty(t)
    BY <2>3, FailDequeueMaps DEF FIFO!Next, FIFO!ThreadStep
  <2>4. CASE DeqCount(t)
    BY <2>4, ReturnMaps DEF FIFO!Next, FIFO!ThreadStep
  <2>5. CASE DeqRead(t) \/ DeqClear(t)
    BY <2>5, DataStutters
  <2>6. CASE DeqLoad(t) \/ DeqCheckReady(t) \/ DeqCheckStale(t) \/ DeqCasFail(t) \/ DeqRelease(t)
    BY <2>6, LocalStutters
  <2> QED
    BY <1>3, <2>1, <2>2, <2>3, <2>4, <2>5, <2>6 DEF DeqStep
<1> QED
  BY <1>1, <1>2, <1>3 DEF Next

\* The ring buffer implements a bounded FIFO queue, whatever the number of threads, the
\* capacity and the items: items come out once, in the order of the tickets of their
\* enqueues, and "full" (line 53) and "empty" (line 84) are answered only in the circumstances
\* BoundedFIFO names.
THEOREM QueueImplementsFIFO == Spec => ImplementsFIFO
<1>1. Init => FIFO!Init
  BY InitMaps
<1>2. RefinementInv /\ QueueInv' /\ [Next]_vars => [FIFO!Next]_(FIFO!vars)
  BY StepMaps
<1> QED
  BY <1>1, <1>2, RefinementInvariant, QueueInvariant, PTL DEF Spec, ImplementsFIFO, FIFO!Spec
==============================================================================
