--------------------------- MODULE SubQueueProofs ---------------------------
(***************************************************************************)
(* Theorems about the four counters of a sub-queue of either kind, for any  *)
(* number of consumers, blocks and items, and any width of the indices that *)
(* is enough for them.  The counters wrap around; the proof follows the     *)
(* numbers they would be if they did not.                                   *)
(***************************************************************************)
EXTENDS ImplicitProducer, FiniteSetTheorems, TLAPS

N == IndexValues
Half == IndexValues \div 2

------------------------------------------------------------------------------
(* Indices that wrap around                                                 *)

\* A number is a multiple and a remainder.
LEMMA Division ==
  ASSUME NEW m \in Nat \ {0}, NEW x \in Int
  PROVE  /\ x \div m \in Int
         /\ x % m \in 0 .. m - 1
         /\ x = m * (x \div m) + (x % m)
OBVIOUS

\* Numbers less than m apart that differ by a multiple of m are equal.
LEMMA EqualRemainders ==
  ASSUME NEW m \in Nat \ {0}, NEW a \in Int,
         NEW x \in 0 .. m - 1, NEW y \in 0 .. m - 1, x - y = m * a
  PROVE  x = y
<1>1. CASE a > 0
  <2>1. m * a >= m
    BY <1>1, SMT
  <2> QED
    BY <2>1
<1>2. CASE a < 0
  <2>1. m * a <= - m
    BY <1>2, SMT
  <2> QED
    BY <2>1
<1>3. CASE a = 0
  BY <1>3
<1> QED
  BY <1>1, <1>2, <1>3

\* Numbers that differ by a multiple of m have the same remainder.
LEMMA SameRemainder ==
  ASSUME NEW m \in Nat \ {0}, NEW x \in Int, NEW y \in Int, NEW a \in Int, x - y = m * a
  PROVE  x % m = y % m
<1> DEFINE b == x \div m
           c == y \div m
           r == x % m
           s == y % m
<1>1. b \in Int /\ r \in 0 .. m - 1 /\ x = m * b + r
  BY Division
<1>2. c \in Int /\ s \in 0 .. m - 1 /\ y = m * c + s
  BY Division
<1> HIDE DEF b, c, r, s
<1>3. r - s = m * (a - b + c)
  <2> DEFINE A == m * a
             B == m * b
             C == m * c
  <2>1. A \in Int /\ B \in Int /\ C \in Int /\ m * (a - b + c) = A - B + C
    BY <1>1, <1>2, SMT
  <2>2. x - y = A /\ x = B + r /\ y = C + s
    BY <1>1, <1>2
  <2> HIDE DEF A, B, C
  <2> QED
    BY <1>1, <1>2, <2>1, <2>2
<1>4. a - b + c \in Int
  BY <1>1, <1>2
<1>5. r = s
  BY <1>1, <1>2, <1>3, <1>4, EqualRemainders
<1> QED
  BY <1>5 DEF r, s

\* How far consumers may be ahead of the tail.
Reach == MaxLag + Cardinality(Consumers) * MaxBulk

\* The numbers the assumption is about.  The indices are even in number.
LEMMA Widths ==
  ASSUME ProducerBaseAssumption
  PROVE  /\ N \in Nat \ {0} /\ N > 1 /\ Half \in Nat /\ 2 * Half = N
         /\ BLOCK_SIZE \in Nat /\ BLOCK_SIZE > 1 /\ N % BLOCK_SIZE = 0
         /\ MaxBulk \in Nat /\ MaxBulk > 0 /\ MaxLag \in Nat /\ IsFiniteSet(Consumers)
         /\ Consumers # {} /\ Cardinality(Consumers) \in Nat
         /\ Cardinality(Consumers) * MaxBulk \in Nat
         /\ Reach \in Nat /\ Reach <= Half
<1>1. /\ BLOCK_SIZE \in Nat /\ BLOCK_SIZE > 1 /\ N \in Nat /\ N % (2 * BLOCK_SIZE) = 0
      /\ MaxBulk \in Nat /\ MaxBulk > 0 /\ MaxLag \in Nat
      /\ IsFiniteSet(Consumers) /\ Consumers # {}
      /\ MaxBlocks \in Nat /\ MaxBlocks * BLOCK_SIZE < Half
      /\ Reach <= Half
  BY DEF ProducerBaseAssumption, N, Half, Reach
<1>2. Cardinality(Consumers) \in Nat
  BY <1>1, FS_CardinalityType
<1>3. Cardinality(Consumers) * MaxBulk \in Nat /\ MaxBlocks * BLOCK_SIZE \in Nat
  BY <1>1, <1>2, SMT
<1> DEFINE b == 2 * BLOCK_SIZE
           q == N \div b
           e == q * BLOCK_SIZE
<1>4. b \in Nat \ {0} /\ N \in Int /\ N % b = 0
  BY <1>1
<1>5. q \in Int /\ N = b * q
  <2>1. q \in Int /\ N = b * q + (N % b)
    BY <1>4, Division
  <2> HIDE DEF q, b
  <2>2. b * q \in Int
    BY <1>4, <2>1, SMT
  <2> QED
    BY <1>4, <2>1, <2>2
<1> HIDE DEF q
<1>6. e \in Int /\ N = 2 * e
  BY <1>1, <1>5, SMT
<1>7. N % BLOCK_SIZE = 0
  <2>1. N - 0 = BLOCK_SIZE * (2 * q)
    BY <1>1, <1>5, SMT
  <2>2. N % BLOCK_SIZE = 0 % BLOCK_SIZE
    BY <1>1, <1>5, <2>1, SameRemainder
  <2> QED
    BY <1>1, <2>2
<1> HIDE DEF e
<1>8. Half = e
  BY <1>6 DEF Half, N
<1>9. N > 1 /\ Half \in Nat /\ 2 * Half = N
  BY <1>1, <1>3, <1>6, <1>8
<1>10. Reach \in Nat
  BY <1>1, <1>3 DEF Reach
<1> QED
  BY <1>1, <1>2, <1>3, <1>7, <1>9, <1>10

\* Adding to an index, and subtracting indices.
LEMMA AddReduced ==
  ASSUME ProducerBaseAssumption, NEW x \in Int, NEW n \in Int
  PROVE  Add(x % N, n) = (x + n) % N
<1> DEFINE r == x % N
           a == x \div N
<1>1. N \in Nat \ {0} /\ a \in Int /\ r \in 0 .. N - 1 /\ x = N * a + r
  BY Widths, Division
<1> HIDE DEF r, a
<1>2. (x + n) - (r + n) = N * a
  <2> DEFINE A == N * a
  <2>1. A \in Int /\ x = A + r
    BY <1>1, SMT
  <2> HIDE DEF A
  <2>2. (x + n) - (r + n) = A
    BY <1>1, <2>1
  <2> QED
    BY <2>2 DEF A
<1>3. x + n \in Int /\ r + n \in Int
  BY <1>1
<1>4. (x + n) % N = (r + n) % N
  BY <1>1, <1>2, <1>3, SameRemainder
<1> QED
  BY <1>4 DEF Add, r, N

LEMMA SubReduced ==
  ASSUME ProducerBaseAssumption, NEW x \in Int, NEW y \in Int
  PROVE  Sub(x % N, y % N) = (x - y) % N
<1> DEFINE r == x % N
           a == x \div N
           s == y % N
           b == y \div N
<1>1. /\ N \in Nat \ {0} /\ a \in Int /\ r \in 0 .. N - 1 /\ x = N * a + r
      /\ b \in Int /\ s \in 0 .. N - 1 /\ y = N * b + s
  BY Widths, Division
<1> HIDE DEF r, a, s, b
<1>2. (x - y) - (r - s) = N * (a - b)
  <2> DEFINE A == N * a
             B == N * b
  <2>1. A \in Int /\ B \in Int /\ x = A + r /\ y = B + s /\ N * (a - b) = A - B
    BY <1>1, SMT
  <2> HIDE DEF A, B
  <2> QED
    BY <1>1, <2>1
<1>3. x - y \in Int /\ r - s \in Int /\ a - b \in Int
  BY <1>1
<1>4. (x - y) % N = (r - s) % N
  BY <1>1, <1>2, <1>3, SameRemainder
<1> QED
  BY <1>4 DEF Sub, r, s, N

\* Numbers near zero.
LEMMA Reduced ==
  ASSUME ProducerBaseAssumption, NEW x \in Int
  PROVE  /\ x % N \in 0 .. N - 1
         /\ x \in 0 .. N - 1 => x % N = x
         /\ x < 0 /\ x >= -N => x % N = x + N
         /\ x >= 0 => x % N <= x
<1> DEFINE r == x % N
           a == x \div N
           A == N * a
<1>1. N \in Nat \ {0} /\ a \in Int /\ r \in 0 .. N - 1 /\ x = A + r
  BY Widths, Division
<1>2. A \in Int /\ (a >= 1 => A >= N) /\ (a <= -1 => A <= -N) /\ (a = 0 => A = 0)
      /\ (a <= -2 => A <= -2 * N) /\ (a = -1 => A = -N)
  BY <1>1, SMT
<1> HIDE DEF r, A, a
<1>3. x \in 0 .. N - 1 => r = x
  BY <1>1, <1>2
<1>4. x < 0 /\ x >= -N => r = x + N
  BY <1>1, <1>2
<1>5. x >= 0 => r <= x
  BY <1>1, <1>2
<1> QED
  BY <1>1, <1>3, <1>4, <1>5 DEF r

\* An index that is found to be behind another is not the same.
LEMMA Wanted ==
  ASSUME ProducerBaseAssumption, NEW x \in Int, CircularLessThan(0, x % N)
  PROVE  x % N \in 1 .. N
<1>1. N \in Nat \ {0} /\ Half \in Nat /\ x % N \in 0 .. N - 1
  BY Widths, Reduced
<1>2. 0 % N = 0
  BY <1>1, Reduced
<1>3. x % N # 0
  BY <1>1, <1>2 DEF CircularLessThan, Sub, N, Half
<1> QED
  BY <1>1, <1>3

\* If it is not more than half of the indices ahead of the other, it is really behind it.
LEMMA Ahead ==
  ASSUME ProducerBaseAssumption, NEW x \in Int, x >= -Half
  PROVE  /\ CircularLessThan(0, x % N) => x > 0
         /\ CircularLessThan(0, x % N) => x % N \in 1 .. N /\ x % N <= x
<1> DEFINE r == x % N
<1>1. N \in Nat \ {0} /\ Half \in Nat /\ 2 * Half = N /\ x >= -N
  BY Widths
<1>a. r \in 0 .. N - 1 /\ (x < 0 => r = x + N) /\ (x >= 0 => r <= x)
  BY <1>1, Reduced
<1> HIDE DEF r
<1>2. Sub(0, r) = (0 - r) % N
  BY DEF Sub, N
<1>3. /\ r = 0 => (0 - r) % N = 0
      /\ r > 0 => (0 - r) % N = N - r
  <2>1. 0 - r \in Int
    BY <1>1, <1>a
  <2> QED
    BY <1>1, <1>a, <2>1, Reduced
<1>4. CircularLessThan(0, r) => r > 0 /\ N - r > Half
  BY <1>1, <1>a, <1>2, <1>3 DEF CircularLessThan, Half
<1>5. CircularLessThan(0, r) => x > 0 /\ r \in 1 .. N /\ r <= x
  BY <1>1, <1>a, <1>4
<1> QED
  BY <1>5 DEF r

------------------------------------------------------------------------------
(* Numbers of items that consumers are at                                   *)

\* The pairs that Total counts: f[c] of them for each consumer c.
Bars(f) == {i \in Consumers \X (1 .. MaxBulk) : i[2] <= f[i[1]]}

\* A total is a natural number, and not more than each consumer can have.
LEMMA TotalIsBounded ==
  ASSUME ProducerBaseAssumption, NEW f
  PROVE  /\ IsFiniteSet(Bars(f)) /\ Total(f) = Cardinality(Bars(f)) /\ Total(f) \in Nat
         /\ Total(f) <= Cardinality(Consumers) * MaxBulk
<1> DEFINE P == Consumers \X (1 .. MaxBulk)
<1>1. IsFiniteSet(1 .. MaxBulk) /\ Cardinality(1 .. MaxBulk) = MaxBulk
  BY Widths, FS_Interval
<1>2. IsFiniteSet(P) /\ Cardinality(P) = Cardinality(Consumers) * MaxBulk
  BY <1>1, Widths, FS_Product
<1>3. Bars(f) \subseteq P
  BY DEF Bars
<1> HIDE DEF P
<1>4. Total(f) = Cardinality(Bars(f))
  BY DEF Total, Bars
<1> QED
  BY <1>2, <1>3, <1>4, FS_Subset, FS_CardinalityType

\* Who has less each has less in all.
LEMMA TotalLess ==
  ASSUME ProducerBaseAssumption, NEW f, NEW g, \A c \in Consumers : f[c] \in Int /\ g[c] \in Int,
         \A c \in Consumers : f[c] <= g[c]
  PROVE  Total(f) <= Total(g)
<1>1. Bars(f) \subseteq Bars(g)
  <2> SUFFICES ASSUME NEW i \in Bars(f)
               PROVE  i \in Bars(g)
    OBVIOUS
  <2>1. /\ i \in Consumers \X (1 .. MaxBulk) /\ i[1] \in Consumers /\ i[2] \in Nat
        /\ i[2] <= f[i[1]]
    BY Widths DEF Bars
  <2> QED
    BY <2>1 DEF Bars
<1> QED
  BY <1>1, TotalIsBounded, FS_Subset

\* One consumer's items.
Bar(c, n) == {<<c, k>> : k \in 1 .. n}

\* There are as many of them as the consumer has.
LEMMA BarIsLong ==
  ASSUME NEW c, NEW n \in Nat
  PROVE  IsFiniteSet(Bar(c, n)) /\ Cardinality(Bar(c, n)) = n
<1> DEFINE g == [k \in 1 .. n |-> <<c, k>>]
<1>1. g \in Bijection(1 .. n, Bar(c, n))
  BY DEF Bijection, Injection, Surjection, IsInjective, Bar
<1>2. ExistsBijection(1 .. n, Bar(c, n))
  BY <1>1 DEF ExistsBijection
<1>3. IsFiniteSet(1 .. n) /\ Cardinality(1 .. n) = n
  BY FS_Interval
<1> QED
  BY <1>2, <1>3, FS_Bijection

\* If one consumer's number changes, the total changes as much.
LEMMA TotalChanges ==
  ASSUME ProducerBaseAssumption, NEW f, NEW g, NEW c \in Consumers,
         f[c] \in 0 .. MaxBulk, g[c] \in 0 .. MaxBulk,
         \A d \in Consumers : d # c => f[d] = g[d]
  PROVE  Total(g) = Total(f) + g[c] - f[c]
<1> DEFINE rest == {i \in Bars(f) : i[1] # c}
<1>1. Bars(f) = rest \cup Bar(c, f[c])
  BY Widths DEF Bars, Bar
<1>2. Bars(g) = rest \cup Bar(c, g[c])
  BY Widths DEF Bars, Bar
<1>3. rest \cap Bar(c, f[c]) = {} /\ rest \cap Bar(c, g[c]) = {}
  BY DEF Bar
<1>4. /\ IsFiniteSet(rest) /\ Cardinality(rest) \in Nat
      /\ Total(f) = Cardinality(Bars(f)) /\ Total(g) = Cardinality(Bars(g))
  BY TotalIsBounded, FS_Subset, FS_CardinalityType
<1>5. f[c] \in Nat /\ g[c] \in Nat
  OBVIOUS
<1> HIDE DEF rest
<1>6. Total(f) = Cardinality(rest) + f[c]
  <2>1. IsFiniteSet(Bar(c, f[c])) /\ Cardinality(Bar(c, f[c])) = f[c]
    BY <1>5, BarIsLong
  <2>2. Cardinality(rest \cup Bar(c, f[c])) = Cardinality(rest) + f[c] - Cardinality({})
    BY <1>3, <1>4, <2>1, FS_Union
  <2> QED
    BY <1>1, <1>4, <1>5, <2>2, FS_EmptySet
<1>7. Total(g) = Cardinality(rest) + g[c]
  <2>1. IsFiniteSet(Bar(c, g[c])) /\ Cardinality(Bar(c, g[c])) = g[c]
    BY <1>5, BarIsLong
  <2>2. Cardinality(rest \cup Bar(c, g[c])) = Cardinality(rest) + g[c] - Cardinality({})
    BY <1>3, <1>4, <2>1, FS_Union
  <2> QED
    BY <1>2, <1>4, <1>5, <2>2, FS_EmptySet
<1> QED
  BY <1>4, <1>5, <1>6, <1>7

------------------------------------------------------------------------------
(* The inductive invariant of the counters                                  *)

Fields == {"at", "tail", "over", "want", "mine", "left", "index", "header", "pos", "block",
           "moved"}
Active == {"recheck", "giveBack", "claim"}

\* What the counters would be if they did not wrap around, and per consumer its `mine` and its
\* `over`.
Unwrapped ==
  [tail : Int, head : Int, optimistic : Int, overcommit : Int, mine : [Consumers -> Int],
   over : [Consumers -> Int]]

\* The locals of a consumer.
ConsumerInv(c, u) ==
  /\ DOMAIN con[c] = Fields
  /\ con[c].at \in {"overcommit", "test", "increment", "recheck", "giveBack"}
       => con[c].want \in 1 .. MaxBulk
  /\ con[c].at \in {"overcommit", "test"} => con[c].tail \in Int
  /\ con[c].at \in {"test", "increment"} =>
       /\ con[c].over = u.over[c] % N
       /\ u.over[c] <= u.overcommit /\ u.overcommit - u.over[c] <= MaxLag
  /\ con[c].at = "recheck" => con[c].mine = u.mine[c] % N /\ u.mine[c] - u.tail <= Reach
  /\ con[c].at = "giveBack" => con[c].left \in 0 .. con[c].want - 1
  /\ con[c].at = "claim" => con[c].left \in 1 .. MaxBulk

\* What the consumers would have in all, if those that have not decided yet found the tail
\* at x: min(want, x - mine) is for them then.
Taken(x, u) ==
  [c \in Consumers |->
     IF con[c].at \in {"giveBack", "claim"} THEN con[c].left
     ELSE IF con[c].at = "recheck" /\ u.mine[c] <= x THEN Least(con[c].want, x - u.mine[c])
     ELSE 0]
\* So whoever looks at the tail finds no more than there is for all.
NotTooMany(u) == \A x \in Int : x >= u.tail => u.head + Total(Taken(x, u)) <= x

\* The counters are those of u, reduced; and what CountersBalance says holds of u as it is.
CountsInv(u) ==
  /\ tailIndex = u.tail % N /\ headIndex = u.head % N
  /\ dequeueOptimisticCount = u.optimistic % N /\ dequeueOvercommit = u.overcommit % N
  /\ DOMAIN con = Consumers /\ \A c \in Consumers : ConsumerInv(c, u)
  /\ u.optimistic - u.overcommit = u.head + Total(Announced)
  /\ NotTooMany(u)

------------------------------------------------------------------------------
\* What a consumer has announced, may claim, and would be given.
LEMMA Bounds ==
  ASSUME ProducerBaseAssumption, NEW u \in Unwrapped, NEW c \in Consumers, ConsumerInv(c, u)
  PROVE  /\ Pending(c) \in 0 .. MaxBulk
         /\ \A x \in Int : Taken(x, u)[c] \in 0 .. MaxBulk /\ Taken(x, u)[c] <= Pending(c)
         /\ con[c].at \notin Active => Pending(c) = 0 /\ \A x \in Int : Taken(x, u)[c] = 0
         /\ con[c].at \in {"recheck", "giveBack"} => Pending(c) = con[c].want
         /\ con[c].at = "claim" => Pending(c) = con[c].left
         /\ Granted[c] \in 0 .. MaxBulk /\ \A x \in Int : Granted[c] <= Taken(x, u)[c]
<1>1. MaxBulk \in Nat /\ u.mine[c] \in Int
  BY Widths DEF Unwrapped
<1>2. /\ Pending(c) \in 0 .. MaxBulk
      /\ con[c].at \notin Active => Pending(c) = 0
      /\ con[c].at \in {"recheck", "giveBack"} => Pending(c) = con[c].want
      /\ con[c].at = "claim" => Pending(c) = con[c].left
  BY <1>1 DEF Pending, ConsumerInv, Active
<1>3. ASSUME NEW x \in Int
      PROVE  /\ Taken(x, u)[c] \in 0 .. MaxBulk /\ Taken(x, u)[c] <= Pending(c)
             /\ con[c].at \notin Active => Taken(x, u)[c] = 0
             /\ Granted[c] \in 0 .. MaxBulk /\ Granted[c] <= Taken(x, u)[c]
  BY <1>1 DEF Pending, ConsumerInv, Active, Taken, Least, Granted
<1> QED
  BY <1>2, <1>3

\* u2 is u but for what is of consumer c, and the head and the counts.
Moves(c, u, u2) ==
  /\ u2.tail = u.tail /\ u.overcommit <= u2.overcommit
  /\ \A d \in Consumers : d # c => u2.mine[d] = u.mine[d] /\ u2.over[d] = u.over[d]
  /\ \A d \in Consumers :
       d # c /\ con[d].at \in {"test", "increment"} => u2.overcommit - u.over[d] <= MaxLag

\* No other consumer takes part in the step; and the counters after it are those of u.
OthersRest(c) ==
  DOMAIN con' = Consumers /\ \A d \in Consumers : d # c => con'[d] = con[d]

CountersAre(u) ==
  /\ tailIndex' = u.tail % N /\ headIndex' = u.head % N
  /\ dequeueOptimisticCount' = u.optimistic % N /\ dequeueOvercommit' = u.overcommit % N

\* What a step of consumer c leaves to show.
LEMMA ConsumerStep ==
  ASSUME ProducerBaseAssumption, NEW u \in Unwrapped, CountsInv(u), NEW c \in Consumers,
         NEW u2 \in Unwrapped, Moves(c, u, u2), OthersRest(c), ConsumerInv(c, u2)',
         CountersAre(u2),
         u2.optimistic - u2.overcommit - u2.head - Pending(c)' =
           u.optimistic - u.overcommit - u.head - Pending(c),
         NotTooMany(u2)'
  PROVE  CountsInv(u2)'
<1>1. \A d \in Consumers : ConsumerInv(d, u)
  BY DEF CountsInv
<1>2. \A d \in Consumers : d # c => ConsumerInv(d, u2)'
  BY <1>1 DEF ConsumerInv, Moves, OthersRest, Unwrapped
<1>3. Pending(c) \in 0 .. MaxBulk /\ Pending(c)' \in 0 .. MaxBulk
  <2>1. Pending(c) \in 0 .. MaxBulk
    BY <1>1, Bounds
  <2>2. Pending(c)' \in 0 .. MaxBulk
    BY Widths DEF Pending, ConsumerInv
  <2> QED
    BY <2>1, <2>2
<1>4. \A d \in Consumers : d # c => Pending(d)' = Pending(d)
  BY DEF Pending, OthersRest
<1>5. Total(Announced') = Total(Announced) + Pending(c)' - Pending(c)
  <2> DEFINE f == Announced
             g == Announced'
  <2>1. f = [d \in Consumers |-> Pending(d)] /\ g = [d \in Consumers |-> Pending(d)']
    BY DEF Announced
  <2>2. /\ f[c] = Pending(c) /\ g[c] = Pending(c)'
        /\ \A d \in Consumers : d # c => f[d] = g[d]
    BY <1>4, <2>1
  <2> HIDE DEF f, g
  <2>3. Total(g) = Total(f) + g[c] - f[c]
    BY <1>3, <2>2, TotalChanges
  <2> QED
    BY <2>2, <2>3 DEF f, g
<1>6. /\ Total(Announced) \in Nat /\ u.optimistic - u.overcommit = u.head + Total(Announced)
      /\ u.optimistic \in Int /\ u.overcommit \in Int /\ u.head \in Int
      /\ u2.optimistic \in Int /\ u2.overcommit \in Int /\ u2.head \in Int
  BY TotalIsBounded DEF CountsInv, Unwrapped
<1>7. u2.optimistic - u2.overcommit = u2.head + Total(Announced')
  <2> DEFINE p == Pending(c)
             q == Pending(c)'
             m == Total(Announced)
             n == Total(Announced')
  <2>1. p \in Int /\ q \in Int /\ m \in Int
    BY <1>3, <1>6, Widths
  <2>2. /\ n = m + q - p /\ u.optimistic - u.overcommit = u.head + m
        /\ u2.optimistic - u2.overcommit - u2.head - q =
             u.optimistic - u.overcommit - u.head - p
    BY <1>5, <1>6
  <2> HIDE DEF p, q, m, n
  <2>3. u2.optimistic - u2.overcommit = u2.head + n
    BY <1>6, <2>1, <2>2
  <2> QED
    BY <2>3 DEF n
<1> QED
  BY <1>2, <1>7 DEF CountsInv, CountersAre, OthersRest

\* Where a consumer has nothing that is announced before and after the step.
LEMMA QuietStep ==
  ASSUME ProducerBaseAssumption, NEW u \in Unwrapped, CountsInv(u), NEW c \in Consumers,
         NEW u2 \in Unwrapped, Moves(c, u, u2), OthersRest(c), ConsumerInv(c, u2)',
         u2.optimistic = u.optimistic, u2.overcommit = u.overcommit, u2.head = u.head,
         UNCHANGED counters, con[c].at \notin Active, con'[c].at \notin Active
  PROVE  CountsInv(u2)'
<1>1. CountersAre(u2)
  BY DEF CountsInv, counters, Moves, CountersAre
<1>2. Pending(c) = 0 /\ Pending(c)' = 0
  BY DEF Pending, Active
<1>3. \A x \in Int : Taken(x, u2)' = Taken(x, u)
  BY DEF Taken, Active, Moves, OthersRest
<1>4. NotTooMany(u2)'
  BY <1>3 DEF CountsInv, NotTooMany, Moves
<1>5. u2.optimistic - u2.overcommit - u2.head - Pending(c)' =
        u.optimistic - u.overcommit - u.head - Pending(c)
  BY <1>2
<1> QED
  BY <1>1, <1>4, <1>5, ConsumerStep

\* What the totals say of the head.
LEMMA HeadIsBehind ==
  ASSUME ProducerBaseAssumption, NEW u \in Unwrapped, CountsInv(u)
  PROVE  /\ u.head + Total(Granted) <= u.tail
         /\ u.optimistic - u.overcommit <= u.tail + Cardinality(Consumers) * MaxBulk
         /\ Total(Granted) \in Nat
         /\ \A x \in Int : /\ Total(Taken(x, u)) <= Total(Announced)
                           /\ Total(Taken(x, u)) \in Nat
<1>1. /\ \A c \in Consumers : ConsumerInv(c, u)
      /\ u.tail \in Int /\ u.head \in Int /\ NotTooMany(u) /\ MaxBulk \in Nat
  BY Widths DEF CountsInv, Unwrapped
<1>2. \A x \in Int : Total(Granted) <= Total(Taken(x, u))
  <2> SUFFICES ASSUME NEW x \in Int
               PROVE  Total(Granted) <= Total(Taken(x, u))
    OBVIOUS
  <2>1. \A c \in Consumers : /\ Granted[c] \in Int /\ Taken(x, u)[c] \in Int
                             /\ Granted[c] <= Taken(x, u)[c]
    BY <1>1, Bounds
  <2> QED
    BY <2>1, TotalLess
<1>3. ASSUME NEW x \in Int
      PROVE  Total(Taken(x, u)) <= Total(Announced)
  <2>1. \A c \in Consumers : /\ Announced[c] \in Int /\ Taken(x, u)[c] \in Int
                             /\ Taken(x, u)[c] <= Announced[c]
    BY <1>1, Bounds DEF Announced
  <2> QED
    BY <2>1, TotalLess
<1>4. /\ Total(Granted) \in Nat /\ Total(Announced) \in Nat
      /\ Total(Announced) <= Cardinality(Consumers) * MaxBulk
      /\ \A x \in Int : Total(Taken(x, u)) \in Nat
      /\ Cardinality(Consumers) * MaxBulk \in Nat
  BY TotalIsBounded, Widths
<1>5. u.head + Total(Taken(u.tail, u)) <= u.tail
  BY <1>1 DEF NotTooMany
<1>6. u.head + Total(Granted) <= u.tail
  BY <1>1, <1>2, <1>4, <1>5
<1>7. u.optimistic - u.overcommit = u.head + Total(Announced)
  BY DEF CountsInv
<1>8. u.optimistic - u.overcommit <= u.tail + Cardinality(Consumers) * MaxBulk
  BY <1>1, <1>4, <1>6, <1>7
<1> QED
  BY <1>3, <1>4, <1>6, <1>8

------------------------------------------------------------------------------
(* The steps of consumers                                                   *)

\* The variables of c after a step that sets them.
LEMMA Updated ==
  ASSUME NEW u, CountsInv(u), NEW c \in Consumers, NEW l, con' = [con EXCEPT ![c] = l]
  PROVE  OthersRest(c) /\ con'[c] = l
BY DEF CountsInv, OthersRest

\* The steps of a consumer that finds out whether there is something for it.
LEMMA BeginDequeueStep ==
  ASSUME ProducerBaseAssumption, NEW u \in Unwrapped, CountsInv(u), NEW c \in Consumers,
         NEW max \in 1 .. MaxBulk, BeginDequeue(c, max)
  PROVE  CountsInv(u)'
<1> DEFINE l == [Idle EXCEPT !.at = "overcommit", !.tail = tailIndex, !.want = max]
<1>1. con[c].at = "idle" /\ con' = [con EXCEPT ![c] = l] /\ UNCHANGED counters
  BY DEF BeginDequeue
<1>2. DOMAIN l = Fields /\ l.at = "overcommit" /\ l.want = max /\ l.tail = tailIndex
  BY DEF Idle, Fields
<1> HIDE DEF l
<1>3. OthersRest(c) /\ con'[c] = l
  BY <1>1, Updated
<1>4. ConsumerInv(c, u)'
  <2>1. tailIndex \in Int
    BY Reduced DEF CountsInv, Unwrapped
  <2> QED
    BY <1>2, <1>3, <2>1, Widths DEF ConsumerInv
<1>5. Moves(c, u, u)
  BY DEF Moves, CountsInv, ConsumerInv, Unwrapped
<1> QED
  BY <1>1, <1>2, <1>3, <1>4, <1>5, QuietStep DEF Active

LEMMA LoadOvercommitStep ==
  ASSUME ProducerBaseAssumption, NEW u \in Unwrapped, CountsInv(u), NEW c \in Consumers,
         LoadOvercommit(c)
  PROVE  \E u2 \in Unwrapped : CountsInv(u2)' /\ u2.tail = u.tail /\ u2.head = u.head
<1> DEFINE l == [con[c] EXCEPT !.over = dequeueOvercommit, !.at = "test"]
           u2 == [u EXCEPT !.over[c] = u.overcommit]
<1>1. /\ con[c].at = "overcommit" /\ con' = [con EXCEPT ![c] = l] /\ UNCHANGED counters
      /\ ConsumerInv(c, u)
  BY DEF LoadOvercommit, CountsInv
<1>2. /\ DOMAIN l = Fields /\ l.at = "test" /\ l.want = con[c].want
      /\ l.tail = con[c].tail /\ l.over = dequeueOvercommit
  BY <1>1 DEF ConsumerInv, Fields
<1> HIDE DEF l
<1>3. OthersRest(c) /\ con'[c] = l
  BY <1>1, Updated
<1>4. /\ u2 \in Unwrapped /\ u2.tail = u.tail /\ u2.head = u.head
      /\ u2.optimistic = u.optimistic /\ u2.overcommit = u.overcommit /\ u2.mine = u.mine
      /\ u2.over[c] = u.overcommit /\ \A d \in Consumers : d # c => u2.over[d] = u.over[d]
      /\ u.overcommit \in Int
  BY DEF Unwrapped
<1> HIDE DEF u2
<1>5. ConsumerInv(c, u2)'
  BY <1>1, <1>2, <1>3, <1>4, Widths DEF ConsumerInv, CountsInv
<1>6. Moves(c, u, u2)
  BY <1>4 DEF Moves, CountsInv, ConsumerInv
<1>7. CountsInv(u2)'
  BY <1>1, <1>2, <1>3, <1>4, <1>5, <1>6, QuietStep DEF Active
<1> QED
  BY <1>4, <1>7

LEMMA TestOptimisticStep ==
  ASSUME ProducerBaseAssumption, NEW u \in Unwrapped, CountsInv(u), NEW c \in Consumers,
         TestOptimistic(c)
  PROVE  CountsInv(u)'
<1> DEFINE desired == Sub(con[c].tail, Sub(dequeueOptimisticCount, con[c].over))
           more == CircularLessThan(0, desired)
           l == IF more
                THEN [con[c] EXCEPT !.want = Least(desired, con[c].want), !.at = "increment"]
                ELSE Idle
<1>1. /\ con[c].at = "test" /\ con' = [con EXCEPT ![c] = l] /\ UNCHANGED counters
      /\ ConsumerInv(c, u)
  <2>1. con[c].at = "test" /\ UNCHANGED counters /\ ConsumerInv(c, u)
    BY DEF TestOptimistic, CountsInv
  <2>2. con' = [con EXCEPT ![c] = l]
    BY Zenon DEF TestOptimistic
  <2> QED
    BY <2>1, <2>2
<1>2. CASE more
  <2>1. desired \in 1 .. N
    <3> DEFINE s == Sub(dequeueOptimisticCount, con[c].over)
    <3>1. con[c].tail \in Int /\ u.optimistic \in Int /\ u.over[c] \in Int
      BY <1>1 DEF ConsumerInv, Unwrapped
    <3>2. s = (u.optimistic - u.over[c]) % N
      BY <1>1, <3>1, SubReduced DEF ConsumerInv, CountsInv
    <3>3. s \in Int
      BY <3>1, <3>2, Reduced
    <3> HIDE DEF s
    <3>4. con[c].tail - s \in Int /\ Sub(con[c].tail, s) = (con[c].tail - s) % N
      BY <3>1, <3>3 DEF Sub, N
    <3>5. (con[c].tail - s) % N \in 1 .. N
      BY <1>2, <3>4, Wanted DEF s
    <3> QED
      BY <3>4, <3>5 DEF s
  <2>2. /\ DOMAIN l = Fields /\ l.at = "increment" /\ l.over = con[c].over
        /\ l.want = Least(desired, con[c].want)
    BY <1>1, <1>2 DEF ConsumerInv, Fields
  <2>3. con[c].want \in 1 .. MaxBulk
    BY <1>1 DEF ConsumerInv
  <2> HIDE DEF l, desired
  <2>4. l.want \in 1 .. MaxBulk
    BY <2>1, <2>2, <2>3, Widths DEF Least
  <2>5. OthersRest(c) /\ con'[c] = l
    BY <1>1, Updated
  <2>6. ConsumerInv(c, u)'
    BY <1>1, <2>2, <2>4, <2>5 DEF ConsumerInv
  <2>7. Moves(c, u, u)
    BY DEF Moves, CountsInv, ConsumerInv, Unwrapped
  <2> QED
    BY <1>1, <2>2, <2>5, <2>6, <2>7, QuietStep DEF Active
<1>3. CASE ~more
  <2>1. DOMAIN l = Fields /\ l.at = "idle"
    BY <1>3 DEF Idle, Fields
  <2> HIDE DEF l, more
  <2>2. OthersRest(c) /\ con'[c] = l
    BY <1>1, Updated
  <2>3. ConsumerInv(c, u)'
    BY <2>1, <2>2 DEF ConsumerInv
  <2>4. Moves(c, u, u)
    BY DEF Moves, CountsInv, ConsumerInv, Unwrapped
  <2> QED
    BY <1>1, <2>1, <2>2, <2>3, <2>4, QuietStep DEF Active
<1> QED
  BY <1>2, <1>3

LEMMA IncrementStep ==
  ASSUME ProducerBaseAssumption, NEW u \in Unwrapped, CountsInv(u), NEW c \in Consumers,
         Increment(c)
  PROVE  \E u2 \in Unwrapped : CountsInv(u2)' /\ u2.tail = u.tail /\ u2.head = u.head
<1>0. PICK n : n = con[c].want
  OBVIOUS
<1> DEFINE m == u.optimistic - u.over[c]
           o2 == u.optimistic + n
           mine2 == [u.mine EXCEPT ![c] = m]
           u2 == [u EXCEPT !.optimistic = o2, !.mine = mine2]
           l == [con[c] EXCEPT !.mine = Sub(dequeueOptimisticCount, con[c].over), !.over = 0,
                               !.at = "recheck"]
<1>1. /\ con[c].at = "increment" /\ con' = [con EXCEPT ![c] = l]
      /\ dequeueOptimisticCount' = Add(dequeueOptimisticCount, n)
      /\ UNCHANGED <<tailIndex, headIndex, dequeueOvercommit>>
      /\ ConsumerInv(c, u)
  BY <1>0 DEF Increment, CountsInv
<1>2. /\ n \in 1 .. MaxBulk /\ MaxBulk \in Nat
      /\ con[c].over = u.over[c] % N
      /\ u.over[c] <= u.overcommit /\ u.overcommit - u.over[c] <= MaxLag /\ MaxLag \in Nat
      /\ DOMAIN con[c] = Fields
  BY <1>0, <1>1, Widths DEF ConsumerInv
<1>3. /\ u.over[c] \in Int /\ u.optimistic \in Int /\ u.overcommit \in Int /\ u.head \in Int
      /\ u.tail \in Int
  BY DEF Unwrapped
<1>4. /\ u2 \in Unwrapped /\ u2.tail = u.tail /\ u2.head = u.head
      /\ u2.optimistic = u.optimistic + n /\ u2.overcommit = u.overcommit /\ u2.over = u.over
      /\ u2.mine[c] = m /\ \A d \in Consumers : d # c => u2.mine[d] = u.mine[d]
  <2>1. n \in Int /\ m \in Int /\ u.mine \in [Consumers -> Int]
    BY <1>2, <1>3 DEF Unwrapped
  <2> HIDE DEF m
  <2>2. /\ o2 \in Int /\ mine2 \in [Consumers -> Int] /\ mine2[c] = m
        /\ \A d \in Consumers : d # c => mine2[d] = u.mine[d]
    BY <1>3, <2>1
  <2>3. o2 = u.optimistic + n
    OBVIOUS
  <2> HIDE DEF o2, mine2
  <2>4. /\ u2 \in Unwrapped /\ u2.optimistic = o2 /\ u2.mine = mine2
        /\ u2.tail = u.tail /\ u2.head = u.head /\ u2.overcommit = u.overcommit
        /\ u2.over = u.over
    BY <2>2 DEF Unwrapped
  <2> QED
    BY <2>2, <2>3, <2>4
<1>5. /\ DOMAIN l = Fields /\ l.at = "recheck" /\ l.want = n
      /\ l.mine = Sub(dequeueOptimisticCount, con[c].over)
  BY <1>0, <1>2 DEF Fields
<1>6. m \in Int
  BY <1>3
<1> HIDE DEF u2, l, m
<1>7. OthersRest(c) /\ con'[c] = l
  BY <1>1, Updated
<1>8. l.mine = m % N
  BY <1>2, <1>3, <1>5, SubReduced DEF CountsInv, m
<1>9. m - u.tail <= Reach
  <2> DEFINE r == Cardinality(Consumers) * MaxBulk
  <2>1. u.optimistic - u.overcommit <= u.tail + r /\ r \in Nat
    BY HeadIsBehind, Widths
  <2>2. Reach = MaxLag + r
    BY DEF Reach
  <2> HIDE DEF r
  <2> QED
    BY <1>2, <1>3, <2>1, <2>2 DEF m
<1>10. ConsumerInv(c, u2)'
  BY <1>2, <1>4, <1>5, <1>7, <1>8, <1>9 DEF ConsumerInv
<1>11. Moves(c, u, u2)
  BY <1>3, <1>4 DEF Moves, CountsInv, ConsumerInv
<1>12. CountersAre(u2)
  <2>1. dequeueOptimisticCount' = (u.optimistic + n) % N
    <3>1. n \in Int
      BY <1>2
    <3> QED
      BY <1>1, <1>3, <3>1, AddReduced DEF CountsInv
  <2> QED
    BY <1>1, <1>4, <2>1 DEF CountsInv, CountersAre
<1>13. Pending(c) = 0 /\ Pending(c)' = n
  BY <1>1, <1>5, <1>7 DEF Pending
<1>14. u2.optimistic - u2.overcommit - u2.head - Pending(c)' =
         u.optimistic - u.overcommit - u.head - Pending(c)
  BY <1>2, <1>3, <1>4, <1>13
<1>15. NotTooMany(u2)'
  <2> SUFFICES ASSUME NEW x \in Int, x >= u.tail
               PROVE  u.head + Total(Taken(x, u2)') <= x
    BY <1>4 DEF NotTooMany
  <2>0. PICK f, g : f = Taken(x, u) /\ g = Taken(x, u2)'
    OBVIOUS
  <2>1. /\ \A d \in Consumers : d # c => f[d] = g[d]
        /\ f[c] = 0
        /\ g[c] = IF m <= x THEN Least(n, x - m) ELSE 0
    BY <1>1, <1>4, <1>5, <1>7, <2>0 DEF Taken, OthersRest
  <2>2. /\ u.head + Total(f) <= x /\ Total(f) \in Nat /\ Total(f) <= Total(Announced)
        /\ Total(Announced) \in Nat
        /\ u.optimistic - u.overcommit = u.head + Total(Announced)
    BY <2>0, HeadIsBehind, TotalIsBounded DEF CountsInv, NotTooMany
  <2>3. g[c] \in 0 .. MaxBulk /\ (m <= x => g[c] <= x - m) /\ (m > x => g[c] = 0)
    BY <1>2, <1>6, <2>1 DEF Least
  <2>4. Total(g) = Total(f) + g[c] - f[c]
    <3>1. f[c] \in 0 .. MaxBulk
      BY <1>2, <2>1
    <3> QED
      BY <2>1, <2>3, <3>1, TotalChanges
  <2>5. u.head + Total(f) <= m
    <3> DEFINE t == Total(f)
               a == Total(Announced)
    <3>1. t \in Nat /\ a \in Nat /\ t <= a /\ u.optimistic - u.overcommit = u.head + a
      BY <2>2
    <3> HIDE DEF t, a
    <3>2. u.head + t <= m
      BY <1>2, <1>3, <3>1 DEF m
    <3> QED
      BY <3>2 DEF t
  <2>6. u.head + Total(g) <= x
    BY <1>3, <1>6, <2>1, <2>2, <2>3, <2>4, <2>5
  <2> QED
    BY <2>0, <2>6
<1>16. CountsInv(u2)'
  BY <1>4, <1>7, <1>10, <1>11, <1>12, <1>14, <1>15, ConsumerStep
<1> QED
  BY <1>4, <1>16

\* A consumer whose number does not grow leaves enough for all.
LEMMA TakesNoMore ==
  ASSUME ProducerBaseAssumption, NEW u \in Unwrapped, CountsInv(u), NEW c \in Consumers,
         NEW u2 \in Unwrapped, Moves(c, u, u2), OthersRest(c), u2.head = u.head,
         \A x \in Int : /\ Taken(x, u2)'[c] \in Int
                        /\ x >= u.tail => Taken(x, u2)'[c] <= Taken(x, u)[c]
  PROVE  NotTooMany(u2)'
<1> SUFFICES ASSUME NEW x \in Int, x >= u.tail
             PROVE  u.head + Total(Taken(x, u2)') <= x
  BY DEF NotTooMany, Moves
<1>1. PICK f, g : f = Taken(x, u) /\ g = Taken(x, u2)'
  OBVIOUS
<1>2. \A d \in Consumers : d # c => f[d] = g[d]
  BY <1>1 DEF Taken, OthersRest, Moves
<1>3. \A d \in Consumers : f[d] \in Int
  BY <1>1, Bounds, Widths DEF CountsInv
<1>4. g[c] \in Int /\ g[c] <= f[c]
  BY <1>1
<1>5. \A d \in Consumers : f[d] \in Int /\ g[d] \in Int /\ g[d] <= f[d]
  BY <1>2, <1>3, <1>4
<1>6. Total(g) <= Total(f) /\ Total(g) \in Nat /\ Total(f) \in Nat
  BY <1>5, TotalLess, TotalIsBounded
<1>7. u.head + Total(f) <= x
  BY <1>1 DEF CountsInv, NotTooMany
<1>8. u.head \in Int
  BY DEF Unwrapped
<1> QED
  BY <1>1, <1>6, <1>7, <1>8

LEMMA RecheckStep ==
  ASSUME ProducerBaseAssumption, NEW u \in Unwrapped, CountsInv(u), NEW c \in Consumers,
         Recheck(c)
  PROVE  CountsInv(u)'
<1> DEFINE m == u.mine[c]
           actual == Sub(tailIndex, con[c].mine)
           left == IF CircularLessThan(0, actual) THEN Least(con[c].want, actual) ELSE 0
           l == [con[c] EXCEPT !.mine = 0, !.tail = 0, !.left = left,
                               !.at = IF left < con[c].want THEN "giveBack" ELSE "claim"]
<1>1. /\ con[c].at = "recheck" /\ con' = [con EXCEPT ![c] = l] /\ UNCHANGED counters
      /\ ConsumerInv(c, u)
  BY DEF Recheck, CountsInv
<1>2. /\ con[c].want \in 1 .. MaxBulk /\ MaxBulk \in Nat /\ DOMAIN con[c] = Fields
      /\ con[c].mine = m % N /\ m - u.tail <= Reach /\ m \in Int /\ u.tail \in Int
  BY <1>1, Widths DEF ConsumerInv, Unwrapped
<1>3. actual = (u.tail - m) % N
  BY <1>2, SubReduced DEF CountsInv
<1>4. u.tail - m \in Int /\ u.tail - m >= -Half
  BY <1>2, Widths
<1>5. /\ left \in 0 .. con[c].want
      /\ left > 0 => m < u.tail /\ left <= u.tail - m
  <2>1. CASE CircularLessThan(0, actual)
    <3>1. actual \in 1 .. N /\ actual <= u.tail - m /\ u.tail - m > 0
      BY <1>3, <1>4, <2>1, Ahead
    <3>2. left = Least(con[c].want, actual)
      BY <2>1
    <3> HIDE DEF actual, left, m
    <3> QED
      BY <1>2, <3>1, <3>2, Widths DEF Least
  <2>2. CASE ~CircularLessThan(0, actual)
    <3>1. left = 0
      BY <2>2
    <3> HIDE DEF left
    <3> QED
      BY <1>2, <3>1
  <2> QED
    BY <2>1, <2>2
<1>6. /\ DOMAIN l = Fields /\ l.want = con[c].want /\ l.left = left
      /\ l.at = IF left < con[c].want THEN "giveBack" ELSE "claim"
  BY <1>2 DEF Fields
<1> HIDE DEF l, left, actual, m
<1>7. OthersRest(c) /\ con'[c] = l
  BY <1>1, Updated
<1>8. ConsumerInv(c, u)'
  BY <1>2, <1>5, <1>6, <1>7 DEF ConsumerInv
<1>9. Moves(c, u, u)
  BY DEF Moves, CountsInv, ConsumerInv, Unwrapped
<1>10. CountersAre(u)
  BY <1>1 DEF CountsInv, counters, CountersAre
<1>11. Pending(c) = con[c].want /\ Pending(c)' = con[c].want
  BY <1>1, <1>2, <1>5, <1>6, <1>7 DEF Pending
<1>12. u.optimistic - u.overcommit - u.head - Pending(c)' =
         u.optimistic - u.overcommit - u.head - Pending(c)
  BY <1>11
<1>13. NotTooMany(u)'
  <2> SUFFICES ASSUME NEW x \in Int
               PROVE  /\ Taken(x, u)'[c] \in Int
                      /\ x >= u.tail => Taken(x, u)'[c] <= Taken(x, u)[c]
    BY <1>7, <1>9, TakesNoMore
  <2>1. Taken(x, u)'[c] = left
    BY <1>6, <1>7 DEF Taken
  <2>2. Taken(x, u)[c] = IF m <= x THEN Least(con[c].want, x - m) ELSE 0
    BY <1>1 DEF Taken, m
  <2> QED
    BY <1>2, <1>5, <2>1, <2>2 DEF Least
<1> QED
  BY <1>7, <1>8, <1>9, <1>10, <1>12, <1>13, ConsumerStep

LEMMA GiveBackStep ==
  ASSUME ProducerBaseAssumption, NEW u \in Unwrapped, CountsInv(u), NEW c \in Consumers,
         GiveBack(c), InTime'
  PROVE  \E u2 \in Unwrapped : CountsInv(u2)' /\ u2.tail = u.tail /\ u2.head = u.head
<1>1. PICK n : n = con[c].want - con[c].left
  OBVIOUS
<1> DEFINE o2 == u.overcommit + n
           u2 == [u EXCEPT !.overcommit = o2]
           l == IF con[c].left = 0 THEN Idle
                ELSE [con[c] EXCEPT !.want = con[c].left, !.at = "claim"]
<1>2. /\ con[c].at = "giveBack" /\ con' = [con EXCEPT ![c] = l]
      /\ dequeueOvercommit' = Add(dequeueOvercommit, n)
      /\ UNCHANGED <<tailIndex, headIndex, dequeueOptimisticCount>>
      /\ ConsumerInv(c, u)
  BY <1>1 DEF GiveBack, CountsInv
<1>3. /\ con[c].want \in 1 .. MaxBulk /\ con[c].left \in 0 .. con[c].want - 1
      /\ MaxBulk \in Nat /\ DOMAIN con[c] = Fields
  BY <1>2, Widths DEF ConsumerInv
<1>4. n \in 1 .. MaxBulk /\ n \in Int
  BY <1>1, <1>3
<1>5. /\ u.optimistic \in Int /\ u.overcommit \in Int /\ u.head \in Int /\ u.tail \in Int
      /\ o2 \in Int /\ o2 >= u.overcommit
  BY <1>4 DEF Unwrapped
<1>6. o2 = u.overcommit + n
  OBVIOUS
<1> HIDE DEF o2
<1>7. /\ u2 \in Unwrapped /\ u2.tail = u.tail /\ u2.head = u.head /\ u2.overcommit = o2
      /\ u2.optimistic = u.optimistic /\ u2.over = u.over /\ u2.mine = u.mine
  BY <1>5 DEF Unwrapped
<1>8. /\ DOMAIN l = Fields
      /\ con[c].left = 0 => l.at = "idle"
      /\ con[c].left # 0 => l.at = "claim" /\ l.left = con[c].left
  BY <1>3 DEF Fields, Idle
<1> HIDE DEF u2, l
<1>9. OthersRest(c) /\ con'[c] = l
  BY <1>2, Updated
<1>10. ConsumerInv(c, u2)'
  BY <1>3, <1>8, <1>9 DEF ConsumerInv
<1>11. dequeueOvercommit' = o2 % N
  BY <1>2, <1>4, <1>5, <1>6, AddReduced DEF CountsInv
<1>12. ASSUME NEW d \in Consumers, d # c, con[d].at \in {"test", "increment"}
       PROVE  o2 - u.over[d] <= MaxLag
  <2>1. con'[d] = con[d]
    BY <1>9, <1>12 DEF OthersRest
  <2>2. Sub(dequeueOvercommit', con'[d].over) <= MaxLag
    BY <1>12, <2>1 DEF InTime
  <2>3. /\ con[d].over = u.over[d] % N /\ u.over[d] \in Int
        /\ u.over[d] <= u.overcommit /\ u.overcommit - u.over[d] <= MaxLag
    BY <1>12 DEF CountsInv, ConsumerInv, Unwrapped
  <2>4. Sub(dequeueOvercommit', con'[d].over) = (o2 - u.over[d]) % N
    BY <1>5, <1>11, <2>1, <2>3, SubReduced
  <2>5. o2 - u.over[d] \in 0 .. N - 1
    <3>1. N > Reach /\ Reach >= MaxLag + MaxBulk /\ N \in Nat /\ Reach \in Nat /\ MaxLag \in Nat
      <4>1. Cardinality(Consumers) >= 1
        BY Widths, FS_EmptySet, FS_CardinalityType
      <4>2. Cardinality(Consumers) * MaxBulk >= MaxBulk
        BY <1>3, <4>1, Widths, SMT
      <4> QED
        BY <1>3, <4>2, Widths DEF Reach
    <3> QED
      BY <1>3, <1>4, <1>5, <1>6, <2>3, <3>1
  <2>6. o2 - u.over[d] \in Int
    BY <1>5, <2>3
  <2> QED
    BY <2>2, <2>4, <2>5, <2>6, Reduced
<1>13. Moves(c, u, u2)
  BY <1>5, <1>7, <1>12 DEF Moves
<1>14. CountersAre(u2)
  BY <1>2, <1>7, <1>11 DEF CountsInv, CountersAre
<1>15. Pending(c) = con[c].want /\ Pending(c)' = con[c].left
  BY <1>2, <1>3, <1>8, <1>9 DEF Pending
<1>16. u2.optimistic - u2.overcommit - u2.head - Pending(c)' =
         u.optimistic - u.overcommit - u.head - Pending(c)
  BY <1>1, <1>3, <1>5, <1>6, <1>7, <1>15
<1>17. NotTooMany(u2)'
  <2> SUFFICES ASSUME NEW x \in Int
               PROVE  /\ Taken(x, u2)'[c] \in Int
                      /\ x >= u.tail => Taken(x, u2)'[c] <= Taken(x, u)[c]
    BY <1>7, <1>9, <1>13, TakesNoMore
  <2>1. Taken(x, u2)'[c] = con[c].left
    BY <1>3, <1>8, <1>9 DEF Taken
  <2>2. Taken(x, u)[c] = con[c].left
    BY <1>2 DEF Taken
  <2> QED
    BY <1>3, <2>1, <2>2
<1>18. CountsInv(u2)'
  BY <1>7, <1>9, <1>10, <1>13, <1>14, <1>16, <1>17, ConsumerStep
<1> QED
  BY <1>7, <1>18

LEMMA ClaimStep ==
  ASSUME ProducerBaseAssumption, NEW u \in Unwrapped, CountsInv(u), NEW c \in Consumers,
         Claim(c)
  PROVE  \E u2 \in Unwrapped : CountsInv(u2)' /\ u2.tail = u.tail /\ u2.head >= u.head
<1>1. PICK n : n = con[c].left
  OBVIOUS
<1> DEFINE h2 == u.head + n
           u2 == [u EXCEPT !.head = h2]
           l == [con[c] EXCEPT !.index = headIndex, !.want = 0, !.at = "locate"]
<1>2. /\ con[c].at = "claim" /\ con' = [con EXCEPT ![c] = l]
      /\ headIndex' = Add(headIndex, n)
      /\ UNCHANGED <<tailIndex, dequeueOptimisticCount, dequeueOvercommit>>
      /\ ConsumerInv(c, u)
  BY <1>1 DEF Claim, CountsInv
<1>3. n \in 1 .. MaxBulk /\ MaxBulk \in Nat /\ DOMAIN con[c] = Fields
  BY <1>1, <1>2, Widths DEF ConsumerInv
<1>4. n \in Int /\ n > 0
  BY <1>3
<1>5. /\ u.optimistic \in Int /\ u.overcommit \in Int /\ u.head \in Int /\ u.tail \in Int
      /\ h2 \in Int /\ h2 >= u.head
  BY <1>4 DEF Unwrapped
<1>6. h2 = u.head + n
  OBVIOUS
<1> HIDE DEF h2
<1>7. /\ u2 \in Unwrapped /\ u2.tail = u.tail /\ u2.head = h2
      /\ u2.overcommit = u.overcommit
      /\ u2.optimistic = u.optimistic /\ u2.over = u.over /\ u2.mine = u.mine
  BY <1>5 DEF Unwrapped
<1>8. DOMAIN l = Fields /\ l.at = "locate"
  BY <1>3 DEF Fields
<1> HIDE DEF u2, l
<1>9. OthersRest(c) /\ con'[c] = l
  BY <1>2, Updated
<1>10. ConsumerInv(c, u2)'
  BY <1>8, <1>9 DEF ConsumerInv
<1>11. Moves(c, u, u2)
  BY <1>5, <1>7 DEF Moves, CountsInv, ConsumerInv
<1>12. CountersAre(u2)
  <2>1. headIndex' = h2 % N
    BY <1>2, <1>4, <1>5, <1>6, AddReduced DEF CountsInv
  <2> QED
    BY <1>2, <1>7, <2>1 DEF CountsInv, CountersAre
<1>13. Pending(c) = n /\ Pending(c)' = 0
  BY <1>1, <1>2, <1>8, <1>9 DEF Pending
<1>14. u2.optimistic - u2.overcommit - u2.head - Pending(c)' =
         u.optimistic - u.overcommit - u.head - Pending(c)
  BY <1>4, <1>5, <1>6, <1>7, <1>13
<1>15. NotTooMany(u2)'
  <2> SUFFICES ASSUME NEW x \in Int, x >= u.tail
               PROVE  h2 + Total(Taken(x, u2)') <= x
    BY <1>7 DEF NotTooMany
  <2>1. PICK f, g : f = Taken(x, u) /\ g = Taken(x, u2)'
    OBVIOUS
  <2>2. f[c] = n /\ g[c] = 0 /\ \A d \in Consumers : d # c => f[d] = g[d]
    BY <1>1, <1>2, <1>7, <1>8, <1>9, <2>1 DEF Taken, OthersRest
  <2>3. f[c] \in 0 .. MaxBulk /\ g[c] \in 0 .. MaxBulk
    BY <1>3, <2>2
  <2>4. Total(g) = Total(f) + g[c] - f[c]
    BY <2>2, <2>3, TotalChanges
  <2>5. u.head + Total(f) <= x /\ Total(f) \in Nat
    BY <2>1, TotalIsBounded DEF CountsInv, NotTooMany
  <2>6. h2 + Total(g) <= x
    BY <1>4, <1>5, <1>6, <2>2, <2>4, <2>5
  <2> QED
    BY <2>1, <2>6
<1>16. CountsInv(u2)'
  BY <1>7, <1>9, <1>10, <1>11, <1>12, <1>14, <1>15, ConsumerStep
<1> QED
  BY <1>5, <1>7, <1>16

\* The steps of a consumer that has its items.
LEMMA LaterStep ==
  ASSUME ProducerBaseAssumption, NEW u \in Unwrapped, CountsInv(u), NEW c \in Consumers,
         OthersRest(c), UNCHANGED counters,
         con[c].at \in {"locate", "front", "key", "portion", "move", "close", "clear", "free"},
         con'[c].at \in {"idle", "locate", "front", "key", "portion", "move", "close", "clear",
                         "free"},
         DOMAIN con'[c] = Fields
  PROVE  CountsInv(u)'
<1>1. ConsumerInv(c, u)'
  BY DEF ConsumerInv
<1>2. Moves(c, u, u)
  BY DEF Moves, CountsInv, ConsumerInv, Unwrapped
<1> QED
  BY <1>1, <1>2, QuietStep DEF Active

\* How consumers leave the counters as they are, or let the head advance.
LEMMA BaseStepOfConsumer ==
  ASSUME ProducerBaseAssumption, NEW u \in Unwrapped, CountsInv(u), NEW c \in Consumers,
         BaseStep(c), InTime'
  PROVE  \E u2 \in Unwrapped : CountsInv(u2)' /\ u2.tail = u.tail /\ u2.head >= u.head
<1>0. u.head \in Int /\ u.head >= u.head
  BY DEF Unwrapped
<1>1. ASSUME NEW max \in 1 .. MaxBulk, BeginDequeue(c, max)
      PROVE  CountsInv(u)'
  BY <1>1, BeginDequeueStep
<1>2. CASE TestOptimistic(c) \/ Recheck(c)
  BY <1>0, <1>2, TestOptimisticStep, RecheckStep
<1>3. CASE LoadOvercommit(c) \/ Increment(c) \/ GiveBack(c)
  BY <1>0, <1>3, LoadOvercommitStep, IncrementStep, GiveBackStep
<1>4. CASE Claim(c)
  BY <1>4, ClaimStep
<1>5. CASE Move(c)
  <2> DEFINE i == con[c].index
             l == [con[c] EXCEPT !.index = Add(i, 1), !.left = con[c].left - 1,
                                 !.moved = con[c].moved + 1,
                                 !.at = IF con[c].left = 1 \/ Slot(i) = BLOCK_SIZE - 1
                                        THEN "close" ELSE "move"]
  <2>1. con[c].at = "move" /\ con' = [con EXCEPT ![c] = l] /\ UNCHANGED counters
    BY <1>5 DEF Move, CountsInv
  <2>2. DOMAIN con[c] = Fields
    BY DEF CountsInv, ConsumerInv
  <2>3. DOMAIN l = Fields /\ l.at \in {"close", "move"}
    BY <2>2 DEF Fields
  <2> HIDE DEF l
  <2>4. OthersRest(c) /\ con'[c] = l
    BY <2>1, Updated
  <2>5. CountsInv(u)'
    BY <2>1, <2>3, <2>4, LaterStep
  <2> QED
    BY <1>0, <2>5
<1> QED
  BY <1>0, <1>1, <1>2, <1>3, <1>4, <1>5 DEF BaseStep

LEMMA ConsumeKeepsCounts ==
  ASSUME ProducerBaseAssumption, NEW u \in Unwrapped, CountsInv(u), NEW c \in Consumers,
         Consume(c), InTime'
  PROVE  /\ \E u2 \in Unwrapped : CountsInv(u2)' /\ u2.tail = u.tail /\ u2.head >= u.head
         /\ pro' = pro
<1>0. u.head \in Int /\ u.head >= u.head /\ DOMAIN con[c] = Fields
  BY DEF Unwrapped, CountsInv, ConsumerInv
<1>1. CASE BaseStep(c) /\ UNCHANGED own
  BY <1>1, BaseStepOfConsumer DEF own
<1>2. ASSUME NEW l, con' = [con EXCEPT ![c] = l], UNCHANGED <<counters, pro>>,
             con[c].at \in {"locate", "front", "key", "portion", "move", "close", "clear",
                            "free"},
             DOMAIN l = Fields,
             l.at \in {"idle", "locate", "front", "key", "portion", "move", "close", "clear",
                       "free"}
      PROVE  CountsInv(u)' /\ pro' = pro
  <2>1. OthersRest(c) /\ con'[c] = l
    BY <1>2, Updated
  <2> QED
    BY <1>2, <2>1, LaterStep
<1>3. CASE Locate(c)
  <2> DEFINE l == [con[c] EXCEPT !.header = blockIndex, !.at = "front"]
  <2>1. /\ con[c].at = "locate" /\ con' = [con EXCEPT ![c] = l]
        /\ UNCHANGED <<counters, pro>>
    BY <1>3 DEF Locate, own
  <2>2. DOMAIN l = Fields /\ l.at = "front"
    BY <1>0 DEF Fields
  <2> HIDE DEF l
  <2> QED
    BY <1>0, <1>2, <2>1, <2>2
<1>4. CASE LoadTail(c)
  <2> DEFINE l == [con[c] EXCEPT !.pos = headers[con[c].header].tail, !.at = "key"]
  <2>1. /\ con[c].at = "front" /\ con' = [con EXCEPT ![c] = l]
        /\ UNCHANGED <<counters, pro>>
    BY <1>4 DEF LoadTail, own
  <2>2. DOMAIN l = Fields /\ l.at = "key"
    BY <1>0 DEF Fields
  <2> HIDE DEF l
  <2> QED
    BY <1>0, <1>2, <2>1, <2>2
<1>5. CASE LoadKey(c)
  <2> DEFINE h == con[c].header
             key == entries[EntryAt(h, con[c].pos)].key
             p == PositionOf(Base(con[c].index), con[c].pos, key, h)
             l == [con[c] EXCEPT !.pos = p, !.at = "portion"]
  <2>1. /\ con[c].at = "key" /\ con' = [con EXCEPT ![c] = l]
        /\ UNCHANGED <<counters, pro>>
    BY <1>5 DEF LoadKey, own
  <2> HIDE DEF p
  <2>2. DOMAIN l = Fields /\ l.at = "portion"
    BY <1>0 DEF Fields
  <2> HIDE DEF l
  <2> QED
    BY <1>0, <1>2, <2>1, <2>2
<1>6. CASE OpenBlock(c)
  <2> DEFINE l == [con[c] EXCEPT !.block = entries[Located(c)].value, !.at = "move"]
  <2>1. /\ con[c].at = "portion" /\ con' = [con EXCEPT ![c] = l]
        /\ UNCHANGED <<counters, pro>>
    BY <1>6 DEF OpenBlock, own
  <2>2. DOMAIN l = Fields /\ l.at = "move"
    BY <1>0 DEF Fields
  <2> HIDE DEF l
  <2> QED
    BY <1>0, <1>2, <2>1, <2>2
<1>7. ASSUME Onward(c), UNCHANGED <<counters, pro>>, con[c].at \in {"close", "free"}
      PROVE  CountsInv(u)' /\ pro' = pro
  <2> DEFINE p == (con[c].pos + 1) % Capacity(con[c].header)
             l == IF con[c].left = 0 THEN Idle
                  ELSE [con[c] EXCEPT !.pos = p, !.block = Null, !.moved = 0, !.at = "portion"]
  <2>1. con' = [con EXCEPT ![c] = l]
    BY <1>7 DEF Onward
  <2> HIDE DEF p
  <2>2. DOMAIN l = Fields /\ l.at \in {"idle", "portion"}
    BY <1>0 DEF Fields, Idle
  <2> HIDE DEF l
  <2> QED
    BY <1>2, <1>7, <2>1, <2>2
<1>8. CASE SetEmpty(c)
  <2>1. con[c].at = "close" /\ UNCHANGED <<counters, pro>>
    BY <1>8 DEF SetEmpty
  <2>2. CASE Onward(c)
    BY <1>0, <1>7, <2>1, <2>2
  <2>3. CASE con' = [con EXCEPT ![c].at = "clear"]
    <3> DEFINE l == [con[c] EXCEPT !.at = "clear"]
    <3>1. con' = [con EXCEPT ![c] = l]
      BY <2>3
    <3>2. DOMAIN l = Fields /\ l.at = "clear"
      BY <1>0 DEF Fields
    <3> HIDE DEF l
    <3> QED
      BY <1>0, <1>2, <2>1, <3>1, <3>2
  <2> QED
    BY <1>8, <2>2, <2>3 DEF SetEmpty
<1>9. CASE ClearEntry(c)
  <2> DEFINE l == [con[c] EXCEPT !.at = "free"]
  <2>1. /\ con[c].at = "clear" /\ con' = [con EXCEPT ![c] = l]
        /\ UNCHANGED <<counters, pro>>
    BY <1>9 DEF ClearEntry
  <2>2. DOMAIN l = Fields /\ l.at = "free"
    BY <1>0 DEF Fields
  <2> HIDE DEF l
  <2> QED
    BY <1>0, <1>2, <2>1, <2>2
<1>10. CASE FreeBlock(c)
  BY <1>0, <1>7, <1>10 DEF FreeBlock
<1> QED
  BY <1>1, <1>3, <1>4, <1>5, <1>6, <1>8, <1>9, <1>10 DEF Consume

------------------------------------------------------------------------------
(* Blocks                                                                   *)

\* Where the block of the last item ends, if the tail is at x.
End(x) == Base(x - 1) + BLOCK_SIZE

\* The end of a block is at most a block ahead of its last item.
LEMMA BlockEnds ==
  ASSUME ProducerBaseAssumption, NEW x \in Int
  PROVE  End(x) \in Int /\ Base(x) \in Int /\ End(x) >= x /\ End(x) <= x + BLOCK_SIZE - 1
<1>1. BLOCK_SIZE \in Nat \ {0} /\ x - 1 \in Int
  BY Widths
<1>2. (x - 1) % BLOCK_SIZE \in 0 .. BLOCK_SIZE - 1 /\ x % BLOCK_SIZE \in 0 .. BLOCK_SIZE - 1
  BY <1>1, Division
<1> QED
  BY <1>1, <1>2 DEF End, Base, Slot

\* Later items are in the same block or in later ones.
LEMMA BlocksEndInOrder ==
  ASSUME ProducerBaseAssumption, NEW x \in Int, NEW n \in Nat
  PROVE  End(x) <= End(x + n)
<1> DEFINE a == (x - 1) \div BLOCK_SIZE
           b == (x + n - 1) \div BLOCK_SIZE
           r == (x - 1) % BLOCK_SIZE
           s == (x + n - 1) % BLOCK_SIZE
<1>1. BLOCK_SIZE \in Nat \ {0} /\ x - 1 \in Int /\ x + n - 1 \in Int
  BY Widths
<1>2. /\ a \in Int /\ r \in 0 .. BLOCK_SIZE - 1 /\ x - 1 = BLOCK_SIZE * a + r
      /\ b \in Int /\ s \in 0 .. BLOCK_SIZE - 1 /\ x + n - 1 = BLOCK_SIZE * b + s
  BY <1>1, Division
<1> HIDE DEF a, b
<1>r. r = (x - 1) % BLOCK_SIZE /\ s = (x + n - 1) % BLOCK_SIZE
  OBVIOUS
<1> HIDE DEF r, s
<1>3. End(x) = x - 1 - r + BLOCK_SIZE /\ End(x + n) = x + n - 1 - s + BLOCK_SIZE
  BY <1>r DEF End, Base, Slot
<1>4. a <= b
  <2> SUFFICES ASSUME a > b
               PROVE  FALSE
    BY <1>2
  <2>1. BLOCK_SIZE * a >= BLOCK_SIZE * b + BLOCK_SIZE
    BY <1>1, <1>2, SMT
  <2> DEFINE A == BLOCK_SIZE * a
             B == BLOCK_SIZE * b
  <2>2. A \in Int /\ B \in Int /\ A >= B + BLOCK_SIZE /\ x - 1 = A + r /\ x + n - 1 = B + s
    BY <1>1, <1>2, <2>1, SMT
  <2> HIDE DEF A, B
  <2> QED
    BY <1>1, <1>2, <2>2
<1>5. BLOCK_SIZE * a <= BLOCK_SIZE * b
  BY <1>1, <1>2, <1>4, SMT
<1> DEFINE A == BLOCK_SIZE * a
           B == BLOCK_SIZE * b
<1>6. A \in Int /\ B \in Int /\ A <= B /\ x - 1 = A + r /\ x + n - 1 = B + s
  BY <1>1, <1>2, <1>5, SMT
<1> HIDE DEF A, B
<1> QED
  BY <1>1, <1>2, <1>3, <1>6

\* A block is not more than half of the indices.
LEMMA BlockIsSmall ==
  ASSUME ProducerBaseAssumption
  PROVE  BLOCK_SIZE <= Half
<1> DEFINE b == 2 * BLOCK_SIZE
           q == N \div b
<1>1. b \in Nat \ {0} /\ N \in Nat \ {0} /\ N % b = 0 /\ BLOCK_SIZE \in Nat /\ BLOCK_SIZE > 1
      /\ Half \in Nat /\ 2 * Half = N
  BY Widths DEF ProducerBaseAssumption, N
<1> HIDE DEF b
<1>2. q \in Int /\ N = b * q + (N % b)
  BY <1>1, Division
<1> HIDE DEF q
<1>3. q >= 1
  <2> SUFFICES ASSUME q <= 0
               PROVE  FALSE
    BY <1>2
  <2> DEFINE z == b * q
  <2>1. z <= 0 /\ z \in Int
    BY <1>1, <1>2, SMT
  <2> HIDE DEF z
  <2>2. N = z + (N % b)
    BY <1>2 DEF z
  <2> QED
    BY <1>1, <2>1, <2>2
<1> DEFINE z == b * q
<1>4. z >= b /\ z \in Int
  BY <1>1, <1>2, <1>3, SMT
<1>5. N = z + (N % b)
  BY <1>2
<1> HIDE DEF z
<1>6. N >= b
  BY <1>1, <1>4, <1>5
<1> QED
  BY <1>1, <1>6 DEF b

\* The base of an index that has wrapped around.
LEMMA BaseReduced ==
  ASSUME ProducerBaseAssumption, NEW x \in Int, NEW y \in Int, x % N = y % N
  PROVE  Base(x) % N = Base(y) % N
<1> DEFINE q == N \div BLOCK_SIZE
           a == x \div N
           b == y \div N
           r == x % N
<1>1. N \in Nat \ {0} /\ BLOCK_SIZE \in Nat \ {0} /\ N % BLOCK_SIZE = 0
  BY Widths
<1>2. q \in Int /\ N = BLOCK_SIZE * q
  <2>1. q \in Int /\ N = BLOCK_SIZE * q + (N % BLOCK_SIZE)
    BY <1>1, Division
  <2> HIDE DEF q
  <2>2. BLOCK_SIZE * q \in Int
    BY <1>1, <2>1, SMT
  <2> QED
    BY <1>1, <2>1, <2>2
<1>3. /\ a \in Int /\ b \in Int /\ r \in Int
      /\ x = N * a + r /\ y = N * b + r
  BY <1>1, Division
<1> HIDE DEF q, a, b, r
<1>4. x - y = N * (a - b)
  <2> DEFINE A == N * a
             B == N * b
  <2>1. A \in Int /\ B \in Int /\ x = A + r /\ y = B + r /\ N * (a - b) = A - B
    BY <1>1, <1>3, SMT
  <2> HIDE DEF A, B
  <2> QED
    BY <1>3, <2>1
<1>5. a - b \in Int /\ q * (a - b) \in Int
  BY <1>2, <1>3, SMT
<1>6. x - y = BLOCK_SIZE * (q * (a - b))
  <2> DEFINE d == a - b
  <2>1. d \in Int /\ x - y = N * d
    BY <1>4, <1>5
  <2> HIDE DEF d
  <2>2. (BLOCK_SIZE * q) * d = BLOCK_SIZE * (q * d)
    BY <1>1, <1>2, <2>1, SMT
  <2>3. x - y = BLOCK_SIZE * (q * d)
    BY <1>2, <2>1, <2>2
  <2> QED
    BY <2>3 DEF d
<1>7. Slot(x) = Slot(y)
  <2> DEFINE e == q * (a - b)
  <2>1. BLOCK_SIZE \in Nat \ {0} /\ e \in Int /\ x - y = BLOCK_SIZE * e
    BY <1>1, <1>5, <1>6
  <2> HIDE DEF e
  <2>2. x % BLOCK_SIZE = y % BLOCK_SIZE
    BY <2>1, SameRemainder, Zenon
  <2> QED
    BY <2>2, Zenon DEF Slot
<1>8. Base(x) - Base(y) = N * (a - b)
  <2>1. Slot(x) \in Int
    BY <1>1, Division DEF Slot
  <2> DEFINE d == N * (a - b)
  <2>2. x - y = d
    BY <1>4
  <2> HIDE DEF d
  <2>3. Base(x) - Base(y) = d
    BY <1>7, <2>1, <2>2 DEF Base
  <2> QED
    BY <2>3 DEF d
<1> QED
  <2>1. Base(x) \in Int /\ Base(y) \in Int
    BY BlockEnds
  <2> DEFINE e == Base(x)
             f == Base(y)
             d == a - b
  <2>2. e \in Int /\ f \in Int /\ d \in Int /\ e - f = N * d
    BY <1>5, <1>8, <2>1
  <2> HIDE DEF e, f, d
  <2>3. N \in Nat \ {0}
    BY <1>1
  <2>4. e % N = f % N
    BY <2>2, <2>3, SameRemainder, Zenon
  <2> QED
    BY <2>4 DEF e, f

------------------------------------------------------------------------------
(* The steps of the producer                                                *)

ProFields == {"at", "count", "bulk", "start", "first", "diff", "current"}
Adding == {"check", "insert", "newBlock"}

\* Not more than half of the indices, and not more than the limit.
Fits(n) == n <= Half /\ (MAX_SUBQUEUE_SIZE # Unlimited => n <= MAX_SUBQUEUE_SIZE)

\* current is pro.current if it did not wrap around.
ProducerInv(u, current) ==
  /\ DOMAIN pro = ProFields
  /\ Fits(End(u.tail) - u.head)
  /\ pro.at \in Adding \cup {"construct", "tail"} => pro.count \in 0 .. MaxBulk
  /\ pro.at \in Adding =>
       /\ pro.current = current % N /\ pro.diff \in Int
       /\ current + BLOCK_SIZE >= u.tail /\ Fits(current + BLOCK_SIZE - u.head)
  /\ pro.at = "check" => current + BLOCK_SIZE + pro.diff = End(u.tail + pro.count)
  /\ pro.at \in {"insert", "newBlock"} => current + pro.diff = End(u.tail + pro.count)
  /\ pro.at \in {"construct", "tail"} => Fits(End(u.tail + pro.count) - u.head)

\* The head may advance.
LEMMA FitsStill ==
  ASSUME ProducerBaseAssumption, ImplicitProducerAssumption,
         NEW n \in Int, NEW m \in Int, m <= n, Fits(n)
  PROVE  Fits(m)
BY Widths DEF Fits, ImplicitProducerAssumption, Unlimited, N

\* A call that fails.
LEMMA Fails ==
  ASSUME NEW u, NEW current, ProducerInv(u, current), pro' \in {Failing(pro)}
  PROVE  ProducerInv(u, current)' /\ pro'.at \in {"idle", "revert"}
<1> DEFINE x == Base(Sub(tailIndex, 1))
           l == [pro EXCEPT !.at = "revert", !.current = x]
<1>1. pro' = IF pro.first = Null THEN Waiting ELSE l
  BY DEF Failing
<1> HIDE DEF x
<1>2. DOMAIN l = ProFields /\ l.at = "revert"
  BY DEF ProducerInv, ProFields
<1> HIDE DEF l
<1>3. DOMAIN Waiting = ProFields /\ Waiting.at = "idle"
  BY DEF Waiting, ProFields
<1>4. DOMAIN pro' = ProFields /\ pro'.at \in {"idle", "revert"}
  BY <1>1, <1>2, <1>3
<1> QED
  BY <1>4 DEF ProducerInv, Adding

\* The base of the last block, and how many indices its end is from where it must be.
LEMMA BlocksToAdd ==
  ASSUME ProducerBaseAssumption, NEW u \in Unwrapped,
         tailIndex = u.tail % N, NEW n \in 0 .. MaxBulk
  PROVE  /\ Base(Sub(tailIndex, 1)) = (End(u.tail) - BLOCK_SIZE) % N
         /\ Sub(Base(tailIndex + n - 1), Base(Sub(tailIndex, 1))) = End(u.tail + n) - End(u.tail)
<1>1. PICK x : x = u.tail
  OBVIOUS
<1>2. /\ x \in Int /\ n \in Nat /\ n \in Int /\ n - 1 \in Int /\ N \in Nat \ {0} /\ N > 1
      /\ BLOCK_SIZE \in Nat \ {0} /\ tailIndex \in Int /\ tailIndex = x % N
  BY <1>1, Widths, Reduced DEF Unwrapped
<1>3. Sub(tailIndex, 1) = (x - 1) % N
  <2>1. 1 % N = 1
    BY <1>2, Reduced
  <2>2. Sub(x % N, 1 % N) = (x - 1) % N
    <3>1. 1 \in Int /\ x \in Int
      BY <1>2
    <3> QED
      BY <3>1, SubReduced, Zenon
  <2> QED
    BY <1>2, <2>1, <2>2
<1> DEFINE t == (x - 1) % N
           y == tailIndex + n - 1
           before == Base(t)
           last == Base(y)
<1>4. t \in 0 .. N - 1 /\ t % N = t /\ x - 1 \in Int
  BY <1>2, Reduced
<1>5. before \in 0 .. N - 1
  <2>1. t % BLOCK_SIZE \in 0 .. t
    <3> DEFINE q == t \div BLOCK_SIZE
               r == t % BLOCK_SIZE
    <3>1. t \in Int
      BY <1>4
    <3> HIDE DEF t
    <3>2. q \in Int /\ r \in 0 .. BLOCK_SIZE - 1 /\ t = BLOCK_SIZE * q + r
      BY <1>2, <3>1, Division
    <3> HIDE DEF q, r
    <3>3. q >= 0
      <4> SUFFICES ASSUME q < 0
                   PROVE  FALSE
        BY <3>2
      <4> DEFINE z == BLOCK_SIZE * q
      <4>1. z <= -BLOCK_SIZE /\ z \in Int
        BY <1>2, <3>2, SMT
      <4> HIDE DEF z
      <4>2. t = z + r
        BY <3>2 DEF z
      <4> QED
        BY <1>2, <1>4, <3>2, <4>1, <4>2
    <3>4. BLOCK_SIZE * q \in Nat
      BY <1>2, <3>2, <3>3, SMT
    <3> DEFINE z == BLOCK_SIZE * q
    <3>5. z \in Nat /\ t = z + r
      BY <3>2, <3>4
    <3> HIDE DEF z
    <3>6. r \in 0 .. t
      BY <1>2, <3>2, <3>5
    <3> QED
      BY <3>6 DEF r
  <2> DEFINE r == t % BLOCK_SIZE
  <2>2. before = t - r /\ r \in 0 .. t
    BY <2>1 DEF Base, Slot
  <2> HIDE DEF t, r, before
  <2> QED
    BY <1>2, <1>4, <2>2
<1>6. before % N = Base(x - 1) % N
  <2>1. t \in Int
    BY <1>2, <1>4
  <2>2. t % N = (x - 1) % N
    BY <1>4
  <2> HIDE DEF t
  <2> QED
    BY <1>4, <2>1, <2>2, BaseReduced
<1>7. y \in Int /\ x + n - 1 \in Int /\ y % N = (x + n - 1) % N
  <2>1. Add(tailIndex, n - 1) = (x + (n - 1)) % N
    BY <1>2, AddReduced
  <2>2. tailIndex + (n - 1) = y /\ x + (n - 1) = x + n - 1
    BY <1>2
  <2>3. y % N = (x + n - 1) % N
    BY <2>1, <2>2 DEF Add, N
  <2> QED
    BY <1>2, <2>3
<1>8. last % N = Base(x + n - 1) % N
  <2> HIDE DEF y
  <2> QED
    BY <1>7, BaseReduced
<1>9. /\ Base(x - 1) \in Int /\ Base(x + n - 1) \in Int /\ last \in Int /\ before \in Int
      /\ End(x) = Base(x - 1) + BLOCK_SIZE /\ End(x + n) = Base(x + n - 1) + BLOCK_SIZE
      /\ End(x) >= x /\ End(x) <= x + BLOCK_SIZE - 1
      /\ End(x + n) <= x + n + BLOCK_SIZE - 1
  <2>1. x - 1 \in Int /\ x + n \in Int
    BY <1>2
  <2>2. Base(x - 1) \in Int /\ Base(x + n - 1) \in Int
    BY <1>7, <2>1, BlockEnds
  <2>3. last \in Int
    <3> HIDE DEF y
    <3> QED
      BY <1>7, BlockEnds
  <2>4. before \in Int
    BY <1>2, <1>5
  <2>5. End(x) >= x /\ End(x) <= x + BLOCK_SIZE - 1 /\ End(x + n) <= x + n + BLOCK_SIZE - 1
    BY <1>2, <2>1, BlockEnds
  <2>6. End(x) = Base(x - 1) + BLOCK_SIZE /\ End(x + n) = Base(x + n - 1) + BLOCK_SIZE
    <3>1. (x + n) - 1 = x + n - 1
      BY <1>2
    <3> QED
      BY <3>1 DEF End
  <2> QED
    BY <2>2, <2>3, <2>4, <2>5, <2>6
<1> DEFINE d == End(x + n) - End(x)
<1>10. d \in 0 .. N - 1 /\ d = Base(x + n - 1) - Base(x - 1)
  <2>1. End(x) <= End(x + n)
    BY <1>2, BlocksEndInOrder
  <2>2. n <= Half /\ BLOCK_SIZE <= Half /\ 2 * Half = N /\ Half \in Nat
    <3>1. Cardinality(Consumers) >= 1 /\ Cardinality(Consumers) \in Nat
      BY Widths, FS_EmptySet, FS_CardinalityType
    <3>2. Cardinality(Consumers) * MaxBulk >= MaxBulk /\ Cardinality(Consumers) * MaxBulk \in Nat
      BY <3>1, Widths, SMT
    <3>3. BLOCK_SIZE <= Half
      BY BlockIsSmall
    <3> QED
      BY <3>2, <3>3, Widths DEF Reach
  <2> QED
    BY <1>2, <1>9, <2>1, <2>2
<1>11. before = (End(x) - BLOCK_SIZE) % N
  <2>1. before % N = before
    BY <1>5, <1>9, Reduced
  <2>2. End(x) - BLOCK_SIZE = Base(x - 1)
    BY <1>2, <1>9
  <2> QED
    BY <1>6, <2>1, <2>2
<1>12. Sub(last, before) = d
  <2>1. Sub(last % N, before % N) = (last - before) % N
    BY <1>9, SubReduced
  <2>2. Sub(Base(x + n - 1) % N, Base(x - 1) % N) = (Base(x + n - 1) - Base(x - 1)) % N
    BY <1>9, SubReduced
  <2>3. Sub(last, before) = d % N
    BY <1>6, <1>8, <1>10, <2>1, <2>2 DEF Sub, N
  <2>4. d % N = d
    <3> HIDE DEF d
    <3> QED
      BY <1>10, Reduced
  <2> QED
    BY <2>3, <2>4
<1> QED
  BY <1>1, <1>3, <1>11, <1>12

\* A call begins, and knows how many blocks it needs.
LEMMA BeginStep ==
  ASSUME ProducerBaseAssumption, ImplicitProducerAssumption,
         NEW u \in Unwrapped, tailIndex = u.tail % N, NEW current \in Int,
         ProducerInv(u, current), NEW n \in 0 .. MaxBulk, NEW bulk, Begin(n, bulk)
  PROVE  \E c \in Int : ProducerInv(u, c)'
<1>1. PICK before, diff : /\ before = Base(Sub(tailIndex, 1))
                          /\ diff = Sub(Base(tailIndex + n - 1), before)
  OBVIOUS
<1> DEFINE l == [Waiting EXCEPT !.at = IF diff > 0 THEN "check" ELSE "construct",
                   !.count = n, !.bulk = bulk, !.start = tailBlock,
                   !.diff = diff, !.current = before]
<1>2. pro' = l
  BY <1>1 DEF Begin
<1>3. /\ DOMAIN l = ProFields /\ l.count = n /\ l.diff = diff /\ l.current = before
      /\ l.at = IF diff > 0 THEN "check" ELSE "construct"
  BY DEF Waiting, ProFields
<1> HIDE DEF l
<1> DEFINE c == End(u.tail) - BLOCK_SIZE
<1>4. /\ u.tail \in Int /\ u.head \in Int /\ n \in Int /\ n >= 0
      /\ BLOCK_SIZE \in Int /\ u.tail + n \in Int
  BY Widths DEF Unwrapped
<1>5. /\ End(u.tail) \in Int /\ End(u.tail + n) \in Int /\ End(u.tail) >= u.tail
      /\ End(u.tail + n) >= End(u.tail)
  BY <1>4, BlockEnds, BlocksEndInOrder
<1>6. before = c % N /\ diff = End(u.tail + n) - End(u.tail) /\ diff \in Int
  BY <1>1, <1>5, BlocksToAdd
<1>7. c \in Int /\ c + BLOCK_SIZE = End(u.tail)
  BY <1>4, <1>5
<1> HIDE DEF c
<1>8. CASE diff > 0
  <2>1. c + BLOCK_SIZE + diff = End(u.tail + n)
    BY <1>4, <1>5, <1>6, <1>7
  <2>2. Fits(End(u.tail) - u.head) /\ Fits(c + BLOCK_SIZE - u.head)
    <3>1. c + BLOCK_SIZE - u.head = End(u.tail) - u.head
      BY <1>4, <1>5, <1>7
    <3> QED
      BY <3>1 DEF ProducerInv
  <2>3. pro'.at = "check" /\ pro'.count = n /\ pro'.diff = diff /\ pro'.current = before
        /\ DOMAIN pro' = ProFields
    BY <1>2, <1>3, <1>8
  <2>4. c + BLOCK_SIZE >= u.tail
    BY <1>5, <1>7
  <2>5. ProducerInv(u, c)'
    BY <1>6, <2>1, <2>2, <2>3, <2>4 DEF ProducerInv, Adding
  <2> QED
    BY <1>7, <2>5
<1>9. CASE ~(diff > 0)
  <2>1. End(u.tail + n) = End(u.tail)
    BY <1>5, <1>6, <1>9
  <2>2. Fits(End(u.tail) - u.head) /\ Fits(End(u.tail + n) - u.head)
    BY <2>1 DEF ProducerInv
  <2>3. pro'.at = "construct" /\ pro'.count = n /\ DOMAIN pro' = ProFields
    BY <1>2, <1>3, <1>9
  <2>4. ProducerInv(u, c)'
    BY <2>2, <2>3 DEF ProducerInv, Adding
  <2> QED
    BY <1>7, <2>4
<1> QED
  BY <1>8, <1>9

\* One more block, if there is room for it.
LEMMA CheckStep ==
  ASSUME ProducerBaseAssumption, ImplicitProducerAssumption, NEW u \in Unwrapped,
         CountsInv(u), NEW current \in Int, ProducerInv(u, current), Check
  PROVE  \E c \in Int : ProducerInv(u, c)'
<1> DEFINE i == Add(pro.current, BLOCK_SIZE)
           full == \/ ~CircularLessThan(headIndex, Add(i, BLOCK_SIZE))
                   \/ /\ MAX_SUBQUEUE_SIZE # Unlimited
                      /\ \/ MAX_SUBQUEUE_SIZE = 0
                         \/ MAX_SUBQUEUE_SIZE - BLOCK_SIZE < Sub(i, headIndex)
           l == [pro EXCEPT !.at = "insert", !.current = i]
<1>1. pro.at = "check" /\ pro' = IF full THEN Failing(pro) ELSE l
  BY DEF Check
<1>2. CASE full
  BY <1>1, <1>2, Fails
<1>3. CASE ~full
  <2> DEFINE c == current + BLOCK_SIZE
  <2>1. /\ u.head \in Int /\ u.tail \in Int /\ BLOCK_SIZE \in Int /\ BLOCK_SIZE > 0
        /\ N \in Nat \ {0} /\ Half \in Nat /\ 2 * Half = N /\ BLOCK_SIZE <= Half
        /\ pro.count \in 0 .. MaxBulk
        /\ headIndex = u.head % N /\ pro.current = current % N /\ pro.diff \in Int
        /\ current + BLOCK_SIZE >= u.tail /\ current + BLOCK_SIZE - u.head <= Half
        /\ current + BLOCK_SIZE + pro.diff = End(u.tail + pro.count)
        /\ Fits(End(u.tail) - u.head) /\ DOMAIN pro = ProFields
    BY <1>1, Widths, BlockIsSmall DEF ProducerInv, Adding, Fits, CountsInv, Unwrapped
  <2>2. u.head <= u.tail
    <3> DEFINE g == Total(Granted)
    <3>1. u.head + g <= u.tail /\ g \in Nat
      BY HeadIsBehind
    <3> HIDE DEF g
    <3> QED
      BY <2>1, <3>1
  <2>3. i = c % N
    BY <2>1, AddReduced
  <2>4. c \in Int /\ c >= u.tail /\ c + BLOCK_SIZE >= u.tail /\ c - u.head \in 0 .. Half
        /\ c + pro.diff = End(u.tail + pro.count)
    BY <2>1, <2>2
  <2> HIDE DEF i, c
  <2>5. Sub(headIndex, Add(i, BLOCK_SIZE)) = (u.head - (c + BLOCK_SIZE)) % N
    <3>1. Add(i, BLOCK_SIZE) = (c + BLOCK_SIZE) % N /\ c + BLOCK_SIZE \in Int
      <4>1. c \in Int /\ BLOCK_SIZE \in Int
        BY <2>1, <2>4
      <4>2. Add(c % N, BLOCK_SIZE) = (c + BLOCK_SIZE) % N
        BY <4>1, AddReduced, Zenon
      <4>3. Add(i, BLOCK_SIZE) = (c + BLOCK_SIZE) % N
        BY <2>3, <4>2, Zenon
      <4> QED
        BY <4>1, <4>3
    <3> QED
      BY <2>1, <3>1, SubReduced
  <2>6. c + BLOCK_SIZE - u.head <= Half
    <3> DEFINE x == u.head - (c + BLOCK_SIZE)
    <3>1. x \in Int /\ x < 0 /\ x >= -N
      BY <2>1, <2>4
    <3>2. x % N > Half
      BY <1>3, <2>5 DEF CircularLessThan, Half
    <3>3. x = u.head - (c + BLOCK_SIZE)
      OBVIOUS
    <3> HIDE DEF x
    <3>4. x % N = x + N
      BY <3>1, Reduced
    <3> QED
      BY <2>1, <2>4, <3>1, <3>2, <3>3, <3>4
  <2>7. Sub(i, headIndex) = c - u.head
    <3>1. Sub(i, headIndex) = (c - u.head) % N
      BY <2>1, <2>3, <2>4, SubReduced
    <3> DEFINE x == c - u.head
    <3>2. x \in Int /\ x \in 0 .. N - 1
      BY <2>1, <2>4
    <3> HIDE DEF x
    <3>3. x % N = x
      BY <3>2, Reduced
    <3> QED
      BY <3>1, <3>3 DEF x
  <2>8. MAX_SUBQUEUE_SIZE # Unlimited => c + BLOCK_SIZE - u.head <= MAX_SUBQUEUE_SIZE
    <3> SUFFICES ASSUME MAX_SUBQUEUE_SIZE # Unlimited
                 PROVE  c + BLOCK_SIZE - u.head <= MAX_SUBQUEUE_SIZE
      OBVIOUS
    <3>1. ~(MAX_SUBQUEUE_SIZE - BLOCK_SIZE < c - u.head)
      BY <1>3, <2>7
    <3>2. MAX_SUBQUEUE_SIZE \in Int
      BY <2>1 DEF ImplicitProducerAssumption, Unlimited, N
    <3> QED
      BY <2>1, <2>4, <3>1, <3>2
  <2>9. /\ DOMAIN l = ProFields /\ l.at = "insert" /\ l.current = i /\ l.count = pro.count
        /\ l.diff = pro.diff
    BY <2>1 DEF ProFields
  <2> HIDE DEF l
  <2>10. pro' = l
    BY <1>1, <1>3
  <2>11. Fits(c + BLOCK_SIZE - u.head)
    BY <2>6, <2>8 DEF Fits
  <2>12. ProducerInv(u, c)'
    BY <2>1, <2>3, <2>4, <2>9, <2>10, <2>11 DEF ProducerInv, Adding
  <2> QED
    BY <2>4, <2>12
<1> QED
  BY <1>2, <1>3

\* The block is inserted, or there is none.
LEMMA NewBlockStep ==
  ASSUME ProducerBaseAssumption, ImplicitProducerAssumption, NEW u \in Unwrapped,
         NEW current \in Int, ProducerInv(u, current), NewBlock
  PROVE  ProducerInv(u, current)'
<1>1. PICK first : pro' = [pro EXCEPT !.at = IF pro.diff > BLOCK_SIZE THEN "check"
                                             ELSE "construct",
                                      !.diff = pro.diff - BLOCK_SIZE, !.first = first]
  BY DEF NewBlock
<1> DEFINE l == [pro EXCEPT !.at = IF pro.diff > BLOCK_SIZE THEN "check" ELSE "construct",
                            !.diff = pro.diff - BLOCK_SIZE, !.first = first]
<1>2. pro.at = "newBlock" /\ pro' = l
  BY <1>1 DEF NewBlock
<1>3. /\ DOMAIN pro = ProFields /\ Fits(End(u.tail) - u.head) /\ pro.count \in 0 .. MaxBulk
      /\ pro.current = current % N /\ pro.diff \in Int
      /\ current + BLOCK_SIZE >= u.tail /\ Fits(current + BLOCK_SIZE - u.head)
      /\ current + pro.diff = End(u.tail + pro.count)
      /\ u.tail \in Int /\ u.head \in Int /\ BLOCK_SIZE \in Int
  BY <1>2, Widths DEF ProducerInv, Adding, Unwrapped
<1>4. /\ DOMAIN l = ProFields /\ l.count = pro.count /\ l.current = pro.current
      /\ l.diff = pro.diff - BLOCK_SIZE
      /\ l.at = IF pro.diff > BLOCK_SIZE THEN "check" ELSE "construct"
  BY <1>3 DEF ProFields
<1> HIDE DEF l
<1>5. CASE pro.diff > BLOCK_SIZE
  <2>1. current + BLOCK_SIZE + l.diff = End(u.tail + pro.count) /\ l.diff \in Int
    BY <1>3, <1>4
  <2> QED
    BY <1>2, <1>3, <1>4, <1>5, <2>1 DEF ProducerInv, Adding
<1>6. CASE ~(pro.diff > BLOCK_SIZE)
  <2>1. End(u.tail + pro.count) <= current + BLOCK_SIZE /\ End(u.tail + pro.count) \in Int
    BY <1>3, <1>6
  <2>2. Fits(End(u.tail + pro.count) - u.head)
    <3> DEFINE x == End(u.tail + pro.count) - u.head
               y == current + BLOCK_SIZE - u.head
    <3>1. x \in Int /\ y \in Int /\ x <= y /\ Fits(y)
      BY <1>3, <2>1
    <3> HIDE DEF x, y
    <3>2. Fits(x)
      BY <3>1, FitsStill
    <3> QED
      BY <3>2 DEF x
  <2> QED
    BY <1>2, <1>3, <1>4, <1>6, <2>2 DEF ProducerInv, Adding
<1> QED
  BY <1>5, <1>6

\* The steps that do not change the tail.
LEMMA ProducerStep ==
  ASSUME ProducerBaseAssumption, ImplicitProducerAssumption,
         NEW u \in Unwrapped, CountsInv(u), NEW current \in Int, ProducerInv(u, current),
         Produce, ~PublishTail
  PROVE  \E c \in Int : ProducerInv(u, c)'
<1>0. tailIndex = u.tail % N /\ DOMAIN pro = ProFields
  BY DEF CountsInv, ProducerInv
<1>1. CASE Enqueue
  <2>1. 1 \in 0 .. MaxBulk
    BY Widths
  <2> QED
    BY <1>0, <1>1, <2>1, BeginStep DEF Enqueue
<1>2. ASSUME NEW count \in 0 .. MaxBulk, EnqueueBulk(count)
      PROVE  \E c \in Int : ProducerInv(u, c)'
  BY <1>0, <1>2, BeginStep DEF EnqueueBulk
<1>3. CASE Check
  BY <1>3, CheckStep
<1>4. CASE NewBlock
  BY <1>4, NewBlockStep
<1>5. CASE Insert
  <2>1. /\ pro.at = "insert" /\ pro' = [pro EXCEPT !.at = "newBlock"]
    BY <1>5 DEF Insert
  <2>2. /\ DOMAIN pro' = ProFields /\ pro'.at = "newBlock" /\ pro'.count = pro.count
        /\ pro'.diff = pro.diff /\ pro'.current = pro.current
    BY <1>0, <2>1 DEF ProFields
  <2>3. ProducerInv(u, current)'
    BY <2>1, <2>2 DEF ProducerInv, Adding
  <2> QED
    BY <2>3
<1>6. CASE NewBlockIndex
  <2>1. pro' = pro
    BY <1>6 DEF NewBlockIndex
  <2>2. ProducerInv(u, current)'
    BY <2>1 DEF ProducerInv
  <2> QED
    BY <2>2
<1>7. CASE NoIndex \/ NoBlock \/ Throw
  <2>1. pro' = Failing(pro)
    BY <1>7 DEF NoIndex, NoBlock, Throw
  <2> QED
    BY <2>1, Fails
<1>8. ASSUME DOMAIN pro' = ProFields,
             pro'.at \in {"idle", "revert", "release"}
      PROVE  \E c \in Int : ProducerInv(u, c)'
  <2>1. ProducerInv(u, current)'
    BY <1>8 DEF ProducerInv, Adding
  <2> QED
    BY <2>1
<1>9. CASE Revert
  <2> DEFINE i == Add(pro.current, BLOCK_SIZE)
             more == ~(~pro.bulk \/ next[entries[EntryFor(i)].value] = Null)
             l == [pro EXCEPT !.at = "release", !.current = 0]
             m == [pro EXCEPT !.current = i]
  <2>1. pro.at = "revert" /\ (pro' = l \/ pro' = m)
    BY <1>9 DEF Revert
  <2> HIDE DEF i
  <2>2. DOMAIN l = ProFields /\ l.at = "release" /\ DOMAIN m = ProFields /\ m.at = "revert"
    BY <1>0, <2>1 DEF ProFields
  <2> HIDE DEF l, m
  <2> QED
    BY <1>8, <2>1, <2>2
<1>10. CASE Release
  <2> DEFINE l == [pro EXCEPT !.first = next[pro.first]]
  <2>1. pro.at = "release" /\ (pro' = l \/ pro' = Waiting)
    BY <1>10 DEF Release
  <2>2. /\ DOMAIN l = ProFields /\ l.at = "release"
        /\ DOMAIN Waiting = ProFields /\ Waiting.at = "idle"
    BY <1>0, <2>1 DEF ProFields, Waiting
  <2> HIDE DEF l
  <2> QED
    BY <1>8, <2>1, <2>2
<1>11. CASE Construct
  <2>1. pro.at = "construct" /\ pro' = [pro EXCEPT !.at = "tail"]
    BY <1>11 DEF Construct
  <2>2. /\ DOMAIN pro' = ProFields /\ pro'.at = "tail" /\ pro'.count = pro.count
    BY <1>0, <2>1 DEF ProFields
  <2>3. ProducerInv(u, current)'
    BY <2>1, <2>2 DEF ProducerInv, Adding
  <2> QED
    BY <2>3
<1> QED
  BY <1>1, <1>2, <1>3, <1>4, <1>5, <1>6, <1>7, <1>9, <1>10, <1>11 DEF Produce

\* The items of a call become visible.
LEMMA TailMoves ==
  ASSUME ProducerBaseAssumption, NEW u \in Unwrapped, CountsInv(u), NEW n \in 0 .. MaxBulk,
         tailIndex' = Add(tailIndex, n),
         UNCHANGED <<con, headIndex, dequeueOptimisticCount, dequeueOvercommit>>
  PROVE  \E u2 \in Unwrapped : CountsInv(u2)' /\ u2.tail = u.tail + n /\ u2.head = u.head
<1>2. tailIndex' = Add(tailIndex, n) /\ con' = con
      /\ UNCHANGED <<headIndex, dequeueOptimisticCount, dequeueOvercommit>>
  OBVIOUS
<1> DEFINE t2 == u.tail + n
           u2 == [u EXCEPT !.tail = t2]
<1>4. t2 \in Int /\ t2 >= u.tail /\ n \in Int /\ u.tail \in Int
  BY Widths DEF Unwrapped
<1>5. tailIndex' = t2 % N
  BY <1>2, <1>4, AddReduced DEF CountsInv
<1>6. t2 = u.tail + n
  OBVIOUS
<1> HIDE DEF t2
<1>7. /\ u2 \in Unwrapped /\ u2.tail = t2 /\ u2.head = u.head /\ u2.overcommit = u.overcommit
      /\ u2.optimistic = u.optimistic /\ u2.over = u.over /\ u2.mine = u.mine
  BY <1>4 DEF Unwrapped
<1> HIDE DEF u2
<1>8. \A c \in Consumers : ConsumerInv(c, u2)'
  <2> SUFFICES ASSUME NEW c \in Consumers
               PROVE  ConsumerInv(c, u2)'
    OBVIOUS
  <2>1. ConsumerInv(c, u) /\ u.mine[c] \in Int
    BY DEF CountsInv, Unwrapped
  <2>2. u.mine[c] - u.tail <= Reach => u.mine[c] - t2 <= Reach
    BY <1>4, <2>1, Widths
  <2> QED
    BY <1>2, <1>7, <2>1, <2>2 DEF ConsumerInv
<1>9. Announced' = Announced
  BY <1>2 DEF Announced, Pending
<1>10. NotTooMany(u2)'
  <2> SUFFICES ASSUME NEW x \in Int, x >= t2
               PROVE  u.head + Total(Taken(x, u2)') <= x
    BY <1>7 DEF NotTooMany
  <2>1. Taken(x, u2)' = Taken(x, u)
    BY <1>2, <1>7 DEF Taken
  <2>2. x >= u.tail
    BY <1>4
  <2> QED
    BY <2>1, <2>2 DEF CountsInv, NotTooMany
<1>11. CountsInv(u2)'
  BY <1>2, <1>5, <1>7, <1>8, <1>9, <1>10 DEF CountsInv
<1> QED
  BY <1>6, <1>7, <1>11

LEMMA PublishStep ==
  ASSUME ProducerBaseAssumption, ImplicitProducerAssumption,
         NEW u \in Unwrapped, CountsInv(u), NEW current \in Int, ProducerInv(u, current),
         PublishTail
  PROVE  \E u2 \in Unwrapped : CountsInv(u2)' /\ ProducerInv(u2, current)'
<1>1. PICK n : n = pro.count
  OBVIOUS
<1>2. /\ tailIndex' = Add(tailIndex, n) /\ pro' = Waiting /\ pro.at = "tail"
      /\ UNCHANGED <<con, headIndex, dequeueOptimisticCount, dequeueOvercommit>>
  BY <1>1 DEF PublishTail
<1>3. n \in 0 .. MaxBulk /\ Fits(End(u.tail + n) - u.head)
  BY <1>1, <1>2 DEF ProducerInv
<1>4. PICK u2 \in Unwrapped : CountsInv(u2)' /\ u2.tail = u.tail + n /\ u2.head = u.head
  BY <1>2, <1>3, TailMoves
<1>5. ProducerInv(u2, current)'
  <2>1. DOMAIN Waiting = ProFields /\ Waiting.at = "idle"
    BY DEF Waiting, ProFields
  <2> QED
    BY <1>2, <1>3, <1>4, <2>1 DEF ProducerInv, Adding
<1> QED
  BY <1>4, <1>5

\* Where no counter and no consumer changes.
LEMMA CountersRest ==
  ASSUME NEW u, CountsInv(u), UNCHANGED <<counters, con>>
  PROVE  CountsInv(u)'
<1>1. /\ Announced' = Announced /\ \A x \in Int : Taken(x, u)' = Taken(x, u)
  BY DEF Announced, Pending, Taken
<1>2. NotTooMany(u)'
  BY <1>1 DEF CountsInv, NotTooMany
<1> QED
  BY <1>1, <1>2 DEF CountsInv, ConsumerInv, counters

\* The head has advanced.
LEMMA HeadAdvances ==
  ASSUME ProducerBaseAssumption, ImplicitProducerAssumption, NEW u \in Unwrapped,
         NEW u2 \in Unwrapped, u2.tail = u.tail, u2.head >= u.head, NEW current \in Int,
         ProducerInv(u, current), pro' = pro
  PROVE  ProducerInv(u2, current)'
<1>1. /\ u.tail \in Int /\ u.head \in Int /\ u2.head \in Int /\ BLOCK_SIZE \in Int
  BY Widths DEF Unwrapped
<1>2. ASSUME NEW x \in Int, Fits(x - u.head)
      PROVE  Fits(x - u2.head)
  <2>1. x - u.head \in Int /\ x - u2.head \in Int /\ x - u2.head <= x - u.head
    BY <1>1
  <2> QED
    BY <1>2, <2>1, FitsStill
<1>3. Fits(End(u.tail) - u2.head)
  <2>1. End(u.tail) \in Int
    BY <1>1, BlockEnds
  <2> QED
    BY <1>2, <2>1 DEF ProducerInv
<1>4. pro.at \in Adding => Fits(current + BLOCK_SIZE - u2.head)
  <2> SUFFICES ASSUME pro.at \in Adding
               PROVE  Fits(current + BLOCK_SIZE - u2.head)
    OBVIOUS
  <2> DEFINE x == current + BLOCK_SIZE
  <2>1. /\ x \in Int /\ current + BLOCK_SIZE - u.head = x - u.head
        /\ current + BLOCK_SIZE - u2.head = x - u2.head
    BY <1>1
  <2>2. Fits(x - u.head)
    BY <2>1 DEF ProducerInv
  <2> HIDE DEF x
  <2>3. Fits(x - u2.head)
    BY <1>2, <2>1, <2>2
  <2> QED
    BY <2>1, <2>3
<1>5. pro.at \in {"construct", "tail"} => Fits(End(u.tail + pro.count) - u2.head)
  <2> SUFFICES ASSUME pro.at \in {"construct", "tail"}
               PROVE  Fits(End(u.tail + pro.count) - u2.head)
    OBVIOUS
  <2>1. pro.count \in Int /\ Fits(End(u.tail + pro.count) - u.head)
    BY Widths DEF ProducerInv
  <2>2. u.tail + pro.count \in Int
    BY <1>1, <2>1
  <2>3. End(u.tail + pro.count) \in Int
    BY <2>2, BlockEnds
  <2> QED
    BY <1>2, <2>1, <2>3
<1> QED
  BY <1>3, <1>4, <1>5 DEF ProducerInv

------------------------------------------------------------------------------
(* The theorem                                                              *)

\* There are such numbers.
IInv == \E u \in Unwrapped, current \in Int : CountsInv(u) /\ ProducerInv(u, current)

\* At first they are zero.
LEMMA CountsAtFirst ==
  ASSUME ProducerBaseAssumption, BaseInit
  PROVE  \E u \in Unwrapped : CountsInv(u) /\ u.tail = 0 /\ u.head = 0
<1> DEFINE zero == [c \in Consumers |-> 0]
           u == [tail |-> 0, head |-> 0, optimistic |-> 0, overcommit |-> 0, mine |-> zero,
                 over |-> zero]
<1>1. u \in Unwrapped
  BY DEF Unwrapped
<1>2. /\ u.tail = 0 /\ u.head = 0 /\ u.optimistic = 0 /\ u.overcommit = 0
  OBVIOUS
<1> HIDE DEF u
<1>3. /\ tailIndex = 0 /\ headIndex = 0 /\ dequeueOptimisticCount = 0 /\ dequeueOvercommit = 0
      /\ con = [c \in Consumers |-> Idle]
  BY DEF BaseInit
<1>4. 0 % N = 0
  BY Widths, Reduced
<1>5. \A c \in Consumers : con[c].at = "idle" /\ DOMAIN con[c] = Fields
  BY <1>3 DEF Idle, Fields
<1>6. \A c \in Consumers : ConsumerInv(c, u)
  BY <1>5 DEF ConsumerInv
<1>7. ASSUME NEW f, \A c \in Consumers : f[c] = 0
      PROVE  Total(f) = 0
  <2>1. Bars(f) = {}
    <3> SUFFICES ASSUME NEW i \in Bars(f)
                 PROVE  FALSE
      OBVIOUS
    <3>1. i[1] \in Consumers /\ i[2] \in 1 .. MaxBulk /\ i[2] <= f[i[1]]
      BY DEF Bars
    <3>2. f[i[1]] = 0
      BY <1>7, <3>1
    <3> QED
      BY <3>1, <3>2, Widths
  <2> QED
    BY <2>1, TotalIsBounded, FS_EmptySet
<1>8. Total(Announced) = 0
  <2>1. \A c \in Consumers : Announced[c] = 0
    BY <1>5 DEF Announced, Pending
  <2> QED
    BY <1>7, <2>1
<1>9. NotTooMany(u)
  <2> SUFFICES ASSUME NEW x \in Int, x >= 0
               PROVE  0 + Total(Taken(x, u)) <= x
    BY <1>2 DEF NotTooMany
  <2>1. \A c \in Consumers : Taken(x, u)[c] = 0
    BY <1>5 DEF Taken
  <2>2. Total(Taken(x, u)) = 0
    BY <1>7, <2>1
  <2> QED
    BY <2>2
<1>10. CountsInv(u)
  BY <1>2, <1>3, <1>4, <1>6, <1>8, <1>9 DEF CountsInv
<1> QED
  BY <1>1, <1>2, <1>10

\* IInv is inductive.
LEMMA CountsInit ==
  ASSUME ProducerBaseAssumption, ImplicitProducerAssumption, Init
  PROVE  IInv
<1>1. BaseInit /\ pro = Waiting
  BY DEF Init
<1>2. PICK u \in Unwrapped : CountsInv(u) /\ u.tail = 0 /\ u.head = 0
  BY <1>1, CountsAtFirst
<1>3. End(0) = 0
  <2>1. /\ BLOCK_SIZE \in Nat \ {0} /\ BLOCK_SIZE > 1
    BY Widths
  <2> DEFINE q == (-1) \div BLOCK_SIZE
             r == (-1) % BLOCK_SIZE
             z == BLOCK_SIZE * q
  <2>2. q \in Int /\ r \in 0 .. BLOCK_SIZE - 1 /\ -1 = BLOCK_SIZE * q + r
    BY <2>1, Division
  <2>3. 0 - 1 = -1 /\ End(0) = (0 - 1) - ((0 - 1) % BLOCK_SIZE) + BLOCK_SIZE
    BY DEF End, Base, Slot
  <2>4. End(0) = (-1) - r + BLOCK_SIZE
    BY <2>3
  <2> HIDE DEF q, r
  <2>5. z \in Int /\ (q >= 0 => z >= 0) /\ (q <= -2 => z <= -2 * BLOCK_SIZE)
        /\ (q = -1 => z = -BLOCK_SIZE)
    BY <2>1, <2>2, SMT
  <2>6. -1 = z + r
    BY <2>2
  <2> HIDE DEF z
  <2>7. r = BLOCK_SIZE - 1
    BY <2>1, <2>2, <2>5, <2>6
  <2> QED
    BY <2>1, <2>4, <2>7
<1>4. Fits(0)
  BY Widths DEF Fits, ImplicitProducerAssumption, Unlimited, N
<1>5. Fits(End(u.tail) - u.head)
  BY <1>2, <1>3, <1>4
<1>6. DOMAIN Waiting = ProFields /\ Waiting.at = "idle"
  BY DEF Waiting, ProFields
<1>7. ProducerInv(u, 0)
  BY <1>1, <1>5, <1>6 DEF ProducerInv, Adding
<1> QED
  BY <1>2, <1>7 DEF IInv

LEMMA CountsStep ==
  ASSUME ProducerBaseAssumption, ImplicitProducerAssumption, IInv, [Next]_vars
  PROVE  IInv'
<1>1. PICK u \in Unwrapped, current \in Int : CountsInv(u) /\ ProducerInv(u, current)
  BY DEF IInv
<1>2. CASE UNCHANGED vars
  <2>1. UNCHANGED <<counters, con>> /\ pro' = pro
    BY <1>2 DEF vars, base, own
  <2>4. CountsInv(u)'
    BY <1>1, <2>1, CountersRest
  <2>5. ProducerInv(u, current)'
    BY <1>1, <2>1 DEF ProducerInv
  <2> QED
    BY <2>4, <2>5 DEF IInv
<1>3. ASSUME NEW c \in Consumers, Consume(c), InTime'
      PROVE  IInv'
  <2>1. /\ pro' = pro
        /\ \E u2 \in Unwrapped : CountsInv(u2)' /\ u2.tail = u.tail /\ u2.head >= u.head
    BY <1>1, <1>3, ConsumeKeepsCounts
  <2>2. PICK u2 \in Unwrapped : CountsInv(u2)' /\ u2.tail = u.tail /\ u2.head >= u.head
    BY <2>1
  <2>3. ProducerInv(u2, current)'
    BY <1>1, <2>1, <2>2, HeadAdvances
  <2> QED
    BY <2>2, <2>3 DEF IInv
<1>4. CASE PublishTail
  <2>1. \E u2 \in Unwrapped : CountsInv(u2)' /\ ProducerInv(u2, current)'
    BY <1>1, <1>4, PublishStep
  <2> QED
    BY <2>1 DEF IInv
<1>5. CASE Produce /\ ~PublishTail
  <2>1. \E c \in Int : ProducerInv(u, c)'
    BY <1>1, <1>5, ProducerStep
  <2>2. UNCHANGED <<counters, con>>
    BY <1>5 DEF Produce, Enqueue, EnqueueBulk, Begin, Check, Insert, NewBlockIndex, NoIndex,
                NewBlock, NoBlock, Revert, Release, Construct, Throw, base
  <2>5. CountsInv(u)'
    BY <1>1, <2>2, CountersRest
  <2> QED
    BY <2>1, <2>5 DEF IInv
<1> QED
  BY <1>2, <1>3, <1>4, <1>5 DEF Next

\* What the invariant says of the counters as they are.
LEMMA Balance ==
  ASSUME ProducerBaseAssumption, NEW u \in Unwrapped, CountsInv(u)
  PROVE  CountersBalance
<1>1. /\ u.head \in Int /\ u.optimistic \in Int /\ u.overcommit \in Int
      /\ headIndex = u.head % N
      /\ dequeueOptimisticCount = u.optimistic % N /\ dequeueOvercommit = u.overcommit % N
  BY DEF CountsInv, Unwrapped
<1>2. PICK n : n = Total(Announced)
  OBVIOUS
<1>3. n \in Int /\ u.optimistic - u.overcommit = u.head + n
  BY <1>2, TotalIsBounded DEF CountsInv
<1>4. Sub(dequeueOptimisticCount, dequeueOvercommit) = (u.optimistic - u.overcommit) % N
  BY <1>1, SubReduced
<1>5. Add(headIndex, n) = (u.head + n) % N
  BY <1>1, <1>3, AddReduced
<1> QED
  BY <1>2, <1>3, <1>4, <1>5 DEF CountersBalance

\* From IInv follow the three properties.
LEMMA CountsMean ==
  ASSUME ProducerBaseAssumption, ImplicitProducerAssumption, IInv
  PROVE  CountersBalance /\ ClaimsAreCovered /\ SizeIsLimited
<1>1. PICK u \in Unwrapped, current \in Int : CountsInv(u) /\ ProducerInv(u, current)
  BY DEF IInv
<1>2. /\ u.tail \in Int /\ u.head \in Int /\ u.optimistic \in Int /\ u.overcommit \in Int
      /\ N \in Nat \ {0} /\ Half \in Nat /\ 2 * Half = N
      /\ tailIndex = u.tail % N /\ headIndex = u.head % N
      /\ dequeueOptimisticCount = u.optimistic % N /\ dequeueOvercommit = u.overcommit % N
  BY <1>1, Widths DEF CountsInv, Unwrapped
<1>4. CountersBalance
  BY <1>1, Balance
<1>5. /\ u.tail - u.head >= Total(Granted) /\ Total(Granted) \in Nat
  <2> DEFINE g == Total(Granted)
  <2>1. u.head + g <= u.tail /\ g \in Nat
    BY <1>1, HeadIsBehind
  <2> HIDE DEF g
  <2>2. u.tail - u.head >= g /\ g \in Nat
    BY <1>2, <2>1
  <2> QED
    BY <2>2 DEF g
<1> DEFINE x == u.tail - u.head
<1>6. x \in Int /\ x >= 0 /\ Fits(x)
  <2>1. Fits(End(u.tail) - u.head) /\ End(u.tail) \in Int /\ End(u.tail) >= u.tail
    BY <1>1, <1>2, BlockEnds DEF ProducerInv
  <2>2. x \in Int /\ End(u.tail) - u.head \in Int /\ x <= End(u.tail) - u.head
    BY <1>2, <2>1
  <2>3. x >= 0
    BY <1>2, <1>5
  <2> HIDE DEF x
  <2> QED
    BY <2>1, <2>2, <2>3, FitsStill
<1>7. Sub(tailIndex, headIndex) = x
  <2>1. Sub(tailIndex, headIndex) = x % N
    BY <1>2, SubReduced
  <2> HIDE DEF x
  <2>2. x \in 0 .. N - 1
    BY <1>2, <1>6 DEF Fits
  <2> QED
    BY <1>6, <2>1, <2>2, Reduced
<1>8. ClaimsAreCovered
  BY <1>5, <1>7 DEF ClaimsAreCovered
<1>9. SizeIsLimited
  BY <1>6, <1>7 DEF SizeIsLimited, Fits
<1> QED
  BY <1>4, <1>8, <1>9

\* The sub-queue of a thread, for any number of consumers and single or bulk operations: the
\* optimistic count less the overcommit stays the head and what consumers have announced, so
\* that no lost race makes an item unreachable (concurrentqueue.h:1966-1971, 2660); what
\* consumers have been told to claim is there, for all of them together, so that the head
\* never passes the tail (1980-1981); and the sub-queue keeps to its limit (370-374, 2480).
THEOREM CountersAreRight ==
  ASSUME ProducerBaseAssumption, ImplicitProducerAssumption
  PROVE  Spec => [](CountersBalance /\ ClaimsAreCovered /\ SizeIsLimited)
<1>1. Init => IInv
  BY CountsInit
<1>2. IInv /\ [Next]_vars => IInv'
  BY CountsStep
<1>3. IInv => CountersBalance /\ ClaimsAreCovered /\ SizeIsLimited
  BY CountsMean
<1> QED
  BY <1>1, <1>2, <1>3, PTL DEF Spec

------------------------------------------------------------------------------
(* The sub-queue of a token                                                 *)

CONSTANTS EXPLICIT_INITIAL_INDEX_SIZE, BulkMayFailHalfway
VARIABLES emptyFlags, indices, pr_blockIndexSlotsUsed, pr_blockIndexFront

Explicit == INSTANCE ExplicitProducer

CallFields == {"at", "count", "bulk", "start", "used", "front", "first", "diff", "current"}
CallInv == DOMAIN pro = CallFields /\ pro.count \in 0 .. MaxBulk
\* The producer plays no part in the balance, but for the number of items it adds.
ExplicitInv == CallInv /\ \E u \in Unwrapped : CountsInv(u)

\* What is the same for both kinds of sub-queue.
LEMMA SameAssumption ==
  Explicit!ProducerBaseAssumption <=> ProducerBaseAssumption
BY Zenon DEF Explicit!ProducerBaseAssumption, ProducerBaseAssumption, Explicit!Endless, Endless,
             Explicit!Cardinality, Cardinality, Explicit!IsFiniteSet, IsFiniteSet

\* The initial state, the balance and the steps of consumers up to the claim.
LEMMA SameInit ==
  Explicit!BaseInit <=> BaseInit
BY Zenon DEF Explicit!BaseInit, BaseInit, Explicit!Idle, Idle, Explicit!Null, Null,
       Explicit!Raw, Raw, Explicit!Blocks, Blocks, Explicit!Slots, Slots

LEMMA SameBalance ==
  Explicit!CountersBalance <=> CountersBalance
<1>1. \A d \in Consumers : Explicit!Pending(d) = Pending(d)
  BY DEF Explicit!Pending, Pending
<1>2. Explicit!Announced = Announced
  BY <1>1 DEF Explicit!Announced, Announced
<1>3. \A n : Explicit!Total(n) = Total(n)
  BY Zenon DEF Explicit!Total, Total, Explicit!Cardinality, Cardinality
<1> QED
  BY <1>2, <1>3, Zenon DEF Explicit!CountersBalance, CountersBalance, Explicit!Sub, Sub,
       Explicit!Add, Add

LEMMA SameStep ==
  ASSUME NEW c \in Consumers
  PROVE  Explicit!BaseStep(c) <=> BaseStep(c)
<1>5. ASSUME NEW max
      PROVE  Explicit!BeginDequeue(c, max) <=> BeginDequeue(c, max)
  BY Zenon DEF Explicit!BeginDequeue, BeginDequeue, Explicit!Idle, Idle, Explicit!Null, Null,
       Explicit!counters, counters
<1>6. Explicit!LoadOvercommit(c) <=> LoadOvercommit(c)
  BY Zenon DEF Explicit!LoadOvercommit, LoadOvercommit, Explicit!counters, counters
<1>7. Explicit!TestOptimistic(c) <=> TestOptimistic(c)
  BY Zenon DEF Explicit!TestOptimistic, TestOptimistic, Explicit!Idle, Idle, Explicit!Null, Null,
       Explicit!counters, counters, Explicit!Sub, Sub, Explicit!CircularLessThan, CircularLessThan,
       Explicit!Least, Least
<1>8. Explicit!Increment(c) <=> Increment(c)
  BY Zenon DEF Explicit!Increment, Increment, Explicit!Sub, Sub, Explicit!Add, Add
<1>9. Explicit!Recheck(c) <=> Recheck(c)
  BY Zenon DEF Explicit!Recheck, Recheck, Explicit!Sub, Sub, Explicit!Least, Least,
       Explicit!CircularLessThan, CircularLessThan, Explicit!counters, counters
<1>10. Explicit!GiveBack(c) <=> GiveBack(c)
  BY Zenon DEF Explicit!GiveBack, GiveBack, Explicit!Add, Add, Explicit!Idle, Idle,
       Explicit!Null, Null
<1>11. Explicit!Claim(c) <=> Claim(c)
  BY Zenon DEF Explicit!Claim, Claim, Explicit!Add, Add
<1>12. Explicit!Move(c) <=> Move(c)
  BY Zenon DEF Explicit!Move, Move, Explicit!Slot, Slot, Explicit!Add, Add, Explicit!Raw, Raw,
       Explicit!counters, counters
<1> QED
  BY <1>5, <1>6, <1>7, <1>8, <1>9, <1>10, <1>11, <1>12 DEF Explicit!BaseStep, BaseStep

\* A consumer's step, up to the claim or after it.
LEMMA ExplicitConsume ==
  ASSUME ProducerBaseAssumption, NEW u \in Unwrapped, CountsInv(u), NEW c \in Consumers,
         Explicit!Consume(c), InTime'
  PROVE  (\E u2 \in Unwrapped : CountsInv(u2)') /\ pro' = pro
<1>0. DOMAIN con[c] = Fields
  BY DEF CountsInv, ConsumerInv
<1>1. CASE Explicit!BaseStep(c) /\ UNCHANGED Explicit!own
  <2>1. BaseStep(c)
    BY <1>1, SameStep
  <2>2. pro' = pro
    BY <1>1 DEF Explicit!own
  <2> QED
    BY <2>1, <2>2, BaseStepOfConsumer
<1>2. ASSUME NEW l, con' = [con EXCEPT ![c] = l], UNCHANGED <<counters, pro>>,
             con[c].at \in {"locate", "front", "portion", "close"},
             DOMAIN l = Fields, l.at \in {"idle", "front", "portion", "move"}
      PROVE  (\E u2 \in Unwrapped : CountsInv(u2)') /\ pro' = pro
  <2>1. OthersRest(c) /\ con'[c] = l
    BY <1>2, Updated
  <2> QED
    BY <1>2, <2>1, LaterStep
<1>3. CASE Explicit!Locate(c)
  <2> DEFINE h == Explicit!blockIndex
             l == [con[c] EXCEPT !.header = h, !.at = "front"]
  <2>1. /\ con[c].at = "locate" /\ con' = [con EXCEPT ![c] = l]
        /\ UNCHANGED <<counters, pro>>
    BY <1>3 DEF Explicit!Locate, Explicit!own, Explicit!counters, counters
  <2> HIDE DEF h
  <2>2. DOMAIN l = Fields /\ l.at = "front"
    BY <1>0 DEF Fields
  <2> HIDE DEF l
  <2> QED
    BY <1>2, <2>1, <2>2
<1>4. CASE Explicit!LoadFront(c)
  <2> DEFINE header == indices[con[c].header]
             offset == Explicit!BlocksBetween(Explicit!Base(con[c].index),
                                              header.entries[header.front].base)
             p == (header.front + offset) % header.size
             l == [con[c] EXCEPT !.pos = p, !.at = "portion"]
  <2>1. /\ con[c].at = "front" /\ con' = [con EXCEPT ![c] = l]
        /\ UNCHANGED <<counters, pro>>
    BY <1>4 DEF Explicit!LoadFront, Explicit!own, Explicit!counters, counters
  <2> HIDE DEF p
  <2>2. DOMAIN l = Fields /\ l.at = "portion"
    BY <1>0 DEF Fields
  <2> HIDE DEF l
  <2> QED
    BY <1>2, <2>1, <2>2
<1>5. CASE Explicit!OpenBlock(c)
  <2> DEFINE b == Explicit!Entry(con[c].header, con[c].pos).block
             l == [con[c] EXCEPT !.block = b, !.at = "move"]
  <2>1. /\ con[c].at = "portion" /\ con' = [con EXCEPT ![c] = l]
        /\ UNCHANGED <<counters, pro>>
    BY <1>5 DEF Explicit!OpenBlock, Explicit!own, Explicit!counters, counters
  <2> HIDE DEF b
  <2>2. DOMAIN l = Fields /\ l.at = "move"
    BY <1>0 DEF Fields
  <2> HIDE DEF l
  <2> QED
    BY <1>2, <2>1, <2>2
<1>6. CASE Explicit!SetEmpty(c)
  <2> DEFINE p == (con[c].pos + 1) % indices[con[c].header].size
             l == IF con[c].left = 0 THEN Idle
                  ELSE [con[c] EXCEPT !.pos = p, !.block = Null, !.moved = 0, !.at = "portion"]
  <2>1. /\ con[c].at = "close" /\ con' = [con EXCEPT ![c] = l]
        /\ UNCHANGED <<counters, pro>>
    BY <1>6 DEF Explicit!SetEmpty, Explicit!own, Explicit!counters, counters, Explicit!Idle,
                Idle, Explicit!Null, Null
  <2> HIDE DEF p
  <2>2. DOMAIN l = Fields /\ l.at \in {"idle", "portion"}
    BY <1>0 DEF Fields, Idle
  <2> HIDE DEF l
  <2> QED
    BY <1>2, <2>1, <2>2
<1> QED
  BY <1>1, <1>3, <1>4, <1>5, <1>6 DEF Explicit!Consume

\* The number of items of the call is kept until it ends.
LEMMA ExplicitProduce ==
  ASSUME ProducerBaseAssumption, CallInv, Explicit!Produce
  PROVE  /\ CallInv'
         /\ \/ UNCHANGED <<counters, con>>
            \/ /\ tailIndex' = Add(tailIndex, pro.count)
               /\ UNCHANGED <<con, headIndex, dequeueOptimisticCount, dequeueOvercommit>>
<1>0. DOMAIN pro = CallFields /\ pro.count \in 0 .. MaxBulk
  BY DEF CallInv
<1>1. DOMAIN Explicit!Waiting = CallFields /\ Explicit!Waiting.count = 0 /\ 0 \in 0 .. MaxBulk
  BY Widths DEF Explicit!Waiting, CallFields
<1>2. ASSUME pro' = Explicit!Waiting
      PROVE  CallInv'
  BY <1>1, <1>2 DEF CallInv
<1>3. ASSUME NEW place, pro' = [pro EXCEPT !.at = place]
      PROVE  CallInv'
  BY <1>0, <1>3 DEF CallInv, CallFields
<1>4. CASE Explicit!Enqueue
  <2>1. UNCHANGED <<counters, con>>
    BY <1>4 DEF Explicit!Enqueue, Explicit!base, Explicit!counters, counters
  <2> DEFINE call == [Explicit!Waiting EXCEPT !.count = 1, !.start = tailBlock,
                        !.used = pr_blockIndexSlotsUsed, !.front = pr_blockIndexFront,
                        !.current = tailIndex]
  <2>2. \E place : pro' = [call EXCEPT !.at = place]
    BY <1>4 DEF Explicit!Enqueue
  <2>3. DOMAIN call = CallFields /\ call.count = 1
    BY DEF Explicit!Waiting, CallFields
  <2> HIDE DEF call
  <2>4. DOMAIN pro' = CallFields /\ pro'.count = 1
    BY <2>2, <2>3 DEF CallFields
  <2> QED
    BY <2>1, <2>4, Widths DEF CallInv
<1>5. ASSUME NEW n \in 0 .. MaxBulk, Explicit!EnqueueBulk(n)
      PROVE  CallInv' /\ UNCHANGED <<counters, con>>
  <2>1. UNCHANGED <<counters, con>>
    BY <1>5 DEF Explicit!EnqueueBulk, Explicit!base, Explicit!counters, counters
  <2>2. PICK place, diff, before :
          pro' = [Explicit!Waiting EXCEPT !.at = place, !.count = n, !.bulk = TRUE,
                    !.start = tailBlock, !.used = pr_blockIndexSlotsUsed,
                    !.front = pr_blockIndexFront, !.diff = diff, !.current = before]
    BY <1>5 DEF Explicit!EnqueueBulk
  <2>3. DOMAIN pro' = CallFields /\ pro'.count = n
    BY <2>2 DEF Explicit!Waiting, CallFields
  <2> QED
    BY <1>5, <2>1, <2>3 DEF CallInv
<1>6. ASSUME Explicit!Fail
      PROVE  CallInv' /\ UNCHANGED <<counters, con>>
  BY <1>2, <1>6 DEF Explicit!Fail, Explicit!base, Explicit!counters, counters
<1>7. ASSUME NEW place, Explicit!Goto(place)
      PROVE  CallInv'
  BY <1>3, <1>7 DEF Explicit!Goto
<1>8. CASE Explicit!Reuse
  <2>1. UNCHANGED <<counters, con>>
    BY <1>8 DEF Explicit!Reuse, Explicit!base, Explicit!counters, counters
  <2> DEFINE reused == [pro EXCEPT !.diff = pro.diff - BLOCK_SIZE,
                          !.current = Explicit!Add(pro.current, BLOCK_SIZE),
                          !.first = IF pro.first = Explicit!Null THEN next[tailBlock]
                                    ELSE pro.first]
             over == [pro EXCEPT !.at = IF pro.diff > 0 THEN "grow" ELSE "reset",
                        !.current = IF pro.diff > 0 THEN Explicit!Add(pro.current, BLOCK_SIZE)
                                    ELSE pro.current]
  <2>2. pro' = reused \/ pro' = over
    BY <1>8 DEF Explicit!Reuse
  <2> QED
    BY <1>0, <2>1, <2>2 DEF CallInv, CallFields
<1>9. CASE Explicit!Grow
  <2>1. CASE Explicit!Fail
    BY <1>6, <2>1
  <2>2. CASE ~Explicit!Fail
    BY <1>7, <1>9, <2>2 DEF Explicit!Grow, Explicit!base, Explicit!counters, counters
  <2> QED
    BY <2>1, <2>2
<1>10. CASE Explicit!NewBlockIndex
  <2>1. /\ pro' = [pro EXCEPT !.at = "newBlock", !.front = pro.used]
        /\ UNCHANGED <<counters, con>>
    BY <1>10 DEF Explicit!NewBlockIndex, Explicit!base, Explicit!counters, counters
  <2> QED
    BY <1>0, <2>1 DEF CallInv, CallFields
<1>11. CASE Explicit!NoMemory
  BY <1>6, <1>11 DEF Explicit!NoMemory
<1>12. CASE Explicit!NewBlock
  <2>1. UNCHANGED <<counters, con>>
    BY <1>12 DEF Explicit!NewBlock, Explicit!base, Explicit!counters, counters
  <2>2. PICK b :
          IF pro.bulk
          THEN pro' = [pro EXCEPT
                         !.at = IF pro.diff > BLOCK_SIZE THEN "grow" ELSE "reset",
                         !.first = IF pro.first = Explicit!Null THEN b ELSE pro.first,
                         !.diff = pro.diff - BLOCK_SIZE,
                         !.current = IF pro.diff > BLOCK_SIZE
                                     THEN Explicit!Add(pro.current, BLOCK_SIZE)
                                     ELSE pro.current]
          ELSE Explicit!Goto(IF CtorMayThrow THEN "construct" ELSE "entry")
    BY <1>12 DEF Explicit!NewBlock
  <2>3. CASE pro.bulk
    BY <1>0, <2>1, <2>2, <2>3 DEF CallInv, CallFields
  <2>4. CASE ~pro.bulk
    BY <1>7, <2>1, <2>2, <2>4
  <2> QED
    BY <2>3, <2>4
<1>13. CASE \/ Explicit!PutEntry \/ Explicit!PublishFront \/ Explicit!ResetBlocks
            \/ Explicit!BulkPublishFront \/ Explicit!Construct
  <2>1. UNCHANGED <<counters, con>>
    BY <1>13 DEF Explicit!PutEntry, Explicit!PublishFront, Explicit!ResetBlocks,
                 Explicit!BulkPublishFront, Explicit!Construct, Explicit!base,
                 Explicit!counters, counters
  <2>2. \E place : Explicit!Goto(place)
    BY <1>13 DEF Explicit!PutEntry, Explicit!PublishFront, Explicit!ResetBlocks,
                 Explicit!BulkPublishFront, Explicit!Construct
  <2> QED
    BY <1>7, <2>1, <2>2
<1>14. CASE Explicit!Throw
  BY <1>2, <1>14 DEF Explicit!Throw, Explicit!base, Explicit!counters, counters
<1>15. CASE Explicit!PublishTail
  <2>1. /\ pro' = Explicit!Waiting /\ tailIndex' = Explicit!Add(tailIndex, pro.count)
        /\ UNCHANGED <<con, headIndex, dequeueOptimisticCount, dequeueOvercommit>>
    BY <1>15 DEF Explicit!PublishTail
  <2> QED
    BY <1>2, <2>1 DEF Explicit!Add, Add
<1> QED
  BY <1>4, <1>5, <1>8, <1>9, <1>10, <1>11, <1>12, <1>13, <1>14, <1>15 DEF Explicit!Produce

\* ExplicitInv is inductive.
LEMMA ExplicitStep ==
  ASSUME ProducerBaseAssumption, ExplicitInv, [Explicit!Next]_Explicit!vars
  PROVE  ExplicitInv'
<1>1. PICK u \in Unwrapped : CountsInv(u)
  BY DEF ExplicitInv
<1>2. CASE UNCHANGED Explicit!vars
  <2>1. UNCHANGED <<counters, con>> /\ pro' = pro
    BY <1>2 DEF Explicit!vars, Explicit!base, Explicit!own, Explicit!counters, counters
  <2>2. CountsInv(u)'
    BY <1>1, <2>1, CountersRest
  <2> QED
    BY <2>1, <2>2 DEF ExplicitInv, CallInv
<1>3. ASSUME NEW c \in Consumers, Explicit!Consume(c), Explicit!InTime'
      PROVE  ExplicitInv'
  <2>1. InTime'
    BY <1>3, Zenon DEF Explicit!InTime, InTime, Explicit!Sub, Sub
  <2>2. (\E u2 \in Unwrapped : CountsInv(u2)') /\ pro' = pro
    BY <1>1, <1>3, <2>1, ExplicitConsume
  <2> QED
    BY <2>2 DEF ExplicitInv, CallInv
<1>4. CASE Explicit!Produce
  <2>1. CallInv /\ pro.count \in 0 .. MaxBulk
    BY DEF ExplicitInv, CallInv
  <2>2. CallInv'
    BY <1>4, <2>1, ExplicitProduce
  <2>3. CASE UNCHANGED <<counters, con>>
    <3>1. CountsInv(u)'
      BY <1>1, <2>3, CountersRest
    <3> QED
      BY <2>2, <3>1 DEF ExplicitInv
  <2>4. CASE /\ tailIndex' = Add(tailIndex, pro.count)
             /\ UNCHANGED <<con, headIndex, dequeueOptimisticCount, dequeueOvercommit>>
    <3>1. PICK n : n = pro.count
      OBVIOUS
    <3>2. \E u2 \in Unwrapped : CountsInv(u2)' /\ u2.tail = u.tail + n /\ u2.head = u.head
      BY <1>1, <2>1, <2>4, <3>1, TailMoves
    <3> QED
      BY <2>2, <3>2 DEF ExplicitInv
  <2> QED
    BY <1>4, <2>1, <2>3, <2>4, ExplicitProduce
<1> QED
  BY <1>2, <1>3, <1>4 DEF Explicit!Next

\* The sub-queue of a token keeps the same balance (concurrentqueue.h:1966-1971), for any number
\* of consumers, and even if enqueues fail halfway or constructors throw.
THEOREM CountersOfTokensAreRight ==
  ASSUME Explicit!ProducerBaseAssumption
  PROVE  Explicit!Spec => []Explicit!CountersBalance
<1>0. ProducerBaseAssumption
  BY SameAssumption
<1>1. Explicit!Init => ExplicitInv
  <2> SUFFICES ASSUME Explicit!Init
               PROVE  ExplicitInv
    OBVIOUS
  <2>1. BaseInit /\ pro = Explicit!Waiting
    BY SameInit DEF Explicit!Init
  <2>2. \E u \in Unwrapped : CountsInv(u)
    BY <1>0, <2>1, CountsAtFirst
  <2>3. CallInv
    BY <1>0, <2>1, Widths DEF CallInv, CallFields, Explicit!Waiting
  <2> QED
    BY <2>2, <2>3 DEF ExplicitInv
<1>2. ExplicitInv /\ [Explicit!Next]_Explicit!vars => ExplicitInv'
  BY <1>0, ExplicitStep
<1>3. ExplicitInv => Explicit!CountersBalance
  BY <1>0, Balance, SameBalance DEF ExplicitInv
<1> QED
  BY <1>1, <1>2, <1>3, PTL DEF Explicit!Spec
==============================================================================
