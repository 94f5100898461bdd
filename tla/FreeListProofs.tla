---------------------------- MODULE FreeListProofs ----------------------------
(***************************************************************************)
(* Theorems about FreeList, for any finite number of threads and any number *)
(* of blocks: the reference counts are right, every block has one place,    *)
(* none is lost, and the pool gives a block to one thread at a time.        *)
(***************************************************************************)
EXTENDS FreeList, FiniteSetTheorems, TLAPS

M == SHOULD_BE_ON_FREELIST

------------------------------------------------------------------------------
(* The inductive invariant                                                  *)

\* The blocks that have been given out at least once.
Born == {b \in 1 .. PoolSize : b <= initialBlockPoolIndex} \cup created

\* The thread that a block is with: it holds it, or is on the way from the list or to it.
Owns(t, b) == b \in held[t] \/ t \in Taking(b) \cup Preparing(b) \cup Linking(b)

\* The list's reference to the node is counted.
Counted(b) == b \in OnList \/ Taking(b) # {} \/ Linking(b) # {}

\* Nobody holds the node and its reference count does not say that the list has it: it is
\* to be put on the list.
Marked(b) == b \in Born /\ ~Counted(b) /\ \A t \in Threads : b \notin held[t]

\* A block has one place.
PlaceInv(b) ==
  /\ \A t, u \in Threads : Owns(t, b) /\ Owns(u, b) => t = u
  /\ \A t \in Threads :
       /\ b \in held[t] => t \notin Taking(b) \cup Preparing(b) \cup Linking(b)
       /\ Owns(t, b) => b \notin OnList
       /\ Owns(t, b) \/ t \in Referring(b) => b \in Born
  /\ b \in OnList => b \in Born

\* A node that is to be put on the list is being put there by one thread, which nobody
\* refers to it beside; or else somebody refers to it.
MarkInv(b) == /\ Preparing(b) # {} => Referring(b) = {}
              /\ Marked(b) /\ Referring(b) = {} => Preparing(b) # {}

\* The reference count and its bit are what they stand for.
CountInv(b) ==
  freeListRefs[b] = Cardinality(Referring(b)) + (IF Counted(b) THEN 1 ELSE 0)
                      + (IF Marked(b) THEN M ELSE 0)

BlockOK(b) == PlaceInv(b) /\ MarkInv(b) /\ CountInv(b)
BlockInv == \A b \in Blocks : BlockOK(b)

\* The list has no cycle.
ListInv == \A b \in OnList : b \notin Reach(freeListNext[b], freeListNext)

\* What a thread may rely on at its place.
LocalOK(t) ==
  /\ th[t].at \in {"acquire", "loadNext", "unlink", "take"} => th[t].head \in Blocks
  /\ th[t].at \in {"release", "loadSeen", "setNext", "setRefs", "link", "relink"}
       => th[t].node \in Blocks
  /\ th[t].at = "acquire" => th[t].refs % M # 0
  /\ th[t].at = "unlink" => th[t].next = freeListNext[th[t].head]
  /\ th[t].at \in {"setRefs", "link"} => freeListNext[th[t].node] = th[t].seen
LocalInv == \A t \in Threads : LocalOK(t)

\* The threads that have found the pool not empty and have still to count.
AtPool == {t \in Threads : At(t, "poolIndex")}

PoolInv ==
  /\ created \subseteq PoolSize + 1 .. MaxBlocks
  /\ initialBlockPoolIndex >= PoolSize =>
       initialBlockPoolIndex + Cardinality(AtPool) <= PoolSize + Cardinality(Threads)

\* The types, but for what the counts imply of them.
Typed ==
  /\ initialBlockPoolIndex \in Nat
  /\ created \subseteq Blocks
  /\ freeListHead \in Links
  /\ freeListRefs \in [Blocks -> Int]
  /\ freeListNext \in [Blocks -> Links]
  /\ held \in [Threads -> SUBSET Blocks]
  /\ th \in [Threads -> [at : Places, head : Links, refs : Nat, next : Links,
                         node : Links, seen : Links, then : {"idle", "loadRefs"}]]

ListsInv == BlockInv /\ ListInv /\ LocalInv /\ PoolInv
IInv == Typed /\ ListsInv

------------------------------------------------------------------------------
(* Reachability                                                             *)

\* A set that is closed under the links and contains x contains all that x leads to.
LEMMA ReachMinimal ==
  ASSUME NEW x, NEW f, NEW S \in SUBSET Blocks,
         x \in S \cup {Null}, \A c \in S : f[c] \in S \cup {Null}
  PROVE  Reach(x, f) \subseteq S
BY DEF Reach

LEMMA NullIsNoBlock == Null \notin Blocks /\ Links = Blocks \cup {Null}
BY DEF Null, Blocks, Links

LEMMA ReachClosed ==
  ASSUME NEW f \in [Blocks -> Links], NEW x \in Links
  PROVE  /\ Reach(x, f) \subseteq Blocks
         /\ x \in Blocks => x \in Reach(x, f)
         /\ \A c \in Reach(x, f) : f[c] \in Reach(x, f) \cup {Null}
<1>1. Reach(x, f) \subseteq Blocks
  BY DEF Reach
<1>2. x \in Blocks => x \in Reach(x, f)
  BY NullIsNoBlock DEF Reach
<1>3. ASSUME NEW c \in Reach(x, f), f[c] # Null PROVE f[c] \in Reach(x, f)
  <2>1. c \in Blocks /\ f[c] \in Blocks
    BY <1>1, <1>3, NullIsNoBlock
  <2>2. ASSUME NEW S \in SUBSET Blocks, x \in S \cup {Null},
               \A d \in S : f[d] \in S \cup {Null}
        PROVE  f[c] \in S
    BY <1>3, <2>2 DEF Reach
  <2> QED
    BY <2>1, <2>2 DEF Reach
<1> QED
  BY <1>1, <1>2, <1>3

\* Null leads nowhere.
LEMMA ReachNull ==
  ASSUME NEW f PROVE Reach(Null, f) = {}
<1> DEFINE S == {}
<1>1. S \in SUBSET Blocks /\ Null \in S \cup {Null} /\ \A c \in S : f[c] \in S \cup {Null}
  OBVIOUS
<1> HIDE DEF S
<1>2. Reach(Null, f) \subseteq S
  BY <1>1, ReachMinimal
<1> QED
  BY <1>2 DEF S

\* What a node leads to, its successor leads to as well.
LEMMA ReachWithin ==
  ASSUME NEW f \in [Blocks -> Links], NEW x \in Links, NEW c \in Reach(x, f)
  PROVE  Reach(c, f) \subseteq Reach(x, f)
BY ReachClosed, ReachMinimal

\* A node leads to itself and to all that its successor leads to.
LEMMA ReachStep ==
  ASSUME NEW f \in [Blocks -> Links], NEW x \in Blocks
  PROVE  Reach(x, f) = {x} \cup Reach(f[x], f)
<1>1. x \in Links /\ f[x] \in Links
  BY NullIsNoBlock
<1>2. /\ Reach(f[x], f) \subseteq Blocks
      /\ f[x] \in Blocks => f[x] \in Reach(f[x], f)
      /\ \A c \in Reach(f[x], f) : f[c] \in Reach(f[x], f) \cup {Null}
  BY <1>1, ReachClosed
<1>3. Reach(x, f) \subseteq {x} \cup Reach(f[x], f)
  <2> DEFINE S == {x} \cup Reach(f[x], f)
  <2>1. f[x] \in S \cup {Null}
    BY <1>1, <1>2, NullIsNoBlock
  <2>2. S \in SUBSET Blocks /\ x \in S \cup {Null} /\ \A c \in S : f[c] \in S \cup {Null}
    BY <1>2, <2>1
  <2> HIDE DEF S
  <2>3. Reach(x, f) \subseteq S
    BY <2>2, ReachMinimal
  <2> QED
    BY <2>3 DEF S
<1>4. /\ x \in Reach(x, f) /\ Reach(x, f) \in SUBSET Blocks
      /\ \A c \in Reach(x, f) : f[c] \in Reach(x, f) \cup {Null}
  BY <1>1, ReachClosed
<1>5. Reach(f[x], f) \subseteq Reach(x, f)
  BY <1>4, ReachMinimal
<1> QED
  BY <1>3, <1>4, <1>5

\* The link of a node that x does not lead to may change.
LEMMA ReachUnchanged ==
  ASSUME NEW f \in [Blocks -> Links], NEW x \in Links, NEW n \in Blocks, NEW y \in Links,
         n \notin Reach(x, f)
  PROVE  Reach(x, [f EXCEPT ![n] = y]) = Reach(x, f)
<1> DEFINE g == [f EXCEPT ![n] = y]
<1>1. g \in [Blocks -> Links] /\ \A c \in Blocks : c # n => g[c] = f[c]
  OBVIOUS
<1> HIDE DEF g
<1>2. Reach(x, g) \subseteq Reach(x, f)
  <2>1. /\ Reach(x, f) \in SUBSET Blocks /\ x \in Reach(x, f) \cup {Null}
        /\ \A c \in Reach(x, f) : g[c] \in Reach(x, f) \cup {Null}
    BY <1>1, ReachClosed, NullIsNoBlock
  <2> QED
    BY <2>1, ReachMinimal
<1>3. Reach(x, f) \subseteq Reach(x, g)
  <2>1. /\ Reach(x, g) \in SUBSET Blocks /\ x \in Reach(x, g) \cup {Null}
        /\ \A c \in Reach(x, g) : f[c] \in Reach(x, g) \cup {Null}
    BY <1>1, <1>2, ReachClosed, NullIsNoBlock
  <2> QED
    BY <2>1, ReachMinimal
<1> QED
  BY <1>2, <1>3 DEF g

------------------------------------------------------------------------------
(* Counts                                                                   *)

\* There are fewer threads than the counter has room for.
LEMMA Constants ==
  ASSUME FreeListAssumption
  PROVE  /\ IsFiniteSet(Threads) /\ Cardinality(Threads) \in Nat
         /\ M \in Nat /\ M > Cardinality(Threads) + 2
         /\ PoolSize \in Nat /\ MaxBlocks \in Nat /\ PoolSize <= MaxBlocks
BY FS_CardinalityType DEF M, FreeListAssumption

LEMMA ReferringFinite ==
  ASSUME FreeListAssumption, NEW b
  PROVE  /\ IsFiniteSet(Referring(b)) /\ Cardinality(Referring(b)) \in Nat
         /\ Cardinality(Referring(b)) <= Cardinality(Threads)
<1>1. Referring(b) \subseteq Threads
  BY DEF Referring
<1> QED
  BY <1>1, Constants, FS_Subset, FS_CardinalityType

\* One thread more, or one less.
LEMMA OneMore ==
  ASSUME FreeListAssumption, NEW S \in SUBSET Threads, NEW t \in Threads, t \notin S
  PROVE  Cardinality(S \cup {t}) = Cardinality(S) + 1
BY Constants, FS_Subset, FS_AddElement

LEMMA OneLess ==
  ASSUME FreeListAssumption, NEW S \in SUBSET Threads, NEW t \in S
  PROVE  Cardinality(S \ {t}) = Cardinality(S) - 1
BY Constants, FS_Subset, FS_RemoveElement

LEMMA NoneOrSome ==
  ASSUME FreeListAssumption, NEW S \in SUBSET Threads
  PROVE  Cardinality(S) \in Nat /\ (Cardinality(S) = 0 <=> S = {})
BY Constants, FS_Subset, FS_CardinalityType, FS_EmptySet

\* Remainders by the bit of a count that has room.
LEMMA CountRemainder ==
  ASSUME FreeListAssumption, NEW n \in Nat, n < M
  PROVE  n % M = n /\ (n + M) % M = n
BY Constants

\* What the count says.
LEMMA RefsSay ==
  ASSUME FreeListAssumption, NEW b, CountInv(b)
  PROVE  /\ freeListRefs[b] \in 0 .. 2 * M - 1
         /\ Marked(b) <=> freeListRefs[b] >= M
         /\ Marked(b) => freeListRefs[b] = Cardinality(Referring(b)) + M
         /\ freeListRefs[b] % M = Cardinality(Referring(b)) + (IF Counted(b) THEN 1 ELSE 0)
<1> DEFINE n == Cardinality(Referring(b)) + (IF Counted(b) THEN 1 ELSE 0)
<1>1. n \in Nat /\ n < M
  BY ReferringFinite, Constants
<1>2. n % M = n /\ (n + M) % M = n
  BY <1>1, CountRemainder
<1>3. Marked(b) => ~Counted(b)
  BY DEF Marked
<1>4. freeListRefs[b] = n + (IF Marked(b) THEN M ELSE 0)
  BY DEF CountInv
<1>5. freeListRefs[b] % M = n
  BY <1>1, <1>2, <1>4
<1>6. Marked(b) => freeListRefs[b] = Cardinality(Referring(b)) + M
  BY <1>3, <1>4, ReferringFinite
<1> HIDE DEF n
<1>7. freeListRefs[b] \in 0 .. 2 * M - 1 /\ (Marked(b) <=> freeListRefs[b] >= M)
  BY <1>1, <1>4, Constants
<1> QED
  BY <1>5, <1>6, <1>7 DEF n

------------------------------------------------------------------------------
(* Steps that leave a block as it is                                        *)

\* A thread has to a block what it had.
SameRole(t, b) ==
  /\ t \in Referring(b)' <=> t \in Referring(b)
  /\ t \in Taking(b)' <=> t \in Taking(b)
  /\ t \in Preparing(b)' <=> t \in Preparing(b)
  /\ t \in Linking(b)' <=> t \in Linking(b)

\* Nothing changes about a block but what threads have to it.
SameBlock(b) ==
  /\ freeListRefs'[b] = freeListRefs[b]
  /\ \A t \in Threads : b \in held'[t] <=> b \in held[t]
  /\ b \in OnList' <=> b \in OnList
  /\ b \in Born' <=> b \in Born

OthersRest(t) == \A u \in Threads : u # t => th'[u] = th[u]

LEMMA OthersRoles ==
  ASSUME NEW t \in Threads, OthersRest(t), NEW b
  PROVE  \A u \in Threads : u # t => SameRole(u, b)
BY DEF OthersRest, SameRole, Referring, Taking, Preparing, Linking

LEMMA SameSets ==
  ASSUME NEW b, \A u \in Threads : SameRole(u, b)
  PROVE  /\ Referring(b)' = Referring(b) /\ Taking(b)' = Taking(b)
         /\ Preparing(b)' = Preparing(b) /\ Linking(b)' = Linking(b)
<1>1. Referring(b)' = Referring(b)
  BY DEF SameRole, Referring
<1>2. Taking(b)' = Taking(b)
  BY DEF SameRole, Taking
<1>3. Preparing(b)' = Preparing(b)
  BY DEF SameRole, Preparing
<1>4. Linking(b)' = Linking(b)
  BY DEF SameRole, Linking
<1> QED
  BY <1>1, <1>2, <1>3, <1>4

LEMMA BlockFrame ==
  ASSUME NEW b, BlockOK(b), SameBlock(b), \A u \in Threads : SameRole(u, b)
  PROVE  BlockOK(b)'
<1>1. /\ Referring(b)' = Referring(b) /\ Taking(b)' = Taking(b)
      /\ Preparing(b)' = Preparing(b) /\ Linking(b)' = Linking(b)
  BY SameSets
<1>2. Counted(b)' <=> Counted(b)
  BY <1>1 DEF Counted, SameBlock
<1>3. Marked(b)' <=> Marked(b)
  BY <1>2 DEF Marked, SameBlock
<1>4. \A u \in Threads : Owns(u, b)' <=> Owns(u, b)
  BY <1>1 DEF Owns, SameBlock
<1>5. PlaceInv(b)'
  BY <1>1, <1>4 DEF BlockOK, PlaceInv, SameBlock
<1>6. MarkInv(b)'
  BY <1>1, <1>3 DEF BlockOK, MarkInv
<1>7. CountInv(b)'
  BY <1>1, <1>2, <1>3 DEF BlockOK, CountInv, SameBlock
<1> QED
  BY <1>5, <1>6, <1>7 DEF BlockOK

\* A step of a thread about one block leaves the others right.
LEMMA Elsewhere ==
  ASSUME BlockInv, NEW t \in Threads, OthersRest(t), NEW n \in Blocks,
         \A c \in Blocks : c # n => SameBlock(c) /\ SameRole(t, c),
         BlockOK(n)'
  PROVE  BlockInv'
<1> SUFFICES ASSUME NEW c \in Blocks, c # n PROVE BlockOK(c)'
  BY DEF BlockInv
<1> QED
  BY BlockFrame, OthersRoles DEF BlockInv

\* The other threads may rely on what they could, if no link changes.
LEMMA OthersLocal ==
  ASSUME LocalInv, NEW t \in Threads, OthersRest(t), freeListNext' = freeListNext, LocalOK(t)'
  PROVE  LocalInv'
BY DEF LocalInv, LocalOK, OthersRest

LEMMA PoolFrame ==
  ASSUME PoolInv, NEW t \in Threads, OthersRest(t),
         At(t, "poolIndex")' <=> At(t, "poolIndex"),
         UNCHANGED <<created, initialBlockPoolIndex>>
  PROVE  PoolInv'
<1>1. AtPool' = AtPool
  BY DEF AtPool, At, OthersRest
<1> QED
  BY <1>1 DEF PoolInv

\* A thread goes on and nothing else happens.
LEMMA QuietStep ==
  ASSUME IInv, NEW t \in Threads, OthersRest(t), UNCHANGED shared,
         \A c \in Blocks : SameRole(t, c), LocalOK(t)',
         At(t, "poolIndex")' <=> At(t, "poolIndex")
  PROVE  ListsInv'
<1>1. \A c \in Blocks : SameBlock(c)
  BY DEF SameBlock, shared, OnList, Born
<1>2. BlockInv'
  <2> SUFFICES ASSUME NEW c \in Blocks PROVE BlockOK(c)'
    BY DEF BlockInv
  <2> QED
    BY <1>1, BlockFrame, OthersRoles DEF IInv, ListsInv, BlockInv
<1>3. ListInv'
  BY DEF IInv, ListsInv, ListInv, OnList, shared
<1>4. LocalInv' /\ PoolInv'
  BY OthersLocal, PoolFrame DEF IInv, ListsInv, shared
<1> QED
  BY <1>2, <1>3, <1>4 DEF ListsInv

------------------------------------------------------------------------------
(* What a step of a thread does to a block                                  *)

\* Only the thread that steps enters or leaves the sets of those that have to do with b.
LEMMA SetsAfter ==
  ASSUME NEW t \in Threads, OthersRest(t), NEW b
  PROVE  /\ Referring(b)' = (Referring(b) \ {t}) \cup (IF t \in Referring(b)' THEN {t} ELSE {})
         /\ Taking(b)' = (Taking(b) \ {t}) \cup (IF t \in Taking(b)' THEN {t} ELSE {})
         /\ Preparing(b)' = (Preparing(b) \ {t}) \cup (IF t \in Preparing(b)' THEN {t} ELSE {})
         /\ Linking(b)' = (Linking(b) \ {t}) \cup (IF t \in Linking(b)' THEN {t} ELSE {})
<1>1. \A u \in Threads : u # t => SameRole(u, b)
  BY OthersRoles
<1>2. Referring(b)' = (Referring(b) \ {t}) \cup (IF t \in Referring(b)' THEN {t} ELSE {})
  <2>1. Referring(b) \subseteq Threads /\ Referring(b)' \subseteq Threads
    BY DEF Referring
  <2> QED
    BY <1>1, <2>1 DEF SameRole
<1>3. Taking(b)' = (Taking(b) \ {t}) \cup (IF t \in Taking(b)' THEN {t} ELSE {})
  <2>1. Taking(b) \subseteq Threads /\ Taking(b)' \subseteq Threads
    BY DEF Taking
  <2> QED
    BY <1>1, <2>1 DEF SameRole
<1>4. Preparing(b)' = (Preparing(b) \ {t}) \cup (IF t \in Preparing(b)' THEN {t} ELSE {})
  <2>1. Preparing(b) \subseteq Threads /\ Preparing(b)' \subseteq Threads
    BY DEF Preparing
  <2> QED
    BY <1>1, <2>1 DEF SameRole
<1>5. Linking(b)' = (Linking(b) \ {t}) \cup (IF t \in Linking(b)' THEN {t} ELSE {})
  <2>1. Linking(b) \subseteq Threads /\ Linking(b)' \subseteq Threads
    BY DEF Linking
  <2> QED
    BY <1>1, <2>1 DEF SameRole
<1> QED
  BY <1>2, <1>3, <1>4, <1>5

SetTypes(b) ==
  /\ Referring(b) \in SUBSET Threads /\ Taking(b) \in SUBSET Threads
  /\ Preparing(b) \in SUBSET Threads /\ Linking(b) \in SUBSET Threads
  /\ Taking(b) \subseteq Referring(b)

LEMMA SetsTyped == ASSUME NEW b PROVE SetTypes(b)
BY DEF SetTypes, Referring, Taking, Preparing, Linking

\* A block that nobody had is given to t.
LEMMA BlockGiven ==
  ASSUME FreeListAssumption, NEW b, BlockOK(b), b \notin Born, NEW t \in Threads,
         \A u \in Threads : SameRole(u, b),
         \A u \in Threads : b \in held'[u] <=> b \in held[u] \/ u = t,
         freeListRefs'[b] = freeListRefs[b], b \in OnList' <=> b \in OnList, b \in Born'
  PROVE  BlockOK(b)'
<1>1. /\ Referring(b)' = Referring(b) /\ Taking(b)' = Taking(b)
      /\ Preparing(b)' = Preparing(b) /\ Linking(b)' = Linking(b)
  BY SameSets
<1>2. /\ Referring(b) = {} /\ Taking(b) = {} /\ Preparing(b) = {} /\ Linking(b) = {}
      /\ b \notin OnList /\ \A u \in Threads : b \notin held[u]
  BY SetsTyped DEF BlockOK, PlaceInv, SetTypes, Owns
<1>3. ~Counted(b) /\ ~Counted(b)' /\ ~Marked(b) /\ ~Marked(b)'
  BY <1>1, <1>2 DEF Counted, Marked
<1>4. PlaceInv(b)'
  BY <1>1, <1>2 DEF PlaceInv, Owns
<1>5. MarkInv(b)'
  BY <1>1, <1>2, <1>3 DEF MarkInv
<1>6. CountInv(b)'
  BY <1>1, <1>3 DEF BlockOK, CountInv
<1> QED
  BY <1>4, <1>5, <1>6 DEF BlockOK

\* A reference is counted only if the count was not zero: nobody is preparing the node.
LEMMA BlockAcquired ==
  ASSUME FreeListAssumption, NEW b, BlockOK(b), NEW t \in Threads, OthersRest(t),
         t \notin Referring(b), t \in Referring(b)', t \notin Taking(b)',
         t \notin Preparing(b)', t \notin Linking(b)',
         t \notin Preparing(b), t \notin Linking(b),
         \A u \in Threads : b \in held'[u] <=> b \in held[u],
         b \in OnList' <=> b \in OnList, b \in Born' <=> b \in Born,
         freeListRefs[b] % M # 0, freeListRefs'[b] = freeListRefs[b] + 1
  PROVE  BlockOK(b)'
<1>0. SetTypes(b) /\ t \notin Taking(b)
  BY SetsTyped DEF SetTypes
<1>1. /\ Referring(b)' = Referring(b) \cup {t} /\ Taking(b)' = Taking(b)
      /\ Preparing(b)' = Preparing(b) /\ Linking(b)' = Linking(b)
  <2>1. /\ Referring(b)' = (Referring(b) \ {t}) \cup {t} /\ Taking(b)' = Taking(b) \ {t}
        /\ Preparing(b)' = Preparing(b) \ {t} /\ Linking(b)' = Linking(b) \ {t}
    BY SetsAfter
  <2> QED
    BY <1>0, <2>1
<1>2. Referring(b) # {} \/ Counted(b)
  <2> SUFFICES ASSUME Referring(b) = {}, ~Counted(b) PROVE FALSE
    OBVIOUS
  <2>1. Cardinality(Referring(b)) = 0
    BY <1>0, NoneOrSome DEF SetTypes
  <2>2. CountInv(b)
    BY DEF BlockOK
  <2>3. freeListRefs[b] % M = Cardinality(Referring(b)) + (IF Counted(b) THEN 1 ELSE 0)
    BY <2>2, RefsSay
  <2> QED
    BY <2>1, <2>3
<1>3. b \in Born
  BY <1>0, <1>2 DEF BlockOK, PlaceInv, Counted, Owns, SetTypes
<1>4. Preparing(b) = {}
  <2> SUFFICES ASSUME NEW u \in Preparing(b) PROVE FALSE
    OBVIOUS
  <2>1. Referring(b) = {}
    BY DEF BlockOK, MarkInv
  <2>2. Counted(b)
    BY <1>2, <2>1
  <2>3. u \in Threads /\ Owns(u, b)
    BY <1>0 DEF Owns, SetTypes
  <2>4. b \notin OnList /\ Taking(b) = {}
    BY <1>0, <2>1, <2>3 DEF BlockOK, PlaceInv, SetTypes
  <2> PICK v \in Linking(b) : TRUE
    BY <2>2, <2>4 DEF Counted
  <2>5. v \in Threads /\ Owns(v, b)
    BY <1>0 DEF Owns, SetTypes
  <2>6. u = v
    BY <2>3, <2>5 DEF BlockOK, PlaceInv
  <2> QED
    BY <2>6 DEF Preparing, Linking
<1>5. Counted(b)' <=> Counted(b)
  BY <1>1 DEF Counted
<1>6. Marked(b)' <=> Marked(b)
  BY <1>5 DEF Marked
<1>7. \A u \in Threads : Owns(u, b)' <=> Owns(u, b)
  BY <1>1 DEF Owns
<1>8. PlaceInv(b)'
  BY <1>1, <1>3, <1>7 DEF BlockOK, PlaceInv
<1>9. MarkInv(b)'
  BY <1>1, <1>4 DEF MarkInv
<1>10. CountInv(b)'
  <2>1. Cardinality(Referring(b)') = Cardinality(Referring(b)) + 1
    BY <1>0, <1>1, OneMore DEF SetTypes
  <2> QED
    BY <1>5, <1>6, <2>1, ReferringFinite, Constants DEF BlockOK, CountInv
<1> QED
  BY <1>8, <1>9, <1>10 DEF BlockOK

\* The node is taken off the list by t, which refers to it.
LEMMA BlockUnlinked ==
  ASSUME FreeListAssumption, NEW b, BlockOK(b), NEW t \in Threads, OthersRest(t),
         b \in OnList, b \notin OnList',
         t \in Referring(b), t \in Referring(b)', t \in Taking(b)',
         t \notin Preparing(b)', t \notin Linking(b)',
         \A u \in Threads : b \in held'[u] <=> b \in held[u],
         b \in Born' <=> b \in Born,
         freeListRefs'[b] = freeListRefs[b]
  PROVE  BlockOK(b)'
<1>0. SetTypes(b)
  BY SetsTyped
<1>1. /\ Taking(b) = {} /\ Preparing(b) = {} /\ Linking(b) = {}
      /\ b \in Born /\ \A u \in Threads : b \notin held[u]
  BY <1>0 DEF BlockOK, PlaceInv, Owns, SetTypes
<1>2. /\ Referring(b)' = Referring(b) /\ Taking(b)' = {t}
      /\ Preparing(b)' = {} /\ Linking(b)' = {}
  BY <1>0, <1>1, SetsAfter
<1>3. Counted(b) /\ Counted(b)' /\ ~Marked(b) /\ ~Marked(b)'
  BY <1>2 DEF Counted, Marked
<1>4. PlaceInv(b)'
  BY <1>1, <1>2 DEF BlockOK, PlaceInv, Owns
<1>5. MarkInv(b)'
  BY <1>2, <1>3 DEF MarkInv
<1>6. CountInv(b)'
  BY <1>2, <1>3 DEF BlockOK, CountInv
<1> QED
  BY <1>4, <1>5, <1>6 DEF BlockOK

\* The thread that took the node gives back its own reference and that of the list.
LEMMA BlockTaken ==
  ASSUME FreeListAssumption, NEW b, BlockOK(b), NEW t \in Threads, OthersRest(t),
         t \in Taking(b), t \notin Referring(b)', t \notin Taking(b)',
         t \notin Preparing(b)', t \notin Linking(b)',
         \A u \in Threads : b \in held'[u] <=> b \in held[u] \/ u = t,
         b \in OnList' <=> b \in OnList, b \in Born' <=> b \in Born,
         freeListRefs'[b] = freeListRefs[b] - 2
  PROVE  BlockOK(b)'
<1>0. SetTypes(b) /\ Owns(t, b)
  BY SetsTyped DEF Owns
<1>1. \A u \in Threads : Owns(u, b) => u = t
  BY <1>0 DEF BlockOK, PlaceInv
<1>2. /\ Taking(b) = {t} /\ Preparing(b) = {} /\ Linking(b) = {} /\ b \notin OnList
      /\ t \in Referring(b) /\ b \in Born /\ \A u \in Threads : b \notin held[u]
  <2>1. Taking(b) \subseteq {t} /\ Preparing(b) \subseteq {t} /\ Linking(b) \subseteq {t}
    BY <1>0, <1>1 DEF Owns, SetTypes
  <2>2. t \notin Preparing(b) /\ t \notin Linking(b)
    BY DEF Taking, Preparing, Linking
  <2>3. b \notin OnList /\ b \in Born /\ b \notin held[t]
    BY <1>0 DEF BlockOK, PlaceInv
  <2> QED
    BY <1>0, <1>1, <2>1, <2>2, <2>3 DEF SetTypes, Owns
<1>3. /\ Referring(b)' = Referring(b) \ {t} /\ Taking(b)' = {}
      /\ Preparing(b)' = {} /\ Linking(b)' = {}
  BY <1>2, SetsAfter
<1>4. Counted(b) /\ ~Counted(b)' /\ ~Marked(b) /\ ~Marked(b)'
  BY <1>2, <1>3 DEF Counted, Marked
<1>5. PlaceInv(b)'
  BY <1>2, <1>3 DEF PlaceInv, Owns
<1>6. MarkInv(b)'
  BY <1>3, <1>4 DEF MarkInv
<1>7. CountInv(b)'
  <2>1. Cardinality(Referring(b)') = Cardinality(Referring(b)) - 1
    BY <1>0, <1>2, <1>3, OneLess DEF SetTypes
  <2> QED
    BY <1>4, <2>1, ReferringFinite DEF BlockOK, CountInv
<1> QED
  BY <1>5, <1>6, <1>7 DEF BlockOK

\* A thread lets the node go; the last one, if the node is to be put on the list, puts it
\* there.
LEMMA BlockReleased ==
  ASSUME FreeListAssumption, NEW b, BlockOK(b), NEW t \in Threads, OthersRest(t),
         t \in Referring(b), t \notin Taking(b), t \notin Preparing(b), t \notin Linking(b),
         t \notin Referring(b)', t \notin Taking(b)', t \notin Linking(b)',
         t \in Preparing(b)' <=> freeListRefs[b] = M + 1,
         \A u \in Threads : b \in held'[u] <=> b \in held[u],
         b \in OnList' <=> b \in OnList, b \in Born' <=> b \in Born,
         freeListRefs'[b] = freeListRefs[b] - 1
  PROVE  BlockOK(b)'
<1>0. SetTypes(b) /\ CountInv(b) /\ PlaceInv(b) /\ MarkInv(b)
  BY SetsTyped DEF BlockOK
<1>1. /\ Referring(b)' = Referring(b) \ {t} /\ Taking(b)' = Taking(b) \ {t}
      /\ Preparing(b)' = (Preparing(b) \ {t}) \cup (IF t \in Preparing(b)' THEN {t} ELSE {})
      /\ Linking(b)' = Linking(b) \ {t}
  BY SetsAfter
<1>2. Taking(b)' = Taking(b) /\ Linking(b)' = Linking(b) /\ Preparing(b) = {}
  BY <1>0, <1>1 DEF MarkInv
<1>3. Preparing(b)' = IF freeListRefs[b] = M + 1 THEN {t} ELSE {}
  BY <1>1, <1>2
<1>4. /\ Cardinality(Referring(b)') = Cardinality(Referring(b)) - 1
      /\ Cardinality(Referring(b)') \in Nat
      /\ Cardinality(Referring(b)') = 0 <=> Referring(b)' = {}
  <2>1. Referring(b) \ {t} \in SUBSET Threads
    BY <1>0 DEF SetTypes
  <2> QED
    BY <1>0, <1>1, <2>1, OneLess, NoneOrSome DEF SetTypes
<1>5. Counted(b)' <=> Counted(b)
  BY <1>2 DEF Counted
<1>6. Marked(b)' <=> Marked(b)
  BY <1>5 DEF Marked
<1>7. CountInv(b)'
  BY <1>0, <1>4, <1>5, <1>6, ReferringFinite, Constants DEF CountInv
<1>8. freeListRefs[b] = M + 1 <=> Marked(b) /\ Referring(b)' = {}
  <2>1. CASE Marked(b)
    <3>1. freeListRefs[b] = Cardinality(Referring(b)) + M
      BY <1>0, <2>1, RefsSay
    <3> QED
      BY <1>4, <2>1, <3>1, ReferringFinite, Constants
  <2>2. CASE ~Marked(b)
    <3>1. freeListRefs[b] \in Int /\ ~(freeListRefs[b] >= M)
      BY <1>0, <2>2, RefsSay, Constants
    <3> QED
      BY <2>2, <3>1, Constants
  <2> QED
    BY <2>1, <2>2
<1>9. MarkInv(b)'
  BY <1>3, <1>6, <1>8 DEF MarkInv
<1>10. PlaceInv(b)'
  <2>1. CASE freeListRefs[b] # M + 1
    <3>1. Preparing(b)' = Preparing(b)
      BY <1>2, <1>3, <2>1
    <3>2. \A u \in Threads : Owns(u, b)' <=> Owns(u, b)
      BY <1>2, <3>1 DEF Owns
    <3> QED
      BY <1>0, <1>1, <1>2, <3>1, <3>2 DEF PlaceInv
  <2>2. CASE freeListRefs[b] = M + 1
    <3>1. /\ Marked(b) /\ Preparing(b)' = {t} /\ Referring(b)' = {}
      BY <1>3, <1>8, <2>2
    <3>2. /\ Taking(b)' = {} /\ Linking(b)' = {} /\ b \notin OnList' /\ b \in Born'
          /\ \A u \in Threads : b \notin held'[u]
      BY <1>2, <3>1 DEF Marked, Counted
    <3> QED
      BY <3>1, <3>2 DEF PlaceInv, Owns
  <2> QED
    BY <2>1, <2>2
<1> QED
  BY <1>7, <1>9, <1>10 DEF BlockOK

\* The block is given back: it is to be put on the list, by its thread if nobody refers to it.
LEMMA BlockAdded ==
  ASSUME FreeListAssumption, NEW b, BlockOK(b), NEW t \in Threads, OthersRest(t),
         b \in held[t], \A u \in Threads : b \in held'[u] <=> b \in held[u] /\ u # t,
         t \notin Referring(b), t \notin Referring(b)', t \notin Taking(b)', t \notin Linking(b)',
         t \in Preparing(b)' <=> freeListRefs[b] = 0,
         b \in OnList' <=> b \in OnList, b \in Born' <=> b \in Born,
         freeListRefs'[b] = freeListRefs[b] + M
  PROVE  BlockOK(b)'
<1>0. SetTypes(b) /\ CountInv(b) /\ PlaceInv(b) /\ Owns(t, b)
  BY SetsTyped DEF BlockOK, Owns
<1>1. /\ Taking(b) = {} /\ Preparing(b) = {} /\ Linking(b) = {} /\ b \notin OnList /\ b \in Born
      /\ \A u \in Threads : b \notin held'[u]
  <2>1. \A u \in Threads : Owns(u, b) => u = t
    BY <1>0 DEF PlaceInv
  <2>2. t \notin Taking(b) \cup Preparing(b) \cup Linking(b) /\ b \notin OnList /\ b \in Born
    BY <1>0 DEF PlaceInv
  <2> QED
    BY <1>0, <2>1, <2>2 DEF Owns, SetTypes
<1>2. /\ Referring(b)' = Referring(b) /\ Taking(b)' = {} /\ Linking(b)' = {}
      /\ Preparing(b)' = IF freeListRefs[b] = 0 THEN {t} ELSE {}
  <2>1. /\ Referring(b)' = Referring(b) \ {t} /\ Taking(b)' = Taking(b) \ {t}
        /\ Preparing(b)' = (Preparing(b) \ {t}) \cup (IF t \in Preparing(b)' THEN {t} ELSE {})
        /\ Linking(b)' = Linking(b) \ {t}
    BY SetsAfter
  <2> QED
    BY <1>1, <2>1
<1>3. ~Counted(b) /\ ~Counted(b)' /\ ~Marked(b) /\ Marked(b)'
  BY <1>1, <1>2 DEF Counted, Marked
<1>4. CountInv(b)'
  BY <1>0, <1>2, <1>3, ReferringFinite, Constants DEF CountInv
<1>5. freeListRefs[b] = 0 <=> Referring(b) = {}
  BY <1>0, <1>3, NoneOrSome DEF CountInv, SetTypes
<1>6. MarkInv(b)'
  BY <1>2, <1>5 DEF MarkInv
<1>7. PlaceInv(b)'
  BY <1>1, <1>2 DEF PlaceInv, Owns
<1> QED
  BY <1>4, <1>6, <1>7 DEF BlockOK

\* A node whose count is zero, but for its bit, is with one thread and referred to by nobody.
LEMMA PreparedAlone ==
  ASSUME FreeListAssumption, NEW b, BlockOK(b), NEW t \in Preparing(b)
  PROVE  /\ Taking(b) = {} /\ Preparing(b) = {t} /\ Linking(b) = {} /\ Referring(b) = {}
         /\ b \notin OnList /\ b \in Born /\ \A u \in Threads : b \notin held[u]
         /\ freeListRefs[b] = M /\ Marked(b) /\ ~Counted(b)
<1>0. SetTypes(b) /\ CountInv(b) /\ PlaceInv(b) /\ MarkInv(b) /\ t \in Threads /\ Owns(t, b)
  BY SetsTyped DEF BlockOK, Owns, SetTypes
<1>1. \A u \in Threads : Owns(u, b) => u = t
  BY <1>0 DEF PlaceInv
<1>2. t \notin Taking(b) /\ t \notin Linking(b)
  BY DEF Preparing, Taking, Linking
<1>3. Taking(b) \subseteq {t} /\ Preparing(b) \subseteq {t} /\ Linking(b) \subseteq {t}
  BY <1>0, <1>1 DEF Owns, SetTypes
<1>4. /\ Referring(b) = {} /\ b \notin OnList /\ b \in Born
      /\ \A u \in Threads : b \notin held[u]
  BY <1>0, <1>1 DEF MarkInv, PlaceInv, Owns
<1>5. Taking(b) = {} /\ Linking(b) = {} /\ Preparing(b) = {t}
  BY <1>2, <1>3
<1>6. Marked(b) /\ ~Counted(b)
  BY <1>4, <1>5 DEF Marked, Counted
<1>7. Cardinality(Referring(b)) = 0
  BY <1>0, <1>4, NoneOrSome DEF SetTypes
<1>8. freeListRefs[b] = M
  BY <1>0, <1>6, <1>7, Constants DEF CountInv
<1> QED
  BY <1>4, <1>5, <1>6, <1>8

\* The node is given the list's reference.
LEMMA BlockCounted ==
  ASSUME FreeListAssumption, NEW b, BlockOK(b), NEW t \in Threads, OthersRest(t),
         t \in Preparing(b), t \notin Preparing(b)', t \in Linking(b)',
         t \notin Referring(b)', t \notin Taking(b)',
         \A u \in Threads : b \in held'[u] <=> b \in held[u],
         b \in OnList' <=> b \in OnList, b \in Born' <=> b \in Born,
         freeListRefs'[b] = 1
  PROVE  BlockOK(b)'
<1>1. /\ Taking(b) = {} /\ Preparing(b) = {t} /\ Linking(b) = {} /\ Referring(b) = {}
      /\ b \notin OnList /\ b \in Born /\ \A u \in Threads : b \notin held[u]
  BY PreparedAlone
<1>2. /\ Referring(b)' = {} /\ Taking(b)' = {} /\ Preparing(b)' = {} /\ Linking(b)' = {t}
  <2>1. /\ Referring(b)' = Referring(b) \ {t} /\ Taking(b)' = Taking(b) \ {t}
        /\ Preparing(b)' = Preparing(b) \ {t} /\ Linking(b)' = (Linking(b) \ {t}) \cup {t}
    BY SetsAfter
  <2> QED
    BY <1>1, <2>1
<1>3. Counted(b)' /\ ~Marked(b)'
  BY <1>2 DEF Counted, Marked
<1>4. Cardinality(Referring(b)') = 0
  BY <1>2, FS_EmptySet
<1>5. CountInv(b)'
  BY <1>3, <1>4 DEF CountInv
<1>6. MarkInv(b)'
  BY <1>2, <1>3 DEF MarkInv
<1>7. PlaceInv(b)'
  BY <1>1, <1>2 DEF PlaceInv, Owns
<1> QED
  BY <1>5, <1>6, <1>7 DEF BlockOK

\* A node that is being linked is with one thread.
LEMMA LinkedAlone ==
  ASSUME FreeListAssumption, NEW b, BlockOK(b), NEW t \in Linking(b)
  PROVE  /\ Taking(b) = {} /\ Preparing(b) = {} /\ Linking(b) = {t} /\ t \notin Referring(b)
         /\ b \notin OnList /\ b \in Born /\ \A u \in Threads : b \notin held[u]
         /\ freeListRefs[b] = Cardinality(Referring(b)) + 1
<1>0. SetTypes(b) /\ CountInv(b) /\ PlaceInv(b) /\ t \in Threads /\ Owns(t, b)
  BY SetsTyped DEF BlockOK, Owns, SetTypes
<1>1. \A u \in Threads : Owns(u, b) => u = t
  BY <1>0 DEF PlaceInv
<1>2. t \notin Taking(b) /\ t \notin Preparing(b) /\ t \notin Referring(b)
  BY DEF Preparing, Taking, Linking, Referring
<1>3. Taking(b) \subseteq {t} /\ Preparing(b) \subseteq {t} /\ Linking(b) \subseteq {t}
  BY <1>0, <1>1 DEF Owns, SetTypes
<1>4. b \notin OnList /\ b \in Born /\ \A u \in Threads : b \notin held[u]
  BY <1>0, <1>1 DEF PlaceInv, Owns
<1>5. Taking(b) = {} /\ Linking(b) = {t} /\ Preparing(b) = {}
  BY <1>2, <1>3
<1>6. ~Marked(b) /\ Counted(b)
  BY <1>5 DEF Marked, Counted
<1>7. freeListRefs[b] = Cardinality(Referring(b)) + 1
  BY <1>0, <1>6, ReferringFinite DEF CountInv
<1> QED
  BY <1>2, <1>4, <1>5, <1>7

\* The node has been linked.
LEMMA BlockLinked ==
  ASSUME FreeListAssumption, NEW b, BlockOK(b), NEW t \in Threads, OthersRest(t),
         t \in Linking(b), t \notin Linking(b)', t \notin Preparing(b)',
         t \notin Referring(b)', t \notin Taking(b)',
         \A u \in Threads : b \in held'[u] <=> b \in held[u],
         b \in OnList', b \in Born' <=> b \in Born,
         freeListRefs'[b] = freeListRefs[b]
  PROVE  BlockOK(b)'
<1>1. /\ Taking(b) = {} /\ Preparing(b) = {} /\ Linking(b) = {t} /\ t \notin Referring(b)
      /\ b \notin OnList /\ b \in Born /\ \A u \in Threads : b \notin held[u]
      /\ freeListRefs[b] = Cardinality(Referring(b)) + 1
  BY LinkedAlone
<1>2. /\ Referring(b)' = Referring(b) /\ Taking(b)' = {} /\ Preparing(b)' = {}
      /\ Linking(b)' = {}
  <2>1. /\ Referring(b)' = Referring(b) \ {t} /\ Taking(b)' = Taking(b) \ {t}
        /\ Preparing(b)' = Preparing(b) \ {t} /\ Linking(b)' = Linking(b) \ {t}
    BY SetsAfter
  <2> QED
    BY <1>1, <2>1
<1>3. Counted(b)' /\ ~Marked(b)'
  BY DEF Counted, Marked
<1>4. CountInv(b)'
  BY <1>1, <1>2, <1>3, ReferringFinite DEF CountInv
<1>5. MarkInv(b)'
  BY <1>2, <1>3 DEF MarkInv
<1>6. PlaceInv(b)'
  BY <1>1, <1>2 DEF PlaceInv, Owns
<1> QED
  BY <1>4, <1>5, <1>6 DEF BlockOK

\* Linking has failed: the node is to be put on the list again, by the same thread if
\* nobody refers to it.
LEMMA BlockRelinked ==
  ASSUME FreeListAssumption, NEW b, BlockOK(b), NEW t \in Threads, OthersRest(t),
         t \in Linking(b), t \notin Linking(b)', t \notin Referring(b)', t \notin Taking(b)',
         t \in Preparing(b)' <=> freeListRefs[b] = 1,
         \A u \in Threads : b \in held'[u] <=> b \in held[u],
         b \in OnList' <=> b \in OnList, b \in Born' <=> b \in Born,
         freeListRefs'[b] = freeListRefs[b] + M - 1
  PROVE  BlockOK(b)'
<1>0. SetTypes(b)
  BY SetsTyped
<1>1. /\ Taking(b) = {} /\ Preparing(b) = {} /\ Linking(b) = {t} /\ t \notin Referring(b)
      /\ b \notin OnList /\ b \in Born /\ \A u \in Threads : b \notin held[u]
      /\ freeListRefs[b] = Cardinality(Referring(b)) + 1
  BY LinkedAlone
<1>2. /\ Referring(b)' = Referring(b) /\ Taking(b)' = {} /\ Linking(b)' = {}
      /\ Preparing(b)' = IF freeListRefs[b] = 1 THEN {t} ELSE {}
  <2>1. /\ Referring(b)' = Referring(b) \ {t} /\ Taking(b)' = Taking(b) \ {t}
        /\ Preparing(b)' = (Preparing(b) \ {t}) \cup (IF t \in Preparing(b)' THEN {t} ELSE {})
        /\ Linking(b)' = Linking(b) \ {t}
    BY SetsAfter
  <2> QED
    BY <1>1, <2>1
<1>3. ~Counted(b)' /\ Marked(b)'
  BY <1>1, <1>2 DEF Counted, Marked
<1>4. CountInv(b)'
  BY <1>1, <1>2, <1>3, ReferringFinite, Constants DEF CountInv
<1>5. freeListRefs[b] = 1 <=> Referring(b) = {}
  BY <1>0, <1>1, NoneOrSome DEF SetTypes
<1>6. MarkInv(b)'
  BY <1>2, <1>5 DEF MarkInv
<1>7. PlaceInv(b)'
  BY <1>1, <1>2 DEF PlaceInv, Owns
<1> QED
  BY <1>4, <1>6, <1>7 DEF BlockOK

------------------------------------------------------------------------------
(* The steps                                                                *)

\* Loads, and comparisons that fail: a thread goes on and nothing else happens.
LEMMA LoadSteps ==
  ASSUME IInv, NEW t \in Threads,
         \/ LoadHead(t) \/ GetNothing(t) \/ LoadRefs(t) \/ LoadNext(t) \/ LoadSeen(t)
         \/ Acquire(t) /\ freeListRefs[th[t].head] # th[t].refs
         \/ Unlink(t) /\ freeListHead # th[t].head
         \/ Link(t) /\ freeListHead # th[t].seen
         \/ Create(t) /\ created' = created
  PROVE  ListsInv'
<1> USE DEF At, Goto, Return
<1>0. Typed /\ LocalOK(t)
  BY DEF IInv, ListsInv, LocalInv
<1> SUFFICES /\ OthersRest(t) /\ UNCHANGED shared
             /\ \A c \in Blocks : SameRole(t, c)
             /\ LocalOK(t)' /\ (At(t, "poolIndex")' <=> At(t, "poolIndex"))
  BY QuietStep
<1> USE DEF OthersRest, shared, SameRole, Referring, Taking, Preparing, Linking, LocalOK
<1>1. CASE LoadHead(t)
  BY <1>0, <1>1 DEF LoadHead, Typed
<1>2. CASE GetNothing(t)
  BY <1>0, <1>2 DEF GetNothing, Typed, Idle
<1>3. CASE LoadRefs(t)
  BY <1>0, <1>3, NullIsNoBlock DEF LoadRefs, Typed, Idle, M
<1>4. CASE LoadNext(t)
  BY <1>0, <1>4 DEF LoadNext, Typed
<1>5. CASE LoadSeen(t)
  BY <1>0, <1>5 DEF LoadSeen, Typed
<1>6. CASE Acquire(t) /\ freeListRefs[th[t].head] # th[t].refs
  BY <1>0, <1>6 DEF Acquire, Typed, Idle
<1>7. CASE Unlink(t) /\ freeListHead # th[t].head
  BY <1>0, <1>7 DEF Unlink, Typed
<1>8. CASE Link(t) /\ freeListHead # th[t].seen
  BY <1>0, <1>8 DEF Link, Typed
<1>9. CASE Create(t) /\ created' = created
  BY <1>0, <1>9 DEF Create, Typed, Idle
<1> QED
  BY <1>1, <1>2, <1>3, <1>4, <1>5, <1>6, <1>7, <1>8, <1>9

\* A thread that is given a block from the initial pool or a new one.
LEMMA NewBlock ==
  ASSUME FreeListAssumption, IInv, NEW t \in Threads, OthersRest(t),
         NEW b \in Blocks, b \notin Born, Give(t, b),
         th[t].at \in {"poolIndex", "create"},
         \A c \in Blocks : c \in Born' <=> c \in Born \/ c = b,
         UNCHANGED <<freeListHead, freeListRefs, freeListNext>>
  PROVE  BlockInv' /\ ListInv' /\ LocalInv'
<1>0. Typed /\ BlockInv /\ LocalInv /\ ListInv
  BY DEF IInv, ListsInv
<1>1. /\ th'[t] = Idle
      /\ \A u \in Threads, c \in Blocks : c \in held'[u] <=> c \in held[u] \/ (u = t /\ c = b)
  BY <1>0 DEF Give, Return, Typed
<1>2. \A c \in Blocks : SameRole(t, c)
  BY <1>1 DEF SameRole, Referring, Taking, Preparing, Linking, Idle
<1>3. OnList' = OnList
  BY DEF OnList
<1>4. BlockOK(b)'
  <2>1. \A u \in Threads : SameRole(u, b)
    BY <1>2, OthersRoles
  <2>2. \A u \in Threads : b \in held'[u] <=> b \in held[u] \/ u = t
    BY <1>1
  <2> QED
    BY <1>0, <1>3, <2>1, <2>2, BlockGiven DEF BlockInv
<1>5. BlockInv'
  <2> SUFFICES ASSUME NEW c \in Blocks, c # b PROVE SameBlock(c)
    BY <1>0, <1>2, <1>4, Elsewhere
  <2> QED
    BY <1>1, <1>3 DEF SameBlock
<1>6. ListInv'
  BY <1>0, <1>3 DEF ListInv
<1>7. LocalInv'
  <2>1. LocalOK(t)'
    BY <1>1 DEF LocalOK, Idle
  <2> QED
    BY <1>0, <2>1, OthersLocal
<1> QED
  BY <1>5, <1>6, <1>7

LEMMA RequisitionStep ==
  ASSUME FreeListAssumption, IInv, NEW t \in Threads, Requisition(t)
  PROVE  ListsInv'
<1>0. Typed /\ BlockInv /\ LocalInv /\ ListInv /\ PoolInv
  BY DEF IInv, ListsInv
<1>1. /\ OthersRest(t) /\ UNCHANGED shared /\ th[t].at = "idle"
      /\ th'[t].at = IF initialBlockPoolIndex >= PoolSize THEN "loadHead" ELSE "poolIndex"
  BY <1>0 DEF Requisition, At, Goto, OthersRest, Typed
<1>2. \A c \in Blocks : SameRole(t, c)
  BY <1>1 DEF SameRole, Referring, Taking, Preparing, Linking
<1>3. LocalOK(t)'
  BY <1>1 DEF LocalOK
<1>4. CASE initialBlockPoolIndex >= PoolSize
  BY <1>1, <1>2, <1>3, <1>4, QuietStep DEF At
<1>5. CASE ~(initialBlockPoolIndex >= PoolSize)
  <2>1. PoolInv'
    BY <1>0, <1>1, <1>5 DEF PoolInv, shared
  <2>2. BlockInv'
    <3> SUFFICES ASSUME NEW c \in Blocks PROVE BlockOK(c)'
      BY DEF BlockInv
    <3>1. SameBlock(c)
      BY <1>1 DEF SameBlock, shared, OnList, Born
    <3> QED
      BY <1>0, <1>1, <1>2, <3>1, BlockFrame, OthersRoles DEF BlockInv
  <2>3. ListInv'
    BY <1>0, <1>1 DEF ListInv, OnList, shared
  <2>4. LocalInv'
    BY <1>0, <1>1, <1>3, OthersLocal DEF shared
  <2> QED
    BY <2>1, <2>2, <2>3, <2>4 DEF ListsInv
<1> QED
  BY <1>4, <1>5

LEMMA TakeFromPoolStep ==
  ASSUME FreeListAssumption, IInv, NEW t \in Threads, TakeFromPool(t)
  PROVE  ListsInv'
<1> DEFINE i == initialBlockPoolIndex
<1>0. Typed /\ BlockInv /\ LocalInv /\ ListInv /\ PoolInv
  BY DEF IInv, ListsInv
<1>1. /\ OthersRest(t) /\ UNCHANGED <<created, freeListHead, freeListRefs, freeListNext>>
      /\ i' = i + 1 /\ th[t].at = "poolIndex" /\ i \in Nat
      /\ th'[t].at = IF i < PoolSize THEN "idle" ELSE "loadHead"
  BY <1>0 DEF TakeFromPool, At, Goto, Give, Return, Idle, OthersRest, Typed
<1>2. PoolInv'
  <2>1. AtPool' = AtPool \ {t} /\ t \in AtPool /\ AtPool \in SUBSET Threads
    BY <1>1 DEF AtPool, At, OthersRest
  <2>2. Cardinality(AtPool') = Cardinality(AtPool) - 1
    BY <2>1, OneLess
  <2>3. /\ Cardinality(AtPool) \in Nat /\ Cardinality(AtPool) <= Cardinality(Threads)
        /\ Cardinality(Threads) \in Nat
    BY <2>1, Constants, FS_Subset, FS_CardinalityType
  <2> QED
    BY <1>0, <1>1, <2>2, <2>3, Constants DEF PoolInv
<1>3. CASE i < PoolSize
  <2>1. i + 1 \in Blocks /\ i + 1 \notin Born
    BY <1>0, <1>1, <1>3, Constants DEF Born, PoolInv, Blocks
  <2>2. \A c \in Blocks : c \in Born' <=> c \in Born \/ c = i + 1
    BY <1>1, <1>3, Constants DEF Born, Blocks
  <2>3. Give(t, i + 1)
    BY <1>3 DEF TakeFromPool
  <2>4. BlockInv' /\ ListInv' /\ LocalInv'
    BY <1>1, <2>1, <2>2, <2>3, NewBlock
  <2> QED
    BY <1>2, <2>4 DEF ListsInv
<1>4. CASE ~(i < PoolSize)
  <2>1. \A c \in Blocks : SameRole(t, c)
    BY <1>1, <1>4 DEF SameRole, Referring, Taking, Preparing, Linking
  <2>2. Born' = Born /\ OnList' = OnList /\ held' = held
    <3>1. \A c \in 1 .. PoolSize : c <= i' <=> c <= i
      BY <1>1, <1>4, Constants
    <3> QED
      BY <1>1, <1>4, <3>1 DEF Born, OnList, TakeFromPool
  <2>3. BlockInv'
    <3> SUFFICES ASSUME NEW c \in Blocks PROVE BlockOK(c)'
      BY DEF BlockInv
    <3>1. SameBlock(c)
      BY <1>1, <2>2 DEF SameBlock
    <3> QED
      BY <1>0, <1>1, <2>1, <3>1, BlockFrame, OthersRoles DEF BlockInv
  <2>4. ListInv'
    BY <1>0, <1>1, <2>2 DEF ListInv
  <2>5. LocalInv'
    <3>1. LocalOK(t)'
      BY <1>1, <1>4 DEF LocalOK
    <3> QED
      BY <1>0, <1>1, <3>1, OthersLocal
  <2> QED
    BY <1>2, <2>3, <2>4, <2>5 DEF ListsInv
<1> QED
  BY <1>3, <1>4

LEMMA CreateStep ==
  ASSUME FreeListAssumption, IInv, NEW t \in Threads, Create(t)
  PROVE  ListsInv'
<1>0. Typed /\ BlockInv /\ LocalInv /\ ListInv /\ PoolInv
  BY DEF IInv, ListsInv
<1>1. CASE created' = created
  BY <1>1, LoadSteps
<1>2. CASE created' # created
  <2> PICK b \in PoolSize + 1 .. MaxBlocks :
             b \notin created /\ created' = created \cup {b} /\ Give(t, b)
    BY <1>2 DEF Create
  <2>1. /\ OthersRest(t) /\ th[t].at = "create" /\ th'[t] = Idle
        /\ UNCHANGED <<initialBlockPoolIndex, freeListHead, freeListRefs, freeListNext>>
    BY <1>0 DEF Create, At, Give, Return, OthersRest, Typed
  <2>2. b \in Blocks /\ b \notin Born /\ \A c \in Blocks : c \in Born' <=> c \in Born \/ c = b
    BY <2>1, Constants DEF Blocks, Born
  <2>3. BlockInv' /\ ListInv' /\ LocalInv'
    BY <2>1, <2>2, NewBlock
  <2>4. PoolInv'
    <3>1. AtPool' = AtPool
      BY <2>1 DEF AtPool, At, OthersRest, Idle
    <3> QED
      BY <1>0, <2>1, <3>1 DEF PoolInv
  <2> QED
    BY <2>3, <2>4 DEF ListsInv
<1> QED
  BY <1>1, <1>2

\* A step that changes the count of a node, and the list not.
LEMMA CountStep ==
  ASSUME IInv, NEW t \in Threads, OthersRest(t), NEW n \in Blocks,
         UNCHANGED <<initialBlockPoolIndex, created, freeListHead, freeListNext>>,
         \A c \in Blocks : c # n =>
           /\ SameRole(t, c) /\ freeListRefs'[c] = freeListRefs[c]
           /\ \A u \in Threads : c \in held'[u] <=> c \in held[u],
         LocalOK(t)', At(t, "poolIndex")' <=> At(t, "poolIndex"),
         BlockOK(n)'
  PROVE  ListsInv'
<1>0. BlockInv /\ LocalInv /\ ListInv /\ PoolInv
  BY DEF IInv, ListsInv
<1>1. OnList' = OnList /\ Born' = Born
  BY DEF OnList, Born
<1>2. BlockInv'
  <2> SUFFICES ASSUME NEW c \in Blocks, c # n PROVE SameBlock(c) /\ SameRole(t, c)
    BY <1>0, Elsewhere
  <2> QED
    BY <1>1 DEF SameBlock
<1>3. ListInv'
  BY <1>0, <1>1 DEF ListInv
<1>4. LocalInv' /\ PoolInv'
  BY <1>0, OthersLocal, PoolFrame
<1> QED
  BY <1>2, <1>3, <1>4 DEF ListsInv

LEMMA AcquireStep ==
  ASSUME FreeListAssumption, IInv, NEW t \in Threads, Acquire(t)
  PROVE  ListsInv'
<1>0. Typed /\ BlockInv /\ LocalOK(t)
  BY DEF IInv, ListsInv, LocalInv
<1>1. CASE freeListRefs[th[t].head] # th[t].refs
  BY <1>1, LoadSteps
<1>2. CASE freeListRefs[th[t].head] = th[t].refs
  <2> PICK n \in Blocks : n = th[t].head
    BY <1>0 DEF Acquire, At, LocalOK
  <2>1. th[t].at = "acquire" /\ freeListRefs[n] % M # 0
    BY <1>0, <1>2 DEF Acquire, At, LocalOK
  <2>2. /\ freeListRefs' = [freeListRefs EXCEPT ![n] = @ + 1]
        /\ UNCHANGED <<initialBlockPoolIndex, created, freeListHead, freeListNext, held>>
        /\ OthersRest(t) /\ th'[t].at = "loadNext" /\ th'[t].head = n
    BY <1>0, <1>2 DEF Acquire, OthersRest, Typed
  <2>3. \A c \in Blocks : c # n => SameRole(t, c)
    BY <2>1, <2>2 DEF SameRole, Referring, Taking, Preparing, Linking
  <2>4. /\ t \notin Referring(n) /\ t \in Referring(n)' /\ t \notin Taking(n)'
        /\ t \notin Preparing(n)' /\ t \notin Linking(n)'
        /\ t \notin Preparing(n) /\ t \notin Linking(n)
    BY <2>1, <2>2 DEF Referring, Taking, Preparing, Linking
  <2>5. freeListRefs'[n] = freeListRefs[n] + 1
        /\ \A c \in Blocks : c # n => freeListRefs'[c] = freeListRefs[c]
    BY <1>0, <2>1, <2>2 DEF Typed
  <2>6. LocalOK(t)' /\ ~At(t, "poolIndex")' /\ ~At(t, "poolIndex")
    BY <2>1, <2>2 DEF LocalOK, At
  <2>7. OnList' = OnList /\ Born' = Born /\ BlockOK(n)
    BY <1>0, <2>1, <2>2 DEF OnList, Born, BlockInv
  <2>8. BlockOK(n)'
    BY <2>1, <2>2, <2>4, <2>5, <2>7, BlockAcquired
  <2> QED
    BY <2>1, <2>2, <2>3, <2>5, <2>6, <2>8, CountStep
<1> QED
  BY <1>1, <1>2

LEMMA TakeStep ==
  ASSUME FreeListAssumption, IInv, NEW t \in Threads, Take(t)
  PROVE  ListsInv'
<1>0. Typed /\ BlockInv /\ LocalOK(t)
  BY DEF IInv, ListsInv, LocalInv
<1> PICK n \in Blocks : n = th[t].head
  BY <1>0 DEF Take, At, LocalOK
<1>1. th[t].at = "take"
  BY DEF Take, At
<1>2. /\ freeListRefs' = [freeListRefs EXCEPT ![n] = @ - 2]
      /\ UNCHANGED <<initialBlockPoolIndex, created, freeListHead, freeListNext>>
      /\ held' = [held EXCEPT ![t] = @ \cup {n}]
      /\ OthersRest(t) /\ th'[t].at = "idle"
  BY <1>0 DEF Take, Give, Return, Idle, OthersRest, Typed
<1>3. \A c \in Blocks : c # n => SameRole(t, c)
  BY <1>1, <1>2 DEF SameRole, Referring, Taking, Preparing, Linking
<1>4. /\ t \in Taking(n) /\ t \notin Referring(n)' /\ t \notin Taking(n)'
      /\ t \notin Preparing(n)' /\ t \notin Linking(n)'
  BY <1>1, <1>2 DEF Referring, Taking, Preparing, Linking
<1>5. /\ freeListRefs'[n] = freeListRefs[n] - 2
      /\ \A c \in Blocks : c # n => freeListRefs'[c] = freeListRefs[c]
  BY <1>0, <1>1, <1>2 DEF Typed
<1>6. LocalOK(t)' /\ ~At(t, "poolIndex")' /\ ~At(t, "poolIndex")
  BY <1>1, <1>2 DEF LocalOK, At
<1>7. OnList' = OnList /\ Born' = Born /\ BlockOK(n)
  BY <1>0, <1>1, <1>2 DEF OnList, Born, BlockInv
<1>8. /\ \A u \in Threads : n \in held'[u] <=> n \in held[u] \/ u = t
      /\ \A c \in Blocks : c # n => \A u \in Threads : c \in held'[u] <=> c \in held[u]
  BY <1>0, <1>2 DEF Typed
<1>9. BlockOK(n)'
  BY <1>2, <1>4, <1>5, <1>7, <1>8, BlockTaken
<1> QED
  BY <1>1, <1>2, <1>3, <1>5, <1>6, <1>8, <1>9, CountStep

LEMMA ReleaseStep ==
  ASSUME FreeListAssumption, IInv, NEW t \in Threads, Release(t)
  PROVE  ListsInv'
<1>0. Typed /\ BlockInv /\ LocalOK(t)
  BY DEF IInv, ListsInv, LocalInv
<1> PICK n \in Blocks : n = th[t].node
  BY <1>0 DEF Release, At, LocalOK
<1>1. th[t].at = "release"
  BY DEF Release, At
<1>2. /\ freeListRefs' = [freeListRefs EXCEPT ![n] = @ - 1]
      /\ UNCHANGED <<initialBlockPoolIndex, created, freeListHead, freeListNext, held>>
      /\ OthersRest(t)
      /\ \/ freeListRefs[n] = M + 1 /\ th'[t].at = "loadSeen" /\ th'[t].node = n
         \/ freeListRefs[n] # M + 1 /\ th'[t].at = "loadRefs"
  BY <1>0 DEF Release, OthersRest, Typed, M
<1>3. \A c \in Blocks : c # n => SameRole(t, c)
  BY <1>1, <1>2 DEF SameRole, Referring, Taking, Preparing, Linking
<1>4. /\ t \in Referring(n) /\ t \notin Taking(n) /\ t \notin Preparing(n) /\ t \notin Linking(n)
      /\ t \notin Referring(n)' /\ t \notin Taking(n)' /\ t \notin Linking(n)'
      /\ t \in Preparing(n)' <=> freeListRefs[n] = M + 1
  BY <1>1, <1>2 DEF Referring, Taking, Preparing, Linking
<1>5. /\ freeListRefs'[n] = freeListRefs[n] - 1
      /\ \A c \in Blocks : c # n => freeListRefs'[c] = freeListRefs[c]
  BY <1>0, <1>1, <1>2 DEF Typed
<1>6. LocalOK(t)' /\ ~At(t, "poolIndex")' /\ ~At(t, "poolIndex")
  BY <1>1, <1>2 DEF LocalOK, At
<1>7. OnList' = OnList /\ Born' = Born /\ BlockOK(n)
  BY <1>0, <1>1, <1>2 DEF OnList, Born, BlockInv
<1>8. BlockOK(n)'
  BY <1>2, <1>4, <1>5, <1>7, BlockReleased
<1> QED
  BY <1>1, <1>2, <1>3, <1>5, <1>6, <1>8, CountStep

LEMMA AddStep ==
  ASSUME FreeListAssumption, IInv, NEW t \in Threads, NEW n \in Blocks, Add(t, n)
  PROVE  ListsInv'
<1>0. Typed /\ BlockInv /\ LocalOK(t)
  BY DEF IInv, ListsInv, LocalInv
<1>1. /\ th[t].at = "idle" /\ n \in held[t]
      /\ freeListRefs' = [freeListRefs EXCEPT ![n] = @ + M]
      /\ UNCHANGED <<initialBlockPoolIndex, created, freeListHead, freeListNext>>
      /\ held' = [held EXCEPT ![t] = @ \ {n}]
      /\ OthersRest(t)
      /\ \/ freeListRefs[n] = 0 /\ th'[t].at = "loadSeen" /\ th'[t].node = n
         \/ freeListRefs[n] # 0 /\ th'[t].at = "idle"
  BY <1>0 DEF Add, At, OthersRest, Typed, M
<1>2. \A c \in Blocks : c # n => SameRole(t, c)
  BY <1>1 DEF SameRole, Referring, Taking, Preparing, Linking
<1>3. /\ t \notin Referring(n) /\ t \notin Referring(n)' /\ t \notin Taking(n)'
      /\ t \notin Linking(n)'
      /\ t \in Preparing(n)' <=> freeListRefs[n] = 0
  BY <1>1 DEF Referring, Taking, Preparing, Linking
<1>4. /\ freeListRefs'[n] = freeListRefs[n] + M
      /\ \A c \in Blocks : c # n => freeListRefs'[c] = freeListRefs[c]
  BY <1>0, <1>1 DEF Typed
<1>5. LocalOK(t)' /\ ~At(t, "poolIndex")' /\ ~At(t, "poolIndex")
  BY <1>1 DEF LocalOK, At
<1>6. OnList' = OnList /\ Born' = Born /\ BlockOK(n)
  BY <1>0, <1>1 DEF OnList, Born, BlockInv
<1>7. /\ \A u \in Threads : n \in held'[u] <=> n \in held[u] /\ u # t
      /\ \A c \in Blocks : c # n => \A u \in Threads : c \in held'[u] <=> c \in held[u]
  BY <1>0, <1>1 DEF Typed
<1>8. BlockOK(n)'
  BY <1>1, <1>3, <1>4, <1>6, <1>7, BlockAdded
<1> QED
  BY <1>1, <1>2, <1>4, <1>5, <1>7, <1>8, CountStep

LEMMA SetRefsStep ==
  ASSUME FreeListAssumption, IInv, NEW t \in Threads, SetRefs(t)
  PROVE  ListsInv'
<1>0. Typed /\ BlockInv /\ LocalOK(t)
  BY DEF IInv, ListsInv, LocalInv
<1> PICK n \in Blocks : n = th[t].node
  BY <1>0 DEF SetRefs, At, LocalOK
<1>1. th[t].at = "setRefs"
  BY DEF SetRefs, At
<1>2. /\ freeListRefs' = [freeListRefs EXCEPT ![n] = 1]
      /\ UNCHANGED <<initialBlockPoolIndex, created, freeListHead, freeListNext, held>>
      /\ OthersRest(t) /\ th'[t].at = "link" /\ th'[t].node = n /\ th'[t].seen = th[t].seen
  BY <1>0 DEF SetRefs, Goto, OthersRest, Typed
<1>3. \A c \in Blocks : c # n => SameRole(t, c)
  BY <1>1, <1>2 DEF SameRole, Referring, Taking, Preparing, Linking
<1>4. /\ t \in Preparing(n) /\ t \notin Preparing(n)' /\ t \in Linking(n)'
      /\ t \notin Referring(n)' /\ t \notin Taking(n)'
  BY <1>1, <1>2 DEF Referring, Taking, Preparing, Linking
<1>5. /\ freeListRefs'[n] = 1
      /\ \A c \in Blocks : c # n => freeListRefs'[c] = freeListRefs[c]
  BY <1>0, <1>1, <1>2 DEF Typed
<1>6. LocalOK(t)' /\ ~At(t, "poolIndex")' /\ ~At(t, "poolIndex")
  BY <1>0, <1>1, <1>2 DEF LocalOK, At
<1>7. OnList' = OnList /\ Born' = Born /\ BlockOK(n)
  BY <1>0, <1>1, <1>2 DEF OnList, Born, BlockInv
<1>8. BlockOK(n)'
  BY <1>2, <1>4, <1>5, <1>7, BlockCounted
<1> QED
  BY <1>1, <1>2, <1>3, <1>5, <1>6, <1>8, CountStep

LEMMA RelinkStep ==
  ASSUME FreeListAssumption, IInv, NEW t \in Threads, Relink(t)
  PROVE  ListsInv'
<1>0. Typed /\ BlockInv /\ LocalOK(t)
  BY DEF IInv, ListsInv, LocalInv
<1> PICK n \in Blocks : n = th[t].node
  BY <1>0 DEF Relink, At, LocalOK
<1>1. th[t].at = "relink"
  BY DEF Relink, At
<1>2. /\ freeListRefs' = [freeListRefs EXCEPT ![n] = @ + M - 1]
      /\ UNCHANGED <<initialBlockPoolIndex, created, freeListHead, freeListNext, held>>
      /\ OthersRest(t)
      /\ \/ freeListRefs[n] = 1 /\ th'[t].at = "setNext" /\ th'[t].node = n
         \/ freeListRefs[n] # 1 /\ th'[t].at \in {"idle", "loadRefs"}
  <2>1. Added(t).at \in {"idle", "loadRefs"}
    BY DEF Added, Idle
  <2>2. CASE freeListRefs[n] = 1
    BY <1>0, <2>2 DEF Relink, Goto, OthersRest, Typed, M
  <2>3. CASE freeListRefs[n] # 1
    BY <1>0, <2>1, <2>3 DEF Relink, OthersRest, Typed, M
  <2> QED
    BY <2>2, <2>3
<1>3. \A c \in Blocks : c # n => SameRole(t, c)
  BY <1>1, <1>2 DEF SameRole, Referring, Taking, Preparing, Linking
<1>4. /\ t \in Linking(n) /\ t \notin Linking(n)' /\ t \notin Referring(n)'
      /\ t \notin Taking(n)'
      /\ t \in Preparing(n)' <=> freeListRefs[n] = 1
  BY <1>1, <1>2 DEF Referring, Taking, Preparing, Linking
<1>5. /\ freeListRefs'[n] = freeListRefs[n] + M - 1
      /\ \A c \in Blocks : c # n => freeListRefs'[c] = freeListRefs[c]
  BY <1>0, <1>1, <1>2 DEF Typed
<1>6. LocalOK(t)' /\ ~At(t, "poolIndex")' /\ ~At(t, "poolIndex")
  BY <1>1, <1>2 DEF LocalOK, At
<1>7. OnList' = OnList /\ Born' = Born /\ BlockOK(n)
  BY <1>0, <1>1, <1>2 DEF OnList, Born, BlockInv
<1>8. BlockOK(n)'
  BY <1>2, <1>4, <1>5, <1>7, BlockRelinked
<1> QED
  BY <1>1, <1>2, <1>3, <1>5, <1>6, <1>8, CountStep

\* The node at the head is taken off: the list is what it led to, and the node is not there.
LEMMA UnlinkStep ==
  ASSUME FreeListAssumption, IInv, NEW t \in Threads, Unlink(t)
  PROVE  ListsInv'
<1>0. Typed /\ BlockInv /\ LocalInv /\ LocalOK(t) /\ ListInv /\ PoolInv
  BY DEF IInv, ListsInv, LocalInv
<1>1. CASE freeListHead # th[t].head
  BY <1>1, LoadSteps
<1>2. CASE freeListHead = th[t].head
  <2> PICK n \in Blocks : n = th[t].head
    BY <1>0 DEF Unlink, At, LocalOK
  <2> DEFINE f == freeListNext
  <2>1. /\ th[t].at = "unlink" /\ freeListHead = n /\ freeListHead' = f[n]
        /\ UNCHANGED <<initialBlockPoolIndex, created, freeListRefs, freeListNext, held>>
        /\ OthersRest(t) /\ th'[t].at = "take" /\ th'[t].head = n
    BY <1>0, <1>2 DEF Unlink, At, Goto, LocalOK, OthersRest, Typed
  <2>2. OnList = {n} \cup Reach(f[n], f) /\ OnList' = Reach(f[n], f)
    BY <1>0, <2>1, ReachStep DEF OnList, Typed
  <2>3. n \in OnList /\ n \notin OnList' /\ OnList' \subseteq OnList
    BY <1>0, <2>2 DEF ListInv
  <2>4. \A c \in Blocks : c # n => SameRole(t, c)
    BY <2>1 DEF SameRole, Referring, Taking, Preparing, Linking
  <2>5. /\ t \in Referring(n) /\ t \in Referring(n)' /\ t \in Taking(n)'
        /\ t \notin Preparing(n)' /\ t \notin Linking(n)'
    BY <2>1 DEF Referring, Taking, Preparing, Linking
  <2>6. BlockOK(n)'
    BY <1>0, <2>1, <2>3, <2>5, BlockUnlinked DEF BlockInv, Born
  <2>7. BlockInv'
    <3> SUFFICES ASSUME NEW c \in Blocks, c # n PROVE SameBlock(c)
      BY <1>0, <2>1, <2>4, <2>6, Elsewhere
    <3> QED
      BY <2>1, <2>2 DEF SameBlock, Born
  <2>8. ListInv'
    BY <1>0, <2>1, <2>3 DEF ListInv
  <2>9. LocalInv' /\ PoolInv'
    <3>1. LocalOK(t)' /\ ~At(t, "poolIndex")' /\ ~At(t, "poolIndex")
      BY <2>1 DEF LocalOK, At
    <3> QED
      BY <1>0, <2>1, <3>1, OthersLocal, PoolFrame
  <2> QED
    BY <2>7, <2>8, <2>9 DEF ListsInv
<1> QED
  BY <1>1, <1>2

\* The link of a node that is not on the list, and that nobody refers to, is set.
LEMMA SetNextStep ==
  ASSUME FreeListAssumption, IInv, NEW t \in Threads, SetNext(t)
  PROVE  ListsInv'
<1>0. Typed /\ BlockInv /\ LocalInv /\ LocalOK(t) /\ ListInv /\ PoolInv
  BY DEF IInv, ListsInv, LocalInv
<1> PICK n \in Blocks : n = th[t].node
  BY <1>0 DEF SetNext, At, LocalOK
<1> DEFINE f == freeListNext
<1>1. /\ th[t].at = "setNext" /\ f' = [f EXCEPT ![n] = th[t].seen] /\ th[t].seen \in Links
      /\ UNCHANGED <<initialBlockPoolIndex, created, freeListHead, freeListRefs, held>>
      /\ OthersRest(t) /\ th'[t].at = "setRefs" /\ th'[t].node = n /\ th'[t].seen = th[t].seen
  BY <1>0 DEF SetNext, At, Goto, OthersRest, Typed
<1>2. t \in Preparing(n)
  BY <1>1 DEF Preparing
<1>3. Referring(n) = {} /\ n \notin OnList /\ Preparing(n) = {t} /\ Linking(n) = {}
  BY <1>0, <1>2, PreparedAlone DEF BlockInv
<1>4. f \in [Blocks -> Links] /\ freeListHead \in Links
  BY <1>0 DEF Typed
<1>5. OnList' = OnList
  <2>1. Reach(freeListHead, [f EXCEPT ![n] = th[t].seen]) = Reach(freeListHead, f)
    BY <1>1, <1>3, <1>4, ReachUnchanged DEF OnList
  <2> QED
    BY <1>1, <2>1 DEF OnList
<1>6. ListInv'
  <2> SUFFICES ASSUME NEW b \in OnList PROVE b \notin Reach(f'[b], f')
    BY <1>5 DEF ListInv
  <2>1. b \in Blocks /\ b # n /\ f'[b] = f[b] /\ f[b] \in Links
    BY <1>1, <1>3, <1>4, ReachClosed DEF OnList
  <2>2. n \notin Reach(f[b], f)
    <3>1. CASE f[b] = Null
      BY <3>1, ReachNull
    <3>2. CASE f[b] # Null
      <4>1. f[b] \in OnList
        BY <1>4, <3>2, ReachClosed DEF OnList
      <4>2. Reach(f[b], f) \subseteq OnList
        BY <1>4, <4>1, ReachWithin DEF OnList
      <4> QED
        BY <1>3, <4>2
    <3> QED
      BY <3>1, <3>2
  <2>3. Reach(f[b], [f EXCEPT ![n] = th[t].seen]) = Reach(f[b], f)
    BY <1>1, <1>4, <2>1, <2>2, ReachUnchanged
  <2>4. b \notin Reach(f[b], f)
    BY <1>0 DEF ListInv
  <2> QED
    BY <1>1, <2>1, <2>3, <2>4
<1>7. BlockInv'
  <2> SUFFICES ASSUME NEW c \in Blocks PROVE BlockOK(c)'
    BY DEF BlockInv
  <2>1. SameBlock(c)
    BY <1>1, <1>5 DEF SameBlock, Born
  <2>2. SameRole(t, c)
    BY <1>1 DEF SameRole, Referring, Taking, Preparing, Linking
  <2> QED
    BY <1>0, <1>1, <2>1, <2>2, BlockFrame, OthersRoles DEF BlockInv
<1>8. LocalInv'
  <2> SUFFICES ASSUME NEW u \in Threads PROVE LocalOK(u)'
    BY DEF LocalInv
  <2>1. CASE u = t
    BY <1>1, <1>4, <2>1 DEF LocalOK
  <2>2. CASE u # t
    <3>1. th'[u] = th[u] /\ LocalOK(u)
      BY <1>0, <1>1, <2>2 DEF OthersRest, LocalInv
    <3>2. th[u].at = "unlink" => th[u].head # n
      BY <1>3 DEF Referring
    <3>3. th[u].at \in {"setRefs", "link"} => th[u].node # n
      BY <1>3, <2>2 DEF Preparing, Linking
    <3> QED
      BY <1>1, <1>4, <3>1, <3>2, <3>3 DEF LocalOK
  <2> QED
    BY <2>1, <2>2
<1>9. PoolInv'
  BY <1>0, <1>1, PoolFrame DEF At
<1> QED
  BY <1>6, <1>7, <1>8, <1>9 DEF ListsInv

\* The node becomes the head; it leads to what was the list.
LEMMA LinkStep ==
  ASSUME FreeListAssumption, IInv, NEW t \in Threads, Link(t)
  PROVE  ListsInv'
<1>0. Typed /\ BlockInv /\ LocalInv /\ LocalOK(t) /\ ListInv /\ PoolInv
  BY DEF IInv, ListsInv, LocalInv
<1>1. CASE freeListHead # th[t].seen
  BY <1>1, LoadSteps
<1>2. CASE freeListHead = th[t].seen
  <2> PICK n \in Blocks : n = th[t].node
    BY <1>0 DEF Link, At, LocalOK
  <2> DEFINE f == freeListNext
  <2>1. /\ th[t].at = "link" /\ freeListHead = f[n] /\ freeListHead' = n
        /\ UNCHANGED <<initialBlockPoolIndex, created, freeListRefs, freeListNext, held>>
        /\ OthersRest(t) /\ th'[t].at \in {"idle", "loadRefs"}
    <3>1. Added(t).at \in {"idle", "loadRefs"}
      BY DEF Added, Idle
    <3> QED
      BY <1>0, <1>2, <3>1 DEF Link, At, LocalOK, OthersRest, Typed
  <2>2. OnList' = {n} \cup OnList
    BY <1>0, <2>1, ReachStep DEF OnList, Typed
  <2>3. t \in Linking(n)
    BY <2>1 DEF Linking
  <2>4. n \notin OnList
    BY <1>0, <2>3, LinkedAlone DEF BlockInv
  <2>5. /\ t \notin Linking(n)' /\ t \notin Preparing(n)'
        /\ t \notin Referring(n)' /\ t \notin Taking(n)'
    BY <2>1 DEF Referring, Taking, Preparing, Linking
  <2>6. \A c \in Blocks : c # n => SameRole(t, c)
    BY <2>1 DEF SameRole, Referring, Taking, Preparing, Linking
  <2>7. BlockOK(n)'
    BY <1>0, <2>1, <2>2, <2>3, <2>5, BlockLinked DEF BlockInv, Born
  <2>8. BlockInv'
    <3> SUFFICES ASSUME NEW c \in Blocks, c # n PROVE SameBlock(c)
      BY <1>0, <2>1, <2>6, <2>7, Elsewhere
    <3> QED
      BY <2>1, <2>2 DEF SameBlock, Born
  <2>9. ListInv'
    <3> SUFFICES ASSUME NEW b \in OnList' PROVE b \notin Reach(f[b], f)
      BY <2>1 DEF ListInv
    <3>1. CASE b = n
      BY <2>1, <2>4, <3>1 DEF OnList
    <3>2. CASE b # n
      BY <1>0, <2>2, <3>2 DEF ListInv
    <3> QED
      BY <3>1, <3>2
  <2>10. LocalInv' /\ PoolInv'
    <3>1. LocalOK(t)' /\ ~At(t, "poolIndex")' /\ ~At(t, "poolIndex")
      BY <2>1 DEF LocalOK, At
    <3> QED
      BY <1>0, <2>1, <3>1, OthersLocal, PoolFrame
  <2> QED
    BY <2>8, <2>9, <2>10 DEF ListsInv
<1> QED
  BY <1>1, <1>2

\* Every step keeps the types.
LEMMA TypedStep ==
  ASSUME FreeListAssumption, IInv, [Next]_vars
  PROVE  Typed'
<1> USE DEF At, Goto, Return, Give, Idle
<1>0. Typed /\ BlockInv /\ LocalInv
  BY DEF IInv, ListsInv
<1>1. CASE UNCHANGED vars
  BY <1>0, <1>1 DEF vars, Typed
<1>2. ASSUME NEW t \in Threads, Requisition(t) \/ (\E b \in Blocks : Add(t, b)) \/ InCall(t)
      PROVE  Typed'
  <2>0. LocalOK(t)
    BY <1>0 DEF LocalInv
  <2>1. CASE Requisition(t) \/ LoadHead(t) \/ GetNothing(t) \/ LoadNext(t) \/ LoadSeen(t)
    BY <1>0, <2>0, <2>1
       DEF Requisition, LoadHead, GetNothing, LoadNext, LoadSeen, shared, Typed, Places, LocalOK,
           Links
  <2>2. CASE \E b \in Blocks : Add(t, b)
    <3> PICK b \in Blocks : Add(t, b)
      BY <2>2
    <3>1. M \in Int
      BY Constants
    <3>2. freeListRefs' \in [Blocks -> Int] /\ held' \in [Threads -> SUBSET Blocks]
      BY <1>0, <3>1 DEF Add, Typed, M
    <3>3. th' = [th EXCEPT ![t].at = "loadSeen", ![t].node = b] \/ th' = th
      BY DEF Add
    <3>4. th' \in [Threads -> [at : Places, head : Links, refs : Nat, next : Links,
                              node : Links, seen : Links, then : {"idle", "loadRefs"}]]
      BY <1>0, <3>3 DEF Typed, Places, Links
    <3> QED
      BY <1>0, <3>2, <3>4 DEF Add, Typed
  <2>3. CASE TakeFromPool(t)
    <3>1. initialBlockPoolIndex < PoolSize => initialBlockPoolIndex + 1 \in Blocks
      BY <1>0, Constants DEF Typed, Blocks
    <3> QED
      BY <1>0, <2>3, <3>1 DEF TakeFromPool, Typed, Places, Links
  <2>4. CASE Create(t)
    <3>1. PoolSize + 1 .. MaxBlocks \subseteq Blocks
      BY Constants DEF Blocks
    <3> QED
      BY <1>0, <2>4, <3>1 DEF Create, Typed, Places, Links
  <2>5. CASE LoadRefs(t)
    <3>1. th[t].head # Null => freeListRefs[th[t].head] \in Nat
      <4> SUFFICES ASSUME th[t].head # Null PROVE freeListRefs[th[t].head] \in Nat
        OBVIOUS
      <4> PICK b \in Blocks : b = th[t].head
        BY <1>0, NullIsNoBlock DEF Typed
      <4>1. CountInv(b)
        BY <1>0 DEF BlockInv, BlockOK
      <4>2. freeListRefs[b] \in 0 .. 2 * M - 1
        BY <4>1, RefsSay
      <4> QED
        BY <4>2, Constants
    <3> QED
      BY <1>0, <2>5, <3>1 DEF LoadRefs, shared, Typed, Places, Links
  <2>6. CASE Acquire(t)
    BY <1>0, <2>0, <2>6 DEF Acquire, Typed, Places, Links, LocalOK
  <2>7. CASE Unlink(t)
    BY <1>0, <2>0, <2>7 DEF Unlink, Typed, Places, Links, LocalOK
  <2>8. CASE Take(t)
    BY <1>0, <2>0, <2>8 DEF Take, Typed, Places, Links, LocalOK
  <2>9. CASE Release(t)
    BY <1>0, <2>0, <2>9 DEF Release, Typed, Places, Links, LocalOK
  <2>10. CASE SetNext(t) \/ SetRefs(t)
    BY <1>0, <2>0, <2>10 DEF SetNext, SetRefs, Typed, Places, Links, LocalOK
  <2>11. CASE Link(t)
    <3>1. Added(t) \in [at : Places, head : Links, refs : Nat, next : Links,
                        node : Links, seen : Links, then : {"idle", "loadRefs"}]
      BY <1>0 DEF Added, Typed, Places, Links
    <3>2. th[t].node \in Links
      BY <1>0 DEF Typed
    <3>3. CASE freeListHead = th[t].seen
      BY <1>0, <2>11, <3>1, <3>2, <3>3 DEF Link, Typed
    <3>4. CASE freeListHead # th[t].seen
      BY <1>0, <2>11, <3>4 DEF Link, Typed, Places
    <3> QED
      BY <3>3, <3>4
  <2>12. CASE Relink(t)
    <3>1. Added(t) \in [at : Places, head : Links, refs : Nat, next : Links,
                        node : Links, seen : Links, then : {"idle", "loadRefs"}]
      BY <1>0 DEF Added, Typed, Places, Links
    <3>2. th[t].node \in Blocks /\ M \in Int
      BY <2>0, <2>12, Constants DEF Relink, LocalOK
    <3>3. CASE freeListRefs[th[t].node] = 1
      BY <1>0, <2>12, <3>2, <3>3 DEF Relink, Typed, Places, M
    <3>4. CASE freeListRefs[th[t].node] # 1
      BY <1>0, <2>12, <3>1, <3>2, <3>4 DEF Relink, Typed, M
    <3> QED
      BY <3>3, <3>4
  <2> QED
    BY <1>2, <2>1, <2>2, <2>3, <2>4, <2>5, <2>6, <2>7, <2>8, <2>9, <2>10, <2>11, <2>12 DEF InCall
<1> QED
  BY <1>1, <1>2 DEF Next

LEMMA ListsStep ==
  ASSUME FreeListAssumption, IInv, [Next]_vars
  PROVE  ListsInv'
<1>1. CASE UNCHANGED vars
  <2>1. \A c \in Blocks : SameBlock(c)
    BY <1>1 DEF vars, SameBlock, OnList, Born
  <2>2. \A u \in Threads, c \in Blocks : SameRole(u, c)
    BY <1>1 DEF vars, SameRole, Referring, Taking, Preparing, Linking
  <2>3. BlockInv'
    <3> SUFFICES ASSUME NEW c \in Blocks PROVE BlockOK(c)'
      BY DEF BlockInv
    <3> QED
      BY <2>1, <2>2, BlockFrame DEF IInv, ListsInv, BlockInv
  <2>4. ListInv' /\ LocalInv' /\ PoolInv'
    BY <1>1 DEF IInv, ListsInv, ListInv, LocalInv, LocalOK, PoolInv, vars, OnList, AtPool, At
  <2> QED
    BY <2>3, <2>4 DEF ListsInv
<1>2. ASSUME NEW t \in Threads, Requisition(t) \/ (\E b \in Blocks : Add(t, b)) \/ InCall(t)
      PROVE  ListsInv'
  <2>1. CASE Requisition(t)
    BY <2>1, RequisitionStep
  <2>2. CASE \E b \in Blocks : Add(t, b)
    BY <2>2, AddStep
  <2>3. CASE InCall(t)
    BY <2>3, TakeFromPoolStep, CreateStep, LoadSteps, AcquireStep, UnlinkStep, TakeStep,
       ReleaseStep, SetNextStep, SetRefsStep, LinkStep, RelinkStep DEF InCall
  <2> QED
    BY <1>2, <2>1, <2>2, <2>3
<1> QED
  BY <1>1, <1>2 DEF Next

LEMMA InvInit == ASSUME FreeListAssumption, Init PROVE IInv
<1>1. /\ \A t \in Threads : th[t] = Idle /\ held[t] = {}
      /\ \A b \in Blocks : freeListRefs[b] = 0 /\ freeListNext[b] = Null
      /\ freeListHead = Null /\ created = {} /\ initialBlockPoolIndex = 0
  BY DEF Init
<1>2. Typed
  BY <1>1 DEF Init, Typed, Idle, Places, Links
<1>3. OnList = {} /\ Born = {}
  BY <1>1, ReachNull, Constants DEF OnList, Born
<1>4. \A b \in Blocks : Referring(b) = {} /\ Taking(b) = {} /\ Preparing(b) = {} /\ Linking(b) = {}
  BY <1>1 DEF Referring, Taking, Preparing, Linking, Idle
<1>5. BlockInv
  <2> SUFFICES ASSUME NEW b \in Blocks PROVE BlockOK(b)
    BY DEF BlockInv
  <2>1. ~Counted(b) /\ ~Marked(b)
    BY <1>3, <1>4 DEF Counted, Marked
  <2>2. PlaceInv(b)
    BY <1>1, <1>3, <1>4 DEF PlaceInv, Owns
  <2>3. MarkInv(b)
    BY <1>4, <2>1 DEF MarkInv
  <2>4. CountInv(b)
    BY <1>1, <1>4, <2>1, FS_EmptySet DEF CountInv
  <2> QED
    BY <2>2, <2>3, <2>4 DEF BlockOK
<1>6. ListInv
  BY <1>3 DEF ListInv
<1>7. LocalInv
  BY <1>1 DEF LocalInv, LocalOK, Idle
<1>8. PoolInv
  <2>1. AtPool = {}
    BY <1>1 DEF AtPool, At, Idle
  <2>2. Cardinality(AtPool) = 0
    BY <2>1, FS_EmptySet
  <2> QED
    BY <1>1, <2>2, Constants DEF PoolInv
<1> QED
  BY <1>2, <1>5, <1>6, <1>7, <1>8 DEF IInv, ListsInv

LEMMA Invariant == ASSUME FreeListAssumption PROVE Spec => []IInv
<1>1. Init => IInv
  BY InvInit
<1>2. IInv /\ [Next]_vars => IInv'
  BY TypedStep, ListsStep DEF IInv
<1> QED
  BY <1>1, <1>2, PTL DEF Spec

------------------------------------------------------------------------------
(* What the invariant says                                                  *)

LEMMA TypesFollow ==
  ASSUME FreeListAssumption, IInv
  PROVE  TypeOK
<1>1. Typed /\ BlockInv /\ PoolInv
  BY DEF IInv, ListsInv
<1>2. initialBlockPoolIndex \in 0 .. PoolSize + Cardinality(Threads)
  <2>1. Cardinality(AtPool) \in Nat
    BY NoneOrSome DEF AtPool
  <2> QED
    BY <1>1, <2>1, Constants DEF Typed, PoolInv
<1>3. \A b \in Blocks : freeListRefs[b] \in 0 .. 2 * SHOULD_BE_ON_FREELIST - 1
  BY <1>1, RefsSay DEF BlockInv, BlockOK, M
<1>4. freeListRefs \in [Blocks -> 0 .. 2 * SHOULD_BE_ON_FREELIST - 1]
  BY <1>1, <1>3 DEF Typed
<1> QED
  BY <1>1, <1>2, <1>4 DEF Typed, TypeOK

\* A set of threads that has nobody, or nobody but one.
LEMMA NobodyOrOne ==
  ASSUME FreeListAssumption, NEW t, NEW S, S \subseteq {t}
  PROVE  IF t \in S THEN Cardinality(S) = 1 ELSE Cardinality(S) = 0
<1>1. CASE t \in S
  <2>1. S = {t}
    BY <1>1
  <2> QED
    BY <1>1, <2>1, FS_Singleton
<1>2. CASE t \notin S
  <2>1. S = {}
    BY <1>2
  <2> QED
    BY <1>2, <2>1, FS_EmptySet
<1> QED
  BY <1>1, <1>2

LEMMA PlaceIsOne ==
  ASSUME FreeListAssumption, IInv
  PROVE  OnePlace
<1> SUFFICES ASSUME NEW b \in Blocks
             PROVE  Cardinality({t \in Threads : b \in held[t]})
                      + (IF b \in OnList THEN 1 ELSE 0) + Cardinality(Taking(b))
                      + Cardinality(Preparing(b)) + Cardinality(Linking(b)) <= 1
  BY DEF OnePlace
<1> DEFINE H == {t \in Threads : b \in held[t]}
<1>1. PlaceInv(b)
  BY DEF IInv, ListsInv, BlockInv, BlockOK
<1>2. /\ H \subseteq Threads /\ Taking(b) \subseteq Threads
      /\ Preparing(b) \subseteq Threads /\ Linking(b) \subseteq Threads
  BY DEF Taking, Preparing, Linking
<1>3. CASE \A t \in Threads : ~Owns(t, b)
  <2>1. H = {} /\ Taking(b) = {} /\ Preparing(b) = {} /\ Linking(b) = {}
    BY <1>2, <1>3 DEF Owns
  <2>2. /\ Cardinality(H) = 0 /\ Cardinality(Taking(b)) = 0
        /\ Cardinality(Preparing(b)) = 0 /\ Cardinality(Linking(b)) = 0
    BY <2>1, FS_EmptySet
  <2> QED
    BY <2>2
<1>4. CASE \E t \in Threads : Owns(t, b)
  <2> PICK t \in Threads : Owns(t, b)
    BY <1>4
  <2>1. /\ H \subseteq {t} /\ Taking(b) \subseteq {t}
        /\ Preparing(b) \subseteq {t} /\ Linking(b) \subseteq {t}
    BY <1>1, <1>2 DEF PlaceInv, Owns
  <2>2. b \notin OnList
    BY <1>1 DEF PlaceInv
  <2>3. /\ t \in H => t \notin Taking(b) \cup Preparing(b) \cup Linking(b)
        /\ t \in Taking(b) => t \notin Preparing(b) \cup Linking(b)
        /\ t \in Preparing(b) => t \notin Linking(b)
    BY <1>1 DEF PlaceInv, Taking, Preparing, Linking
  <2> HIDE DEF H
  <2>4. /\ IF t \in H THEN Cardinality(H) = 1 ELSE Cardinality(H) = 0
        /\ IF t \in Taking(b) THEN Cardinality(Taking(b)) = 1 ELSE Cardinality(Taking(b)) = 0
        /\ IF t \in Preparing(b) THEN Cardinality(Preparing(b)) = 1
           ELSE Cardinality(Preparing(b)) = 0
        /\ IF t \in Linking(b) THEN Cardinality(Linking(b)) = 1
           ELSE Cardinality(Linking(b)) = 0
    BY <2>1, NobodyOrOne
  <2>5. Cardinality(H) + 0 + Cardinality(Taking(b)) + Cardinality(Preparing(b))
          + Cardinality(Linking(b)) <= 1
    BY <2>3, <2>4
  <2> QED
    BY <2>2, <2>5 DEF H
<1> QED
  BY <1>3, <1>4

LEMMA InvariantSays ==
  ASSUME FreeListAssumption, IInv
  PROVE  FreeListInv
<1>1. Typed /\ BlockInv /\ LocalInv
  BY DEF IInv, ListsInv
<1>2. RefsAreCounted
  BY <1>1, RefsSay DEF RefsAreCounted, BlockInv, BlockOK, Counted, M
<1>3. NextIsStable
  BY <1>1 DEF NextIsStable, LocalInv, LocalOK, At
<1>4. TakenIsUnmarked
  <2> SUFFICES ASSUME NEW t \in Threads, At(t, "take")
               PROVE  freeListRefs[th[t].head] < SHOULD_BE_ON_FREELIST
    BY DEF TakenIsUnmarked
  <2> PICK b \in Blocks : b = th[t].head
    BY <1>1 DEF LocalInv, LocalOK, At
  <2>1. CountInv(b)
    BY <1>1 DEF BlockInv, BlockOK
  <2>2. t \in Taking(b)
    BY DEF Taking, At
  <2>3. ~Marked(b)
    BY <2>2 DEF Marked, Counted
  <2>4. freeListRefs[b] \in 0 .. 2 * M - 1 /\ ~(freeListRefs[b] >= M)
    BY <2>1, <2>3, RefsSay
  <2> QED
    BY <2>4, Constants DEF M
<1>5. NoneIsLost
  <2> SUFFICES ASSUME \A t \in Threads : At(t, "idle"),
                      NEW b \in ((1 .. PoolSize) \cap (1 .. initialBlockPoolIndex))
                                  \cup created
               PROVE  b \in OnList \/ \E t \in Threads : b \in held[t]
    BY DEF NoneIsLost
  <2>1. b \in Born /\ b \in Blocks
    BY <1>1, Constants DEF Typed, Born, Blocks
  <2>2. Referring(b) = {} /\ Taking(b) = {} /\ Preparing(b) = {} /\ Linking(b) = {}
    BY DEF Referring, Taking, Preparing, Linking, At
  <2>3. ~Marked(b)
    BY <1>1, <2>1, <2>2 DEF BlockInv, BlockOK, MarkInv
  <2> QED
    BY <2>1, <2>2, <2>3 DEF Marked, Counted
<1> QED
  BY TypesFollow, PlaceIsOne, <1>2, <1>3, <1>4, <1>5 DEF FreeListInv

\* The free list is right (concurrentqueue.h:1438-1517): for any number of threads below
\* SHOULD_BE_ON_FREELIST - 2 and any number of blocks, every block has one place, the counts
\* count what they stand for, the compare-and-swap of try_get meets no ABA, its assertion
\* holds, and no block is lost between the threads that leave its adding to each other.
THEOREM FreeListIsRight == ASSUME FreeListAssumption PROVE Spec => []FreeListInv
<1>1. IInv => FreeListInv
  BY InvariantSays
<1> QED
  BY <1>1, Invariant, PTL

------------------------------------------------------------------------------
(* The refinement                                                           *)

\* A block that has never been given out, or that is on its way from the list, is nobody's.
LEMMA IsNobodys ==
  ASSUME IInv, NEW b \in Blocks, b \notin Born \/ Taking(b) # {}
  PROVE  \A u \in Threads : b \notin held[u]
<1>1. PlaceInv(b)
  BY DEF IInv, ListsInv, BlockInv, BlockOK
<1> QED
  BY <1>1 DEF PlaceInv, Owns, Taking

\* Every step takes a block that is nobody's, gives one back, or leaves what is held.
LEMMA StepMaps ==
  ASSUME FreeListAssumption, IInv, [Next]_vars
  PROVE  [Pool!Next]_held
<1>0. Typed /\ LocalInv /\ PoolInv
  BY DEF IInv, ListsInv
<1>1. CASE UNCHANGED vars
  BY <1>1 DEF vars
<1>2. ASSUME NEW t \in Threads, Requisition(t) \/ (\E b \in Blocks : Add(t, b)) \/ InCall(t)
      PROVE  [Pool!Next]_held
  <2>1. ASSUME NEW b \in Blocks, Give(t, b), b \notin Born \/ Taking(b) # {}
        PROVE  Pool!Next
    <3>1. Pool!Requisition(t, b)
      BY <2>1, IsNobodys DEF Give, Pool!Requisition
    <3> QED
      BY <3>1 DEF Pool!Next
  <2>2. CASE \E b \in Blocks : Add(t, b)
    BY <2>2 DEF Add, Pool!Next, Pool!GiveBack
  <2>3. CASE TakeFromPool(t)
    <3>1. CASE initialBlockPoolIndex < PoolSize
      <4> PICK b \in Blocks : b = initialBlockPoolIndex + 1
        BY <1>0, <3>1, Constants DEF Typed, Blocks
      <4>1. Give(t, b)
        BY <2>3, <3>1 DEF TakeFromPool
      <4>2. b \notin Born
        BY <1>0, <3>1, Constants DEF Typed, PoolInv, Born
      <4> QED
        BY <2>1, <4>1, <4>2
    <3> QED
      BY <2>3, <3>1 DEF TakeFromPool
  <2>4. CASE Create(t)
    <3>1. ASSUME NEW b \in PoolSize + 1 .. MaxBlocks, b \notin created, Give(t, b)
          PROVE  Pool!Next
      <4>1. b \in Blocks /\ b \notin Born
        BY <3>1, Constants DEF Blocks, Born
      <4> QED
        BY <2>1, <3>1, <4>1
    <3> QED
      BY <2>4, <3>1 DEF Create
  <2>5. CASE Take(t)
    <3> PICK b \in Blocks : b = th[t].head
      BY <1>0, <2>5 DEF Take, LocalInv, LocalOK, At
    <3>1. Give(t, b) /\ t \in Taking(b)
      BY <2>5 DEF Take, Taking, At
    <3> QED
      BY <2>1, <3>1
  <2>6. CASE \/ Requisition(t) \/ LoadHead(t) \/ GetNothing(t) \/ LoadRefs(t) \/ Acquire(t)
             \/ LoadNext(t) \/ Unlink(t) \/ Release(t) \/ LoadSeen(t) \/ SetNext(t)
             \/ SetRefs(t) \/ Link(t) \/ Relink(t)
    BY <2>6 DEF Requisition, LoadHead, GetNothing, LoadRefs, Acquire, LoadNext, Unlink, Release,
                LoadSeen, SetNext, SetRefs, Link, Relink, shared
  <2> QED
    BY <1>2, <2>2, <2>3, <2>4, <2>5, <2>6 DEF InCall
<1> QED
  BY <1>1, <1>2 DEF Next

\* The free list implements the pool (concurrentqueue.h:3072-3092): a block that is given
\* out is nobody else's until it is given back.
THEOREM FreeListImplementsPool == ASSUME FreeListAssumption PROVE Spec => FreeListIsPool
<1>1. Init => Pool!Init
  BY DEF Init, Pool!Init
<1>2. IInv /\ [Next]_vars => [Pool!Next]_held
  BY StepMaps
<1> QED
  BY <1>1, <1>2, Invariant, PTL DEF Spec, FreeListIsPool, Pool!Spec
==============================================================================
