------------------------ MODULE JobSystemManagerProofs ------------------------
(***************************************************************************)
(* Theorems about the manager, for both kinds of client, and about the test  *)
(* program.                                                                *)
(***************************************************************************)
EXTENDS MCJobSystemManager, TestProgram, FiniteSetTheorems, SequenceTheorems, TLAPS

------------------------------------------------------------------------------
(* The inductive invariant, whatever the client does                        *)

Listed(s) == ToSet(threads[s])

Frames ==
  [at : Places, target : Systems, todo : Seq(Threads \cup {NoThread}),
   then : {"idle", "up", "register", "remove"}, local : Systems,
   ret : {"idle", "nextSlot", "delete"}, job : Jobs \cup {NoJob},
   slot : Nat \ {0}, end : Nat, rest : Seq(Systems), blocking : BOOLEAN]

CallType == call \in Frames

\* What the place of a call says about its locals.
AddingOK ==
  At("setData") =>
    /\ ToSet(call.todo) \subseteq Listed(call.target)
    /\ call.then = "up" => call.target = Main /\ phase = "spawning"
    /\ call.then = "register" =>
         /\ call.local \in Locals /\ call.target = call.local
         /\ life[call.local] = "alive" /\ ~ Registered(call.local)
    /\ call.then = "remove" =>
         /\ call.local \in Locals /\ call.target = Main
         /\ Listed(call.local) \subseteq Listed(Main)

SpawningOK ==
  /\ At("spawn") \/ At("storeId") =>
       /\ phase = "spawning" /\ call.end \in Threads /\ call.slot <= call.end
       /\ \A t \in Threads :
            handle[t] # "none" => t < call.slot \/ (t = call.slot /\ At("storeId"))
  /\ phase = "spawning" => \/ At("spawn") \/ At("storeId")
                           \/ At("setData") /\ call.then = "up"
  /\ phase = "null" => \A t \in Threads : handle[t] = "none"
  /\ At("storeId") => handle[call.slot] # "none"
  /\ \A t \in Threads : hasId[t] => handle[t] # "none"

CallInv ==
  /\ CallType
  /\ call.then # "idle" => At("setData")
  /\ At("cancel") \/ At("unlock") \/ At("erase") => call.local \in Locals
  /\ AddingOK
  /\ SpawningOK

\* Systems that do not exist yet have nothing, and those in use exist.
LifeInv ==
  /\ \A s \in Locals :
       /\ life[s] = "none" => threads[s] = << >> /\ numThreads[s] = 0
       /\ s \in held \/ Registered(s) => life[s] = "alive"
  /\ IsInjective(jobSystems)

\* The threads have been spawned and handed to the main system.
Running == phase = "up" \/ call.then = "up"

ListInv(s) ==
  /\ IsInjective(threads[s])
  /\ \A t \in Listed(s) : \/ userdata[t] = s
                          \/ At("setData") /\ s = call.target /\ t \in ToSet(call.todo)
                          \/ call.then = "remove" /\ s = call.local
  /\ s = Main \/ Registered(s) => \/ numThreads[s] = Len(threads[s])
                                  \/ At("setData") /\ s = call.target
                                  \/ /\ At("cancel") \/ At("unlock") \/ At("erase")
                                     /\ s = call.local
  /\ Running \/ phase = "deleted" \/ (threads[s] = << >> /\ numThreads[s] = 0)

ListsInv ==
  /\ \A s \in Systems : ListInv(s)
  /\ \A s, r \in Systems : \A t \in Listed(s) \cap Listed(r) :
       s = r \/ (call.then = "remove" /\ {s, r} = {Main, call.local})
  /\ Running => /\ threads[Main] # << >>
                /\ \A t \in Threads : handle[t] # "none" => \E s \in Systems : t \in Listed(s)

HandsInv ==
  \A t \in Threads :
    /\ pc[t] \in {"children", "unlock", "call", "running"} => job[t] \in Jobs
    /\ idx[t] >= 1

ManagerInv == TypeOK /\ CallInv /\ LifeInv /\ ListsInv /\ HandsInv

------------------------------------------------------------------------------
(* Sequences                                                                *)

LEMMA ElementAt ==
  ASSUME NEW A, NEW q \in Seq(A)
  PROVE  \A i \in 1 .. Len(q) : q[i] \in ToSet(q)
BY DEF ToSet

LEMMA IndexOf ==
  ASSUME NEW A, NEW q \in Seq(A)
  PROVE  \A x \in ToSet(q) : x \in A /\ \E i \in 1 .. Len(q) : q[i] = x
BY DEF ToSet

LEMMA EmptyIf ==
  ASSUME NEW A, NEW q \in Seq(A)
  PROVE  q = << >> <=> ToSet(q) = {}
<1>1. q = << >> => ToSet(q) = {}
  BY DEF ToSet
<1>2. ASSUME ToSet(q) = {} PROVE q = << >>
  <2>1. ~ (1 \in DOMAIN q)
    BY <1>2 DEF ToSet
  <2>2. Len(q) = 0
    BY <2>1
  <2> QED
    BY <2>2, EmptySeq
<1> QED
  BY <1>1, <1>2

LEMMA Injective ==
  ASSUME NEW A, NEW q \in Seq(A)
  PROVE  IsInjective(q) <=> \A i, k \in 1 .. Len(q) : q[i] = q[k] => i = k
BY DEF IsInjective

LEMMA Concatenation ==
  ASSUME NEW A, NEW p \in Seq(A), NEW q \in Seq(A)
  PROVE  /\ p \o q \in Seq(A) /\ Len(p \o q) = Len(p) + Len(q)
         /\ ToSet(p \o q) = ToSet(p) \cup ToSet(q)
         /\ IsInjective(p) /\ IsInjective(q) /\ ToSet(p) \cap ToSet(q) = {}
              => IsInjective(p \o q)
<1>1. p \o q \in Seq(A) /\ Len(p \o q) = Len(p) + Len(q)
  BY ConcatProperties
<1>2. ToSet(p \o q) = ToSet(p) \cup ToSet(q)
  <2>1. Range(p \o q) = Range(p) \cup Range(q)
    BY RangeConcatenation, Zenon
  <2> QED
    BY <2>1, Zenon DEF ToSet, Range
<1>3. SUFFICES ASSUME IsInjective(p), IsInjective(q), ToSet(p) \cap ToSet(q) = {},
                      NEW i \in 1 .. Len(p \o q), NEW k \in 1 .. Len(p \o q),
                      (p \o q)[i] = (p \o q)[k], i < k
               PROVE  FALSE
  <2>1. \A m, n \in 1 .. Len(p \o q) : m < n \/ n < m \/ m = n
    OBVIOUS
  <2> QED
    BY <1>1, <1>2, <2>1 DEF IsInjective
<1>4. Len(p) \in Nat /\ Len(q) \in Nat /\ i \in 1 .. Len(p) + Len(q) /\ k \in 1 .. Len(p) + Len(q)
  BY <1>1
<1> DEFINE at(n) == IF n <= Len(p) THEN p[n] ELSE q[n - Len(p)]
<1>5. at(i) = at(k)
  <2>1. \A n \in 1 .. Len(p) + Len(q) : (p \o q)[n] = at(n)
    BY ConcatProperties, Zenon
  <2> QED
    BY <1>3, <1>4, <2>1, Zenon
<1>6. CASE k <= Len(p)
  <2>1. p[i] = p[k] /\ i \in 1 .. Len(p) /\ k \in 1 .. Len(p)
    BY <1>3, <1>4, <1>5, <1>6
  <2> QED
    BY <1>3, <1>4, <2>1, Injective
<1>7. CASE i > Len(p)
  <2>1. /\ q[i - Len(p)] = q[k - Len(p)] /\ i - Len(p) # k - Len(p)
        /\ i - Len(p) \in 1 .. Len(q) /\ k - Len(p) \in 1 .. Len(q)
    BY <1>3, <1>4, <1>5, <1>7
  <2> QED
    BY <1>3, <2>1, Injective
<1>8. CASE i <= Len(p) /\ k > Len(p)
  <2>1. p[i] = q[k - Len(p)] /\ i \in 1 .. Len(p) /\ k - Len(p) \in 1 .. Len(q)
    BY <1>3, <1>4, <1>5, <1>8
  <2>2. p[i] \in ToSet(p) /\ q[k - Len(p)] \in ToSet(q)
    BY <2>1, ElementAt
  <2> QED
    BY <1>3, <2>1, <2>2
<1> QED
  BY <1>4, <1>6, <1>7, <1>8

\* A list of different elements is cut in two.
Halves(A, q, first, rest) ==
  /\ first \in Seq(A) /\ rest \in Seq(A)
  /\ IsInjective(first) /\ IsInjective(rest)
  /\ ToSet(first) \cup ToSet(rest) = ToSet(q)
  /\ ToSet(first) \cap ToSet(rest) = {}
  /\ Len(first) + Len(rest) = Len(q)

LEMMA Splitting ==
  ASSUME NEW A, NEW q \in Seq(A), NEW n \in 0 .. Len(q), IsInjective(q),
         NEW first, first = SubSeq(q, 1, n), NEW rest, rest = SubSeq(q, n + 1, Len(q))
  PROVE  Halves(A, q, first, rest) /\ Len(first) = n
<1>1. Len(q) \in Nat /\ n \in Nat /\ n <= Len(q)
  OBVIOUS
<1>2. /\ first \in Seq(A) /\ Len(first) = n
      /\ rest \in Seq(A) /\ Len(rest) = Len(q) - n
  OBVIOUS
<1>3. /\ \A i \in 1 .. n : first[i] = q[i] /\ i \in 1 .. Len(q)
      /\ \A i \in 1 .. Len(q) - n : rest[i] = q[n + i] /\ n + i \in 1 .. Len(q)
  OBVIOUS
<1>4. q = first \o rest
  <2>1. first \o rest = SubSeq(q, 1, Len(q))
    <3>1. /\ 1 \in 1 .. Len(q) + 1 /\ n \in 1 - 1 .. Len(q) /\ Len(q) \in n .. Len(q)
      BY <1>1
    <3>2. SubSeq(q, 1, n) \o SubSeq(q, n + 1, Len(q)) = SubSeq(q, 1, Len(q))
      BY <3>1, ConcatAdjacentSubSeq, Zenon
    <3> QED
      BY <3>2, Zenon
  <2>2. SubSeq(q, 1, Len(q)) = q
    BY SubSeqFull, Zenon
  <2> QED
    BY <2>1, <2>2, Zenon
<1>5. ToSet(first) \cup ToSet(rest) = ToSet(q)
  <2>0. \A u, w \in Seq(A) : ToSet(u \o w) = ToSet(u) \cup ToSet(w)
    BY Concatenation, ZenonT(60)
  <2>1. ToSet(first \o rest) = ToSet(first) \cup ToSet(rest)
    BY <1>2, <2>0, Zenon
  <2> QED
    BY <1>4, <2>1, Zenon
<1>6. \A i, k \in 1 .. Len(q) : q[i] = q[k] => i = k
  BY Injective
<1>7. IsInjective(first)
  <2> SUFFICES ASSUME NEW i \in 1 .. n, NEW k \in 1 .. n, first[i] = first[k] PROVE i = k
    BY <1>2, Injective
  <2> QED
    BY <1>3, <1>6
<1>8. IsInjective(rest)
  <2> SUFFICES ASSUME NEW i \in 1 .. Len(q) - n, NEW k \in 1 .. Len(q) - n, rest[i] = rest[k]
               PROVE  i = k
    BY <1>2, Injective
  <2>1. q[n + i] = q[n + k] /\ n + i \in 1 .. Len(q) /\ n + k \in 1 .. Len(q)
    BY <1>3
  <2>2. n + i = n + k
    BY <1>6, <2>1
  <2> QED
    BY <1>1, <2>2
<1>9. ToSet(first) \cap ToSet(rest) = {}
  <2>0. \A p \in Seq(A) : \A y \in ToSet(p) : \E i \in 1 .. Len(p) : p[i] = y
    <3> SUFFICES ASSUME NEW p \in Seq(A), NEW y \in ToSet(p) PROVE \E i \in 1 .. Len(p) : p[i] = y
      BY Zenon
    <3> QED
      BY ONLY p \in Seq(A), y \in ToSet(p), IndexOf
  <2> SUFFICES ASSUME NEW x \in ToSet(first), x \in ToSet(rest) PROVE FALSE
    OBVIOUS
  <2>1. PICK m \in 1 .. n : first[m] = x
    <3>1. \E i \in 1 .. Len(first) : first[i] = x
      BY ONLY <1>2, <2>0, x \in ToSet(first), Zenon
    <3> QED
      BY <1>2, <3>1, Zenon
  <2>2. PICK k \in 1 .. Len(q) - n : rest[k] = x
    <3>1. \E i \in 1 .. Len(rest) : rest[i] = x
      BY ONLY <1>2, <2>0, x \in ToSet(rest), Zenon
    <3> QED
      BY <1>2, <3>1, Zenon
  <2>3. q[m] = q[n + k] /\ m \in 1 .. Len(q) /\ n + k \in 1 .. Len(q)
    BY <1>3, <2>1, <2>2
  <2>4. m = n + k
    BY <1>6, <2>3
  <2> QED
    BY <1>1, <2>4
<1>10. Len(first) + Len(rest) = Len(q)
  <2>1. \A k, m, j \in Nat : m <= k /\ j = k - m => m + j = k
    OBVIOUS
  <2>2. Len(q) - n \in Nat
    BY <1>1
  <2> QED
    BY ONLY <1>1, <1>2, <2>1, <2>2, ZenonT(60)
<1> QED
  BY <1>2, <1>5, <1>7, <1>8, <1>9, <1>10, Zenon DEF Halves

LEMMA Singleton ==
  ASSUME NEW A, NEW x \in A
  PROVE  <<x>> \in Seq(A) /\ ToSet(<<x>>) = {x} /\ IsInjective(<<x>>)
BY DEF ToSet, IsInjective

LEMMA HeadAndTail ==
  ASSUME NEW A, NEW q \in Seq(A), q # << >>
  PROVE  /\ Head(q) \in A /\ Tail(q) \in Seq(A)
         /\ ToSet(q) = {Head(q)} \cup ToSet(Tail(q))
<1>1. Head(q) \in A /\ Tail(q) \in Seq(A)
  BY HeadTailProperties
<1>2. q = <<Head(q)>> \o Tail(q)
  OBVIOUS
<1>3. <<Head(q)>> \in Seq(A) /\ ToSet(<<Head(q)>>) = {Head(q)}
  BY <1>1, Singleton
<1>4. \A u, w \in Seq(A) : ToSet(u \o w) = ToSet(u) \cup ToSet(w)
  BY Concatenation, ZenonT(60)
<1>5. ToSet(<<Head(q)>> \o Tail(q)) = ToSet(<<Head(q)>>) \cup ToSet(Tail(q))
  BY <1>1, <1>3, <1>4, Zenon
<1> QED
  BY <1>1, <1>2, <1>3, <1>5, Zenon

LEMMA Appending ==
  ASSUME NEW A, NEW q \in Seq(A), NEW x \in A
  PROVE  /\ Append(q, x) \in Seq(A)
         /\ ToSet(Append(q, x)) = ToSet(q) \cup {x}
         /\ IsInjective(q) /\ x \notin ToSet(q) => IsInjective(Append(q, x))
<1>1. Append(q, x) = q \o <<x>>
  BY AppendIsConcat
<1>2. <<x>> \in Seq(A) /\ ToSet(<<x>>) = {x} /\ IsInjective(<<x>>)
  BY Singleton
<1>3. \A u, w \in Seq(A) :
        /\ u \o w \in Seq(A)
        /\ ToSet(u \o w) = ToSet(u) \cup ToSet(w)
        /\ IsInjective(u) /\ IsInjective(w) /\ ToSet(u) \cap ToSet(w) = {} => IsInjective(u \o w)
  BY Concatenation, ZenonT(60)
<1>4. /\ q \o <<x>> \in Seq(A)
      /\ ToSet(q \o <<x>>) = ToSet(q) \cup ToSet(<<x>>)
      /\ IsInjective(q) /\ IsInjective(<<x>>) /\ ToSet(q) \cap ToSet(<<x>>) = {}
           => IsInjective(q \o <<x>>)
  BY <1>2, <1>3, Zenon
<1>5. x \notin ToSet(q) => ToSet(q) \cap ToSet(<<x>>) = {}
  BY <1>2
<1>6. /\ Append(q, x) \in Seq(A)
      /\ ToSet(Append(q, x)) = ToSet(q) \cup ToSet(<<x>>)
      /\ IsInjective(q) /\ IsInjective(<<x>>) /\ ToSet(q) \cap ToSet(<<x>>) = {}
           => IsInjective(Append(q, x))
  BY <1>1, <1>4, Zenon
<1> QED
  BY <1>2, <1>5, <1>6, Zenon

\* Removing an element that is there once.
LEMMA Removing ==
  ASSUME NEW A, NEW q \in Seq(A), IsInjective(q), NEW x \in ToSet(q)
  PROVE  /\ RemoveFirst(q, x) \in Seq(A)
         /\ ToSet(RemoveFirst(q, x)) = ToSet(q) \ {x}
         /\ IsInjective(RemoveFirst(q, x))
<1>1. PICK i \in 1 .. Len(q) : q[i] = x
  BY IndexOf
<1>2. Len(q) \in Nat /\ i \in 1 .. Len(q) /\ i - 1 \in 0 .. Len(q) /\ i \in 0 .. Len(q)
      /\ i - 1 + 1 = i
  OBVIOUS
<1>3. RemoveFirst(q, x) = SubSeq(q, 1, i - 1) \o SubSeq(q, i + 1, Len(q))
  <2>1. {k \in 1 .. Len(q) : q[k] = x} = {i}
    <3>1. \A k \in 1 .. Len(q) : q[k] = x => k = i
      BY <1>1, Injective
    <3> QED
      BY <1>1, <3>1
  <2>2. Min({i}) = i
    BY DEF Min
  <2>3. SelectInSeq(q, LAMBDA v : v = x) = i
    BY <2>1, <2>2 DEF SelectInSeq
  <2> QED
    BY <1>1, <2>3 DEF RemoveFirst, RemoveAt
<1>4. PICK before : before = SubSeq(q, 1, i - 1)
  OBVIOUS
<1>5. PICK from : from = SubSeq(q, i, Len(q))
  OBVIOUS
<1>6. PICK upTo : upTo = SubSeq(q, 1, i)
  OBVIOUS
<1>7. PICK after : after = SubSeq(q, i + 1, Len(q))
  OBVIOUS
<1>15. \A n \in 0 .. Len(q) : \A u, w :
         u = SubSeq(q, 1, n) /\ w = SubSeq(q, n + 1, Len(q)) => Halves(A, q, u, w)
  BY Splitting, Zenon
<1>16. Halves(A, q, before, from)
  <2>1. from = SubSeq(q, i - 1 + 1, Len(q))
    BY <1>2, <1>5, Zenon
  <2> QED
    BY <1>2, <1>4, <2>1, <1>15, Zenon
<1>17. Halves(A, q, upTo, after)
  BY <1>2, <1>6, <1>7, <1>15, Zenon
<1>8. /\ before \in Seq(A) /\ from \in Seq(A) /\ IsInjective(before)
      /\ ToSet(before) \cup ToSet(from) = ToSet(q) /\ ToSet(before) \cap ToSet(from) = {}
  BY <1>16 DEF Halves
<1>9. /\ upTo \in Seq(A) /\ after \in Seq(A) /\ IsInjective(after)
      /\ ToSet(upTo) \cup ToSet(after) = ToSet(q) /\ ToSet(upTo) \cap ToSet(after) = {}
  BY <1>17 DEF Halves
<1>10. from = <<x>> \o after
  BY <1>1, <1>2, <1>5, <1>7, SubSeqRecursiveFirst
<1>11. x \in A /\ <<x>> \in Seq(A) /\ ToSet(<<x>>) = {x}
  BY IndexOf, Singleton
<1>12. ToSet(from) = {x} \cup ToSet(after)
  <2>1. \A u, w \in Seq(A) : ToSet(u \o w) = ToSet(u) \cup ToSet(w)
    BY Concatenation, ZenonT(60)
  <2>2. ToSet(<<x>> \o after) = ToSet(<<x>>) \cup ToSet(after)
    BY <1>9, <1>11, <2>1, Zenon
  <2> QED
    BY <1>10, <1>11, <2>2, Zenon
<1>13. x \in ToSet(upTo)
  <2>1. Len(upTo) = i /\ upTo[i] = x /\ i \in 1 .. Len(upTo)
    BY <1>1, <1>2, <1>6
  <2> QED
    BY <1>9, <2>1, ElementAt
<1>14. /\ ToSet(before) \cup ToSet(after) = ToSet(q) \ {x}
       /\ ToSet(before) \cap ToSet(after) = {}
  BY <1>8, <1>9, <1>12, <1>13
<1> QED
  <2>1. RemoveFirst(q, x) = before \o after
    BY <1>3, <1>4, <1>7, Zenon
  <2>2. /\ before \o after \in Seq(A)
        /\ ToSet(before \o after) = ToSet(before) \cup ToSet(after)
        /\ IsInjective(before \o after)
    <3>1. \A u, w \in Seq(A) :
            /\ u \o w \in Seq(A)
            /\ ToSet(u \o w) = ToSet(u) \cup ToSet(w)
            /\ IsInjective(u) /\ IsInjective(w) /\ ToSet(u) \cap ToSet(w) = {}
                 => IsInjective(u \o w)
      BY Concatenation, ZenonT(60)
    <3> QED
      BY <1>8, <1>9, <1>14, <3>1, Zenon
  <2> QED
    BY <1>14, <2>1, <2>2, Zenon

\* A list of different threads is no longer than there are threads.
LEMMA NoLongerThanThreads ==
  ASSUME NEW q \in Seq(Threads), IsInjective(q)
  PROVE  Len(q) \in 0 .. Hardware
<1>1. Hardware \in Nat /\ Len(q) \in Nat
  BY ManagerAssumption
<1>2. q \in Injection(1 .. Len(q), Threads)
  <2>1. \A i, k \in 1 .. Len(q) : q[i] = q[k] => i = k
    BY Injective
  <2>2. q \in [1 .. Len(q) -> Threads]
    OBVIOUS
  <2> QED
    BY <2>1, <2>2 DEF Injection
<1>3. IsFiniteSet(1 .. Hardware) /\ Cardinality(1 .. Hardware) = Hardware
  BY <1>1, FS_Interval, SMTT(40)
<1>4. Cardinality(1 .. Len(q)) = Len(q)
  BY <1>1, FS_Interval, SMTT(40)
<1>5. Cardinality(1 .. Len(q)) <= Cardinality(1 .. Hardware)
  BY <1>2, <1>3, FS_Injection DEF Threads
<1> QED
  BY <1>1, <1>3, <1>4, <1>5

------------------------------------------------------------------------------
(* Steps of workers                                                         *)

\* Workers touch nothing that belongs to the main thread.
LEMMA WorkerKeeps ==
  ASSUME NEW t \in Threads, WorkerStep(t)
  PROVE  UNCHANGED <<phase, returned, handle, hasId, userdata, systemVars, shuttingDown, call>>
<1> USE DEF Quiet, Fault, threadVars
<1>1. CASE Start(t)
  BY <1>1 DEF Start
<1>2. CASE SetAffinity(t) \/ LoopTest(t) \/ GetSystem(t) \/ UseAfterFree(t)
  BY <1>2 DEF SetAffinity, LoopTest, GetSystem, UseAfterFree
<1>3. CASE SendChild(t) \/ Finish(t) \/ ReleaseLock(t)
  BY <1>3 DEF SendChild, Finish, ReleaseLock
<1>4. CASE \E j \in Jobs : TakeJob(t, j)
  BY <1>4 DEF TakeJob
<1>5. CASE FindNothing(t) \/ Call(t) \/ FunctionReturns(t)
  BY <1>5 DEF FindNothing, Call, FunctionReturns
<1> QED
  BY <1>1, <1>2, <1>3, <1>4, <1>5 DEF WorkerStep

WorkerPlaces == {"none", "start", "affinity", "loop", "getSystem", "children", "unlock",
                 "dequeue", "call", "running", "exited"}

\* What workers write.
WorkerTypes ==
  /\ affinity \in [Threads -> BOOLEAN]
  /\ queue \in [Systems -> SUBSET Jobs] /\ sent \subseteq Jobs
  /\ jobState \in [Jobs -> {"Queued", "Running", "Waiting", "Finished", "Canceled"}]
  /\ locked \in [Jobs -> BOOLEAN]
  /\ pc \in [Threads -> WorkerPlaces]
  /\ sys \in [Threads -> Systems \cup {NoSystem}]
  /\ job \in [Threads -> Jobs \cup {NoJob}] /\ idx \in [Threads -> Nat]
  /\ fault \in Faults

LEMMA WorkerTyped ==
  ASSUME TypeOK, HandsInv, NEW t \in Threads, WorkerStep(t)
  PROVE  WorkerTypes' /\ HandsInv'
<1>1. /\ WorkerTypes /\ userdata \in [Threads -> Systems \cup {NoSystem}]
      /\ hasId \in [Threads -> BOOLEAN] /\ ThreadAffinity \in BOOLEAN /\ shuttingDown \in BOOLEAN
      /\ ChildrenOf \in [Jobs -> Seq(Jobs)]
  BY ManagerAssumption DEF TypeOK, WorkerTypes, WorkerPlaces
<1>2. /\ pc[t] \in {"children", "unlock", "call", "running"} => job[t] \in Jobs
      /\ idx[t] >= 1 /\ idx[t] \in Nat
  BY <1>1 DEF HandsInv, WorkerTypes
<1> USE DEF Goto, Quiet, Fault, threadVars, jobVars, workerVars, WorkerPlaces, Faults
<1>3. CASE Start(t)
  BY <1>1, <1>3 DEF Start, WorkerTypes, HandsInv
<1>4. CASE SetAffinity(t)
  BY <1>1, <1>4 DEF SetAffinity, HasSpawned, WorkerTypes, HandsInv
<1>5. CASE LoopTest(t)
  BY <1>1, <1>5 DEF LoopTest, WorkerTypes, HandsInv
<1>6. CASE GetSystem(t)
  BY <1>1, <1>6 DEF GetSystem, GetUserdata, WorkerTypes, HandsInv
<1>7. CASE UseAfterFree(t)
  BY <1>1, <1>7 DEF UseAfterFree, WorkerTypes, HandsInv
<1>8. CASE SendChild(t)
  <2>1. job[t] \in Jobs /\ ChildrenOf[job[t]][idx[t]] \in Jobs
    BY <1>1, <1>2, <1>8 DEF SendChild
  <2>2. WorkerTypes'
    <3>1. queue' \in [Systems -> SUBSET Jobs] /\ sent' \subseteq Jobs
      BY <1>1, <1>8, <2>1 DEF SendChild, WorkerTypes
    <3>2. /\ jobState' \in [Jobs -> {"Queued", "Running", "Waiting", "Finished", "Canceled"}]
          /\ idx' \in [Threads -> Nat]
      BY <1>1, <1>2, <1>8, <2>1 DEF SendChild, WorkerTypes
    <3> QED
      BY <1>1, <1>8, <3>1, <3>2 DEF SendChild, WorkerTypes
  <2>3. HandsInv'
    BY <1>1, <1>2, <1>8 DEF SendChild, WorkerTypes, HandsInv
  <2> QED
    BY <2>2, <2>3
<1>9. CASE Finish(t)
  BY <1>1, <1>2, <1>9 DEF Finish, WorkerTypes, HandsInv
<1>10. CASE ReleaseLock(t)
  BY <1>1, <1>2, <1>10 DEF ReleaseLock, WorkerTypes, HandsInv
<1>11. ASSUME NEW j \in Jobs, TakeJob(t, j) PROVE WorkerTypes' /\ HandsInv'
  BY <1>1, <1>2, <1>11 DEF TakeJob, WorkerTypes, HandsInv
<1>12. CASE FindNothing(t) \/ Call(t) \/ FunctionReturns(t)
  BY <1>1, <1>2, <1>12, ZenonT(60) DEF FindNothing, Call, FunctionReturns, WorkerTypes, HandsInv
<1> QED
  BY <1>3, <1>4, <1>5, <1>6, <1>7, <1>8, <1>9, <1>10, <1>11, <1>12 DEF WorkerStep

\* No step of a worker matters to the invariant.
LEMMA WorkerManagerInv ==
  ASSUME ManagerInv, NEW t \in Threads, WorkerStep(t)
  PROVE  ManagerInv'
<1>1. UNCHANGED <<phase, returned, handle, hasId, userdata, systemVars, shuttingDown, call>>
  BY WorkerKeeps
<1>2. WorkerTypes' /\ HandsInv'
  BY WorkerTyped DEF ManagerInv
<1>3. TypeOK'
  BY <1>1, <1>2 DEF ManagerInv, TypeOK, WorkerTypes, WorkerPlaces, systemVars
<1>4. CallInv'
  BY <1>1 DEF ManagerInv, CallInv, CallType, AddingOK, SpawningOK, At, Listed, Registered,
         systemVars
<1>5. LifeInv'
  BY <1>1 DEF ManagerInv, LifeInv, Registered, systemVars
<1>6. ListsInv'
  BY <1>1 DEF ManagerInv, ListsInv, ListInv, Running, At, Listed, Registered, systemVars
<1> QED
  BY <1>2, <1>3, <1>4, <1>5, <1>6 DEF ManagerInv

------------------------------------------------------------------------------
(* Steps of the main thread that leave the lists alone                      *)

Releasing == At("cancel") \/ At("unlock") \/ At("erase")

LEMMA CallTyped ==
  ASSUME CallType
  PROVE  DOMAIN call = DOMAIN Idle /\ call.at \in Places
BY DEF CallType, Frames, Idle

LEMMA IdleTyped ==
  Idle \in Frames
BY DEF Idle, Frames, Places, Systems

LEMMA RestTyped ==
  ASSUME NEW q \in Seq(Locals)
  PROVE  q \in Seq(Systems) /\ Append(q, Main) \in Seq(Systems) /\ Len(q) \in Nat
BY DEF Systems

LEMMA FaultManagerInv ==
  ASSUME ManagerInv, NEW f \in Faults, Fault(f)
  PROVE  ManagerInv'
<1>1. TypeOK'
  BY DEF Fault, ManagerInv, TypeOK, threadVars, systemVars, jobVars, workerVars
<1>2. CallInv'
  BY DEF Fault, ManagerInv, CallInv, CallType, AddingOK, SpawningOK, At, Listed, Registered,
         threadVars, systemVars
<1>3. LifeInv'
  BY DEF Fault, ManagerInv, LifeInv, Registered, systemVars
<1>4. ListsInv'
  BY DEF Fault, ManagerInv, ListsInv, ListInv, Running, At, Listed, Registered, threadVars,
         systemVars
<1>5. HandsInv'
  BY DEF Fault, ManagerInv, HandsInv, workerVars
<1> QED
  BY <1>1, <1>2, <1>3, <1>4, <1>5 DEF ManagerInv

\* What is not written outside the calls that move threads.
LEMMA ListsKept ==
  ASSUME ListsInv, call.then = "idle", ~ At("setData"),
         UNCHANGED <<threads, numThreads>>,
         UNCHANGED userdata \/ ~ (Running \/ phase = "deleted"),
         \A s \in Systems : Registered(s)' => Registered(s) \/ numThreads[s] = Len(threads[s]),
         Releasing => \/ Releasing' /\ call'.local = call.local
                      \/ call.local # Main /\ call.local \notin ToSet(jobSystems'),
         Running' => /\ Running
                     /\ \A t \in Threads : handle'[t] # "none" => handle[t] # "none",
         Running \/ phase = "deleted" => Running' \/ phase' = "deleted"
  PROVE  ListsInv'
<1>1. ASSUME NEW s \in Systems PROVE ListInv(s)'
  <2>1. ListInv(s)
    BY DEF ListsInv
  <2>2. /\ IsInjective(threads[s])
        /\ \A t \in Listed(s) : userdata[t] = s
        /\ Running \/ phase = "deleted" \/ (threads[s] = << >> /\ numThreads[s] = 0)
        /\ s = Main \/ Registered(s) => \/ numThreads[s] = Len(threads[s])
                                        \/ Releasing /\ s = call.local
    BY <2>1 DEF ListInv, Releasing
  <2>3. s = Main \/ Registered(s)' => \/ numThreads[s] = Len(threads[s])
                                      \/ Releasing' /\ s = call'.local
    BY <2>2 DEF Releasing, Registered
  <2>4. \A t \in Listed(s) : userdata'[t] = s
    <3>1. ToSet(<< >>) = {}
      BY DEF ToSet
    <3> QED
      BY <2>2, <3>1 DEF Listed
  <2> QED
    BY <2>2, <2>3, <2>4 DEF ListInv, Listed, Releasing, At
<1>2. \A s, r \in Systems : \A t \in Listed(s)' \cap Listed(r)' : s = r
  BY DEF ListsInv, Listed
<1>3. Running' => /\ threads'[Main] # << >>
                  /\ \A t \in Threads : handle'[t] # "none" => \E s \in Systems : t \in Listed(s)'
  BY DEF ListsInv, Listed
<1> QED
  BY <1>1, <1>2, <1>3 DEF ListsInv

LEMMA SystemIsDownManagerInv ==
  ASSUME ManagerInv, SystemIsDown
  PROVE  ManagerInv'
<1>1. TypeOK /\ CallInv /\ LifeInv /\ ListsInv /\ HandsInv
  BY DEF ManagerInv
<1>2. CallType'
  BY <1>1 DEF SystemIsDown, TypeOK, CallInv, CallType, Frames, Idle, Places, Systems, At
<1>3. TypeOK'
  <2>1. DOMAIN call' = DOMAIN Idle /\ call'.at \in Places
    BY <1>2, CallTyped DEF CallType, Frames, Idle
  <2> QED
    BY <1>1, <2>1 DEF SystemIsDown, TypeOK, threadVars, systemVars, jobVars, workerVars,
           ReturnCodes, Faults, CallInv, CallType
<1>4. CallInv'
  BY <1>1, <1>2 DEF SystemIsDown, CallInv, CallType, AddingOK, SpawningOK, At, Idle, Places,
         threadVars, systemVars, Listed, Registered
<1>5. LifeInv'
  BY <1>1 DEF SystemIsDown, LifeInv, Registered, systemVars
<1>6. ListsInv'
  BY <1>1, ListsKept DEF SystemIsDown, CallInv, Releasing, Running, Idle, At, Registered,
         threadVars, systemVars
<1>7. HandsInv'
  BY <1>1 DEF SystemIsDown, HandsInv, workerVars
<1> QED
  BY <1>3, <1>4, <1>5, <1>6, <1>7 DEF ManagerInv

LEMMA ShutdownReturnsManagerInv ==
  ASSUME ManagerInv, ShutdownReturns
  PROVE  ManagerInv'
<1>1. TypeOK /\ CallInv /\ LifeInv /\ ListsInv /\ HandsInv
  BY DEF ManagerInv
<1>21. Idle \in Frames
  BY IdleTyped
<1>2. CallType'
  BY <1>1, <1>21 DEF ShutdownReturns, CallInv, CallType, Frames, Places
<1>3. TypeOK'
  <2>1. DOMAIN call' = DOMAIN Idle /\ call'.at \in Places
    BY <1>2, CallTyped DEF CallType, Frames, Idle
  <2> QED
    BY <1>1, <2>1 DEF ShutdownReturns, TypeOK, threadVars, systemVars, jobVars, workerVars,
           ReturnCodes, Faults, CallInv, CallType
<1>4. CallInv'
  BY <1>1, <1>2 DEF ShutdownReturns, CallInv, CallType, AddingOK, SpawningOK, At, Idle, Places,
         threadVars, systemVars, Listed, Registered
<1>5. LifeInv'
  BY <1>1 DEF ShutdownReturns, LifeInv, Registered, systemVars
<1>6. ListsInv'
  BY <1>1, ListsKept DEF ShutdownReturns, CallInv, Releasing, Running, Idle, At, Registered,
         threadVars, systemVars
<1>7. HandsInv'
  BY <1>1 DEF ShutdownReturns, HandsInv, workerVars
<1> QED
  BY <1>3, <1>4, <1>5, <1>6, <1>7 DEF ManagerInv

LEMMA ShutdownManagerInv ==
  ASSUME ManagerInv, NEW blocking \in BOOLEAN, Shutdown(blocking)
  PROVE  ManagerInv'
<1>1. TypeOK /\ CallInv /\ LifeInv /\ ListsInv /\ HandsInv
  BY DEF ManagerInv
<1>20. jobSystems \in Seq(Systems) /\ Append(jobSystems, Main) \in Seq(Systems) /\ Len(jobSystems) \in Nat
  BY <1>1, RestTyped DEF TypeOK
<1>21. Idle \in Frames
  BY IdleTyped
<1>2. CallType'
  BY <1>1, <1>20, <1>21 DEF Shutdown, BeginShutdown, CallType, Frames, Places
<1>3. TypeOK'
  <2>1. DOMAIN call' = DOMAIN Idle /\ call'.at \in Places
    BY <1>2, CallTyped DEF CallType, Frames, Idle
  <2> QED
    BY <1>1, <2>1 DEF Shutdown, BeginShutdown, TypeOK, threadVars, systemVars, jobVars,
           workerVars, ReturnCodes, Faults, CallInv, CallType
<1>4. CallInv'
  BY <1>1, <1>2 DEF Shutdown, BeginShutdown, CallInv, CallType, AddingOK, SpawningOK, At, Idle,
         Places, threadVars, systemVars, Listed, Registered
<1>5. LifeInv'
  BY <1>1 DEF Shutdown, BeginShutdown, LifeInv, Registered, systemVars
<1>6. ListsInv'
  BY <1>1, ListsKept DEF Shutdown, BeginShutdown, CallInv, Releasing, Running, Idle, At,
         Registered, threadVars, systemVars
<1>7. HandsInv'
  BY <1>1 DEF Shutdown, BeginShutdown, HandsInv, workerVars
<1> QED
  BY <1>3, <1>4, <1>5, <1>6, <1>7 DEF ManagerInv

LEMMA SlotsReleasedManagerInv ==
  ASSUME ManagerInv, SlotsReleased
  PROVE  ManagerInv'
<1>1. TypeOK /\ CallInv /\ LifeInv /\ ListsInv /\ HandsInv
  BY DEF ManagerInv
<1>20. jobSystems \in Seq(Systems) /\ Append(jobSystems, Main) \in Seq(Systems) /\ Len(jobSystems) \in Nat
  BY <1>1, RestTyped DEF TypeOK
<1>2. CallType'
  BY <1>1, <1>20 DEF SlotsReleased, BeginShutdown, CallInv, CallType, Frames, Places
<1>3. TypeOK'
  <2>1. DOMAIN call' = DOMAIN Idle /\ call'.at \in Places
    BY <1>2, CallTyped DEF CallType, Frames, Idle
  <2> QED
    BY <1>1, <2>1 DEF SlotsReleased, BeginShutdown, TypeOK, threadVars, systemVars, jobVars,
           workerVars, ReturnCodes, Faults, CallInv, CallType
<1>4. CallInv'
  BY <1>1, <1>2 DEF SlotsReleased, BeginShutdown, CallInv, CallType, AddingOK, SpawningOK, At,
         Idle, Places, threadVars, systemVars, Listed, Registered
<1>5. LifeInv'
  BY <1>1 DEF SlotsReleased, BeginShutdown, LifeInv, Registered, systemVars
<1>6. ListsInv'
  BY <1>1, ListsKept DEF SlotsReleased, BeginShutdown, CallInv, Releasing, Running, Idle, At,
         Registered, threadVars, systemVars
<1>7. HandsInv'
  BY <1>1 DEF SlotsReleased, BeginShutdown, HandsInv, workerVars
<1> QED
  BY <1>3, <1>4, <1>5, <1>6, <1>7 DEF ManagerInv

LEMMA DestroyManagerInv ==
  ASSUME ManagerInv, DestroyManager
  PROVE  ManagerInv'
<1>1. TypeOK /\ CallInv /\ LifeInv /\ ListsInv /\ HandsInv
  BY DEF ManagerInv
<1>20. jobSystems \in Seq(Systems) /\ Append(jobSystems, Main) \in Seq(Systems) /\ Len(jobSystems) \in Nat
  BY <1>1, RestTyped DEF TypeOK
<1>21. Idle \in Frames
  BY IdleTyped
<1>2. CallType'
  BY <1>1, <1>20, <1>21 DEF DestroyManager, CallType, Frames, Places
<1>3. TypeOK'
  <2>1. DOMAIN call' = DOMAIN Idle /\ call'.at \in Places
    BY <1>2, CallTyped DEF CallType, Frames, Idle
  <2> QED
    BY <1>1, <2>1 DEF DestroyManager, TypeOK, threadVars, systemVars, jobVars, workerVars,
           ReturnCodes, Faults, CallInv, CallType
<1>4. CallInv'
  BY <1>1, <1>2 DEF DestroyManager, CallInv, CallType, AddingOK, SpawningOK, At, Idle, Places,
         threadVars, systemVars, Listed, Registered
<1>5. LifeInv'
  BY <1>1 DEF DestroyManager, LifeInv, Registered, systemVars
<1>6. ListsInv'
  BY <1>1, ListsKept DEF DestroyManager, CallInv, Releasing, Running, Idle, At, Registered,
         threadVars, systemVars
<1>7. HandsInv'
  BY <1>1 DEF DestroyManager, HandsInv, workerVars
<1> QED
  BY <1>3, <1>4, <1>5, <1>6, <1>7 DEF ManagerInv

LEMMA DeleteThreadsManagerInv ==
  ASSUME ManagerInv, DeleteThreads
  PROVE  ManagerInv'
<1>0. CASE \E t \in Threads : handle[t] = "joinable"
  BY <1>0, FaultManagerInv DEF DeleteThreads, Faults
<1> SUFFICES ASSUME ~ (\E t \in Threads : handle[t] = "joinable") PROVE ManagerInv'
  BY <1>0
<1>1. TypeOK /\ CallInv /\ LifeInv /\ ListsInv /\ HandsInv
  BY DEF ManagerInv
<1>21. Idle \in Frames
  BY IdleTyped
<1>2. CallType'
  BY <1>1, <1>21 DEF DeleteThreads, CallType
<1>3. TypeOK'
  <2>1. DOMAIN call' = DOMAIN Idle /\ call'.at \in Places
    BY <1>2, CallTyped DEF CallType, Frames, Idle
  <2> QED
    BY <1>1, <2>1 DEF DeleteThreads, TypeOK, threadVars, systemVars, jobVars, workerVars,
           ReturnCodes, Faults, CallInv, CallType
<1>4. CallInv'
  BY <1>1, <1>2 DEF DeleteThreads, CallInv, CallType, AddingOK, SpawningOK, At, Idle, Places,
         threadVars, systemVars, Listed, Registered
<1>5. LifeInv'
  BY <1>1 DEF DeleteThreads, LifeInv, Registered, systemVars
<1>6. ListsInv'
  BY <1>1, ListsKept DEF DeleteThreads, CallInv, Releasing, Running, Idle, At, Registered,
         threadVars, systemVars
<1>7. HandsInv'
  BY <1>1 DEF DeleteThreads, HandsInv, workerVars
<1> QED
  BY <1>3, <1>4, <1>5, <1>6, <1>7 DEF ManagerInv

LEMMA UnlockCanceledManagerInv ==
  ASSUME ManagerInv, UnlockCanceled
  PROVE  ManagerInv'
<1>1. TypeOK /\ CallInv /\ LifeInv /\ ListsInv /\ HandsInv
  BY DEF ManagerInv
<1>2. CallType'
  BY <1>1 DEF UnlockCanceled, TypeOK, CallInv, CallType, Frames, Idle, Places, Systems, At
<1>3. TypeOK'
  <2>1. DOMAIN call' = DOMAIN Idle /\ call'.at \in Places
    BY <1>2, CallTyped DEF CallType, Frames, Idle
  <2> QED
    BY <1>1, <2>1 DEF UnlockCanceled, TypeOK, threadVars, systemVars, jobVars, workerVars,
           ReturnCodes, Faults, CallInv, CallType
<1>4. CallInv'
  BY <1>1, <1>2 DEF UnlockCanceled, CallInv, CallType, AddingOK, SpawningOK, At, Idle, Places,
         threadVars, systemVars, Listed, Registered
<1>5. LifeInv'
  BY <1>1 DEF UnlockCanceled, LifeInv, Registered, systemVars
<1>6. ListsInv'
  BY <1>1, ListsKept DEF UnlockCanceled, CallInv, Releasing, Running, Idle, At, Registered,
         threadVars, systemVars
<1>7. HandsInv'
  BY <1>1 DEF UnlockCanceled, HandsInv, workerVars
<1> QED
  BY <1>3, <1>4, <1>5, <1>6, <1>7 DEF ManagerInv

LEMMA QueueClearedManagerInv ==
  ASSUME ManagerInv, QueueCleared
  PROVE  ManagerInv'
<1>1. TypeOK /\ CallInv /\ LifeInv /\ ListsInv /\ HandsInv
  BY DEF ManagerInv
<1>2. CallType'
  BY <1>1 DEF QueueCleared, TypeOK, CallInv, CallType, Frames, Idle, Places, Systems, At
<1>3. TypeOK'
  <2>1. DOMAIN call' = DOMAIN Idle /\ call'.at \in Places
    BY <1>2, CallTyped DEF CallType, Frames, Idle
  <2> QED
    BY <1>1, <2>1 DEF QueueCleared, TypeOK, threadVars, systemVars, jobVars, workerVars,
           ReturnCodes, Faults, CallInv, CallType
<1>4. CallInv'
  BY <1>1, <1>2 DEF QueueCleared, CallInv, CallType, AddingOK, SpawningOK, At, Idle, Places,
         threadVars, systemVars, Listed, Registered
<1>5. LifeInv'
  BY <1>1 DEF QueueCleared, LifeInv, Registered, systemVars
<1>6. ListsInv'
  BY <1>1, ListsKept DEF QueueCleared, CallInv, Releasing, Running, Idle, At, Registered,
         threadVars, systemVars
<1>7. HandsInv'
  BY <1>1 DEF QueueCleared, HandsInv, workerVars
<1> QED
  BY <1>3, <1>4, <1>5, <1>6, <1>7 DEF ManagerInv

LEMMA CancelJobManagerInv ==
  ASSUME ManagerInv, NEW j \in Jobs, CancelJob(j)
  PROVE  ManagerInv'
<1>1. TypeOK /\ CallInv /\ LifeInv /\ ListsInv /\ HandsInv
  BY DEF ManagerInv
<1>2. CallType'
  BY <1>1 DEF CancelJob, TypeOK, CallInv, CallType, Frames, Idle, Places, Systems, At
<1>3. TypeOK'
  <2>1. DOMAIN call' = DOMAIN Idle /\ call'.at \in Places
    BY <1>2, CallTyped DEF CallType, Frames, Idle
  <2> QED
    BY <1>1, <2>1 DEF CancelJob, TypeOK, threadVars, systemVars, jobVars, workerVars,
           ReturnCodes, Faults, CallInv, CallType
<1>4. CallInv'
  BY <1>1, <1>2 DEF CancelJob, CallInv, CallType, AddingOK, SpawningOK, At, Idle, Places,
         threadVars, systemVars, Listed, Registered
<1>5. LifeInv'
  BY <1>1 DEF CancelJob, LifeInv, Registered, systemVars
<1>6. ListsInv'
  BY <1>1, ListsKept DEF CancelJob, CallInv, Releasing, Running, Idle, At, Registered,
         threadVars, systemVars
<1>7. HandsInv'
  BY <1>1 DEF CancelJob, HandsInv, workerVars
<1> QED
  BY <1>3, <1>4, <1>5, <1>6, <1>7 DEF ManagerInv

LEMMA ShutdownSystemManagerInv ==
  ASSUME ManagerInv, ShutdownSystem
  PROVE  ManagerInv'
<1>0. CASE Debug /\ Head(call.rest) \notin mainIds
  BY <1>0, FaultManagerInv DEF ShutdownSystem, Faults
<1> SUFFICES ASSUME ~ (Debug /\ Head(call.rest) \notin mainIds) PROVE ManagerInv'
  BY <1>0
<1>1. TypeOK /\ CallInv /\ LifeInv /\ ListsInv /\ HandsInv
  BY DEF ManagerInv
<1>20. /\ Head(call.rest) \in Systems /\ Tail(call.rest) \in Seq(Systems)
      /\ \A s \in Systems : numThreads[s] \in Nat /\ threads[s] \in Seq(Threads)
  <2>1. call.rest \in Seq(Systems) /\ call.rest # << >>
    BY <1>1 DEF CallInv, CallType, Frames, ShutdownSystem
  <2>2. Head(call.rest) \in Systems /\ Tail(call.rest) \in Seq(Systems)
    BY <2>1
  <2> QED
    BY <1>1, <2>2, ManagerAssumption DEF TypeOK
<1>21. /\ call' = [call EXCEPT !.at = "join", !.rest = Tail(@), !.todo = call'.todo]
       /\ call'.todo \in Seq(Threads \cup {NoThread})
       /\ UNCHANGED <<phase, returned, threadVars, systemVars, shuttingDown, jobVars, workerVars, fault>>
  <2> DEFINE s == Head(call.rest)
             element(i) == IF i <= Len(threads[s]) THEN threads[s][i] ELSE NoThread
             list == IF call.blocking THEN [i \in 1 .. numThreads[s] |-> element(i)] ELSE << >>
  <2>1. list \in Seq(Threads \cup {NoThread})
    <3>1. \A i \in 1 .. numThreads[s] : element(i) \in Threads \cup {NoThread}
      BY <1>20
    <3>2. [i \in 1 .. numThreads[s] |-> element(i)] \in Seq(Threads \cup {NoThread})
      BY <1>20, <3>1, IsASeq, SMTT(40)
    <3> QED
      BY <3>2, EmptySeq
  <2> HIDE DEF list
  <2>2. /\ call' = [call EXCEPT !.at = "join", !.rest = Tail(@), !.todo = list]
        /\ UNCHANGED <<phase, returned, threadVars, systemVars, shuttingDown, jobVars, workerVars, fault>>
    BY DEF ShutdownSystem, list
  <2> QED
    BY <1>1, <2>1, <2>2 DEF CallInv, CallType, Frames
<1>2. CallType'
  BY <1>1, <1>20, <1>21 DEF CallInv, CallType, Frames, Places
<1>3. TypeOK'
  <2>1. DOMAIN call' = DOMAIN Idle /\ call'.at \in Places
    BY <1>2, CallTyped DEF CallType, Frames, Idle
  <2> QED
    BY <1>1, <1>21, <2>1 DEF TypeOK, threadVars, systemVars, jobVars, workerVars, CallInv,
           CallType, Frames
<1>4. CallInv'
  <2>1. At("shutdown") /\ call.then = "idle" /\ ~ Releasing
    BY <1>1 DEF ShutdownSystem, At, Releasing, CallInv
  <2>2. /\ call'.at = "join" /\ call'.then = "idle"
        /\ UNCHANGED <<phase, handle, hasId>>
    BY <1>1, <1>21, <2>1 DEF threadVars, CallInv, CallType, Frames
  <2> QED
    BY <1>1, <1>2, <2>1, <2>2 DEF CallInv, AddingOK, SpawningOK, At
<1>5. LifeInv'
  BY <1>1, <1>21 DEF LifeInv, Registered, systemVars
<1>6. ListsInv'
  <2>1. At("shutdown") /\ call.then = "idle" /\ ~ Releasing
    BY <1>1 DEF ShutdownSystem, At, Releasing, CallInv
  <2>2. call'.then = "idle"
    BY <1>1, <1>21, <2>1 DEF CallInv, CallType, Frames
  <2> QED
    BY <1>1, <1>21, <2>1, <2>2, ListsKept DEF Running, At, Registered, threadVars, systemVars
<1>7. HandsInv'
  BY <1>1, <1>21 DEF HandsInv, workerVars
<1> QED
  BY <1>3, <1>4, <1>5, <1>6, <1>7 DEF ManagerInv

LEMMA JoinManagerInv ==
  ASSUME ManagerInv, Join
  PROVE  ManagerInv'
<1>0. CASE Head(call.todo) = NoThread
  BY <1>0, FaultManagerInv DEF Join, Faults
<1> SUFFICES ASSUME ~ (Head(call.todo) = NoThread) PROVE ManagerInv'
  BY <1>0
<1>1. TypeOK /\ CallInv /\ LifeInv /\ ListsInv /\ HandsInv
  BY DEF ManagerInv
<1>20. Tail(call.todo) \in Seq(Threads \cup {NoThread}) /\ Head(call.todo) \in Threads
  BY <1>1 DEF CallInv, CallType, Frames, Join
<1>21. /\ call' = [call EXCEPT !.todo = Tail(@)] /\ At("join")
       /\ handle' = handle \/ handle' = [handle EXCEPT ![Head(call.todo)] = "joined"]
       /\ handle[Head(call.todo)] = "none" => handle'[Head(call.todo)] = "none"
       /\ UNCHANGED <<phase, returned, hasId, affinity, userdata, systemVars, shuttingDown, jobVars, workerVars, fault>>
  BY <1>1, <1>20 DEF Join, HasSpawned, CallInv, SpawningOK
<1>2. CallType'
  BY <1>1, <1>20, <1>21 DEF CallInv, CallType, Frames, Places
<1>3. TypeOK'
  <2>1. DOMAIN call' = DOMAIN Idle /\ call'.at \in Places
    BY <1>2, CallTyped DEF CallType, Frames, Idle
  <2> QED
    <3>1. handle' \in [Threads -> {"none", "joinable", "joined"}]
      BY <1>1, <1>20, <1>21 DEF TypeOK
    <3> QED
      BY <1>1, <1>21, <2>1, <3>1 DEF TypeOK, systemVars, jobVars, workerVars
<1>4. CallInv'
  <2>1. At("join") /\ call.then = "idle" /\ call'.at = "join" /\ call'.then = "idle"
    BY <1>1, <1>21 DEF At, CallInv, CallType, Frames
  <2>2. UNCHANGED <<phase, hasId>> /\ \A t \in Threads : handle'[t] = "none" <=> handle[t] = "none"
    BY <1>1, <1>20, <1>21 DEF TypeOK
  <2> QED
    BY <1>1, <1>2, <2>1, <2>2 DEF CallInv, AddingOK, SpawningOK, At
<1>5. LifeInv'
  BY <1>1 DEF Join, LifeInv, Registered, systemVars
<1>6. ListsInv'
  <2>1. At("join") /\ call.then = "idle" /\ ~ Releasing /\ call'.then = "idle"
    BY <1>1, <1>21 DEF At, Releasing, CallInv, CallType, Frames
  <2>2. UNCHANGED phase /\ \A t \in Threads : handle'[t] = "none" <=> handle[t] = "none"
    BY <1>1, <1>20, <1>21 DEF TypeOK
  <2> QED
    BY <1>1, <1>21, <2>1, <2>2, ListsKept DEF Running, At, Registered, systemVars
<1>7. HandsInv'
  BY <1>1 DEF Join, HandsInv, workerVars
<1> QED
  BY <1>3, <1>4, <1>5, <1>6, <1>7 DEF ManagerInv

LEMMA InitManagerInv ==
  ASSUME ManagerInv, NEW n \in 0 .. Hardware + 1, InitManager(n)
  PROVE  ManagerInv'
<1>1. TypeOK /\ CallInv /\ LifeInv /\ ListsInv /\ HandsInv
  BY DEF ManagerInv
<1>20. \/ /\ UNCHANGED <<call, phase>> /\ returned' \in ReturnCodes
          /\ UNCHANGED <<threadVars, systemVars, shuttingDown, jobVars, workerVars, fault>>
       \/ /\ phase = "null" /\ phase' = "spawning" /\ n \in Threads
          /\ call' = [Idle EXCEPT !.at = "spawn", !.end = n]
          /\ UNCHANGED <<returned, threadVars, systemVars, shuttingDown, jobVars, workerVars, fault>>
  BY <1>1 DEF InitManager, InitReturns, ReturnCodes
<1>22. At("idle")
  BY DEF InitManager
<1>21. Idle \in Frames
  BY IdleTyped
<1>23. Threads \subseteq Nat
  BY ManagerAssumption DEF Threads
<1>2. CallType'
  BY <1>1, <1>20, <1>21, <1>23, ZenonT(60) DEF CallInv, CallType, Frames, Places
<1>3. TypeOK'
  <2>1. DOMAIN call' = DOMAIN Idle /\ call'.at \in Places
    BY <1>2, CallTyped DEF CallType, Frames, Idle
  <2> QED
    BY <1>1, <1>20, <2>1 DEF TypeOK, threadVars, systemVars, jobVars, workerVars, ReturnCodes
<1>4. CallInv'
  <2>1. CASE UNCHANGED <<call, phase, threadVars, systemVars>>
    BY <1>1, <1>2, <2>1 DEF CallInv, AddingOK, SpawningOK, At, threadVars, systemVars, Listed,
           Registered
  <2>2. CASE /\ phase = "null" /\ phase' = "spawning" /\ n \in Threads
             /\ call' = [Idle EXCEPT !.at = "spawn", !.end = n] /\ UNCHANGED <<threadVars, systemVars>>
    <3>1. /\ call'.at = "spawn" /\ call'.then = "idle" /\ call'.end = n /\ call'.slot = 1
          /\ UNCHANGED <<handle, hasId>> /\ \A t \in Threads : handle[t] = "none" /\ ~ hasId[t]
      BY <1>1, <2>2 DEF Idle, CallInv, SpawningOK, threadVars
    <3>2. 1 <= n
      BY <2>2, ManagerAssumption DEF Threads
    <3> QED
      BY <1>1, <1>2, <2>2, <3>1, <3>2 DEF CallInv, AddingOK, SpawningOK, At
  <2> QED
    BY <1>20, <2>1, <2>2
<1>5. LifeInv'
  BY <1>1, <1>20 DEF LifeInv, Registered, systemVars
<1>6. ListsInv'
  BY <1>1, <1>20, <1>22, ListsKept DEF CallInv, Releasing, Running, Idle, At, Registered,
         threadVars, systemVars
<1>7. HandsInv'
  BY <1>1, <1>20 DEF HandsInv, workerVars
<1> QED
  BY <1>3, <1>4, <1>5, <1>6, <1>7 DEF ManagerInv

LEMMA SpawnManagerInv ==
  ASSUME ManagerInv, Spawn
  PROVE  ManagerInv'
<1>1. TypeOK /\ CallInv /\ LifeInv /\ ListsInv /\ HandsInv
  BY DEF ManagerInv
<1>20. call.slot \in Threads /\ call.then = "idle" /\ phase = "spawning"
  BY <1>1, ManagerAssumption DEF Spawn, CallInv, CallType, Frames, SpawningOK, At, Threads
<1>2. CallType'
  BY <1>1, <1>20 DEF Spawn, LaunchThread, TypeOK, CallInv, CallType, Frames, Idle, Places,
         Systems, At
<1>3. TypeOK'
  <2>1. DOMAIN call' = DOMAIN Idle /\ call'.at \in Places
    BY <1>2, CallTyped DEF CallType, Frames, Idle
  <2> QED
    <3>1. Main \in Systems
      BY DEF Systems
    <3> QED
      BY <1>1, <1>20, <2>1, <3>1 DEF Spawn, LaunchThread, TypeOK, systemVars, jobVars
<1>4. CallInv'
  <2>1. /\ At("spawn") /\ call'.at = "storeId" /\ call'.then = "idle" /\ call'.slot = call.slot
        /\ call'.end = call.end /\ UNCHANGED <<phase, hasId>>
        /\ handle' = [handle EXCEPT ![call.slot] = "joinable"]
    BY <1>1, <1>20 DEF Spawn, At, CallInv, CallType, Frames
  <2>2. handle'[call.slot] = "joinable" /\ \A t \in Threads : t # call.slot => handle'[t] = handle[t]
    BY <1>1, <1>20, <2>1 DEF TypeOK
  <2> QED
    BY <1>1, <1>2, <1>20, <2>1, <2>2 DEF CallInv, AddingOK, SpawningOK, At
<1>5. LifeInv'
  BY <1>1 DEF Spawn, LaunchThread, LifeInv, Registered, systemVars
<1>6. ListsInv'
  BY <1>1, ListsKept, <1>20 DEF Spawn, LaunchThread, CallInv, Releasing, Running, Idle, At,
         Registered, threadVars, systemVars
<1>7. HandsInv'
  BY <1>1 DEF Spawn, LaunchThread, HandsInv, workerVars
<1> QED
  BY <1>3, <1>4, <1>5, <1>6, <1>7 DEF ManagerInv

LEMMA SpawnThrowsManagerInv ==
  ASSUME ManagerInv, SpawnThrows
  PROVE  ManagerInv'
<1>1. TypeOK /\ CallInv /\ LifeInv /\ ListsInv /\ HandsInv
  BY DEF ManagerInv
<1>20. call.slot \in Threads /\ call.then = "idle" /\ phase = "spawning"
  BY <1>1, ManagerAssumption DEF SpawnThrows, CallInv, CallType, Frames, SpawningOK, At, Threads
<1>2. CallType'
  BY <1>1, <1>20 DEF SpawnThrows, TypeOK, CallInv, CallType, Frames, Idle, Places, Systems, At
<1>3. TypeOK'
  <2>1. DOMAIN call' = DOMAIN Idle /\ call'.at \in Places
    BY <1>2, CallTyped DEF CallType, Frames, Idle
  <2> QED
    <3>1. Main \in Systems
      BY DEF Systems
    <3> QED
      BY <1>1, <1>20, <2>1, <3>1 DEF SpawnThrows, TypeOK, systemVars, jobVars, workerVars
<1>4. CallInv'
  BY <1>1, <1>2, <1>20 DEF SpawnThrows, CallInv, CallType, AddingOK, SpawningOK, At, Idle,
         Places, threadVars, systemVars, Listed, Registered
<1>5. LifeInv'
  BY <1>1 DEF SpawnThrows, LifeInv, Registered, systemVars
<1>6. ListsInv'
  BY <1>1, ListsKept, <1>20 DEF SpawnThrows, CallInv, Releasing, Running, Idle, At, Registered,
         threadVars, systemVars
<1>7. HandsInv'
  BY <1>1 DEF SpawnThrows, HandsInv, workerVars
<1> QED
  BY <1>3, <1>4, <1>5, <1>6, <1>7 DEF ManagerInv

LEMMA DropManagerInv ==
  ASSUME ManagerInv, NEW s \in Locals, Drop(s)
  PROVE  ManagerInv'
<1>1. TypeOK /\ CallInv /\ LifeInv /\ ListsInv /\ HandsInv
  BY DEF ManagerInv
<1>2. CallType'
  BY <1>1 DEF Drop, Destroyed, TypeOK, CallInv, CallType, Frames, Idle, Places, Systems, At
<1>3. TypeOK'
  <2>1. DOMAIN call' = DOMAIN Idle /\ call'.at \in Places
    BY <1>2, CallTyped DEF CallType, Frames, Idle
  <2> QED
    BY <1>1, <2>1 DEF Drop, Destroyed, TypeOK, threadVars, systemVars, jobVars, workerVars,
           ReturnCodes, Faults, CallInv, CallType
<1>4. CallInv'
  BY <1>1, <1>2 DEF Drop, Destroyed, CallInv, CallType, AddingOK, SpawningOK, At, Idle, Places,
         threadVars, systemVars, Listed, Registered
<1>5. LifeInv'
  BY <1>1 DEF Drop, Destroyed, LifeInv, Registered, systemVars
<1>6. ListsInv'
  BY <1>1, ListsKept DEF Drop, Destroyed, CallInv, Releasing, Running, Idle, At, Registered,
         threadVars, systemVars
<1>7. HandsInv'
  BY <1>1 DEF Drop, Destroyed, HandsInv, workerVars
<1> QED
  BY <1>3, <1>4, <1>5, <1>6, <1>7 DEF ManagerInv

LEMMA ScheduleJobManagerInv ==
  ASSUME ManagerInv, NEW s \in Systems, NEW j \in Jobs, ScheduleJob(s, j)
  PROVE  ManagerInv'
<1>1. TypeOK /\ CallInv /\ LifeInv /\ ListsInv /\ HandsInv
  BY DEF ManagerInv
<1>2. CallType'
  BY <1>1 DEF ScheduleJob, TypeOK, CallInv, CallType, Frames, Idle, Places, Systems, At
<1>3. TypeOK'
  <2>1. DOMAIN call' = DOMAIN Idle /\ call'.at \in Places
    BY <1>2, CallTyped DEF CallType, Frames, Idle
  <2> QED
    BY <1>1, <2>1 DEF ScheduleJob, TypeOK, threadVars, systemVars, jobVars, workerVars,
           ReturnCodes, Faults, CallInv, CallType
<1>4. CallInv'
  BY <1>1, <1>2 DEF ScheduleJob, CallInv, CallType, AddingOK, SpawningOK, At, Idle, Places,
         threadVars, systemVars, Listed, Registered
<1>5. LifeInv'
  BY <1>1 DEF ScheduleJob, LifeInv, Registered, systemVars
<1>6. ListsInv'
  BY <1>1, ListsKept DEF ScheduleJob, CallInv, Releasing, Running, Idle, At, Registered,
         threadVars, systemVars
<1>7. HandsInv'
  BY <1>1 DEF ScheduleJob, HandsInv, workerVars
<1> QED
  BY <1>3, <1>4, <1>5, <1>6, <1>7 DEF ManagerInv

------------------------------------------------------------------------------
(* Steps of the main thread that move threads                               *)

LEMMA EmptyList ==
  ToSet(<< >>) = {} /\ IsInjective(<< >>)
BY DEF ToSet, IsInjective

LEMMA EraseSystemManagerInv ==
  ASSUME ManagerInv, EraseSystem
  PROVE  ManagerInv'
<1>1. TypeOK /\ CallInv /\ LifeInv /\ ListsInv /\ HandsInv
  BY DEF ManagerInv
<1>2. /\ jobSystems' \in Seq(Locals) /\ ToSet(jobSystems') = ToSet(jobSystems) \ {call.local}
      /\ IsInjective(jobSystems')
  <2>1. jobSystems \in Seq(Locals) /\ IsInjective(jobSystems) /\ call.local \in ToSet(jobSystems)
    BY <1>1 DEF TypeOK, LifeInv, EraseSystem, Registered
  <2>2. \A q \in Seq(Locals) : IsInjective(q) => \A x \in ToSet(q) :
          /\ RemoveFirst(q, x) \in Seq(Locals)
          /\ ToSet(RemoveFirst(q, x)) = ToSet(q) \ {x}
          /\ IsInjective(RemoveFirst(q, x))
    BY Removing, Zenon
  <2>3. jobSystems' = RemoveFirst(jobSystems, call.local)
    BY DEF EraseSystem
  <2> QED
    BY <2>1, <2>2, <2>3, Zenon
<1>3. /\ At("erase") /\ call.then = "idle" /\ call.local \in Locals /\ Registered(call.local)
      /\ call'.then = "idle" /\ call'.at \in {"idle", "nextSlot", "delete"}
      /\ UNCHANGED <<phase, returned, threadVars, threads, numThreads, mainIds, held,
                     shuttingDown, jobVars, workerVars, fault>>
  BY <1>1 DEF EraseSystem, CallInv, CallType, Frames, Idle, At
<1>4. CallType'
  BY <1>1, IdleTyped DEF EraseSystem, CallInv, CallType, Frames, Places
<1>5. /\ life' \in [Locals -> {"none", "alive", "destroyed"}]
      /\ \A s \in Locals : life'[s] # life[s] => s = call.local /\ s \notin held
      /\ \A s \in Locals : life'[s] = "none" => life[s] = "none"
  BY <1>1 DEF EraseSystem, Destroyed, TypeOK
<1>6. TypeOK'
  <2>1. DOMAIN call' = DOMAIN Idle /\ call'.at \in Places
    BY <1>4, CallTyped DEF CallType, Frames, Idle
  <2> QED
    BY <1>1, <1>2, <1>3, <1>5, <2>1 DEF TypeOK, threadVars, jobVars, workerVars
<1>7. CallInv'
  BY <1>1, <1>3, <1>4 DEF CallInv, AddingOK, SpawningOK, At, threadVars
<1>8. LifeInv'
  BY <1>1, <1>2, <1>3, <1>5 DEF LifeInv, Registered
<1>9. ListsInv'
  <2>1. call.local # Main
    BY <1>3, ManagerAssumption
  <2>2. \A s \in Systems : Registered(s)' => Registered(s)
    BY <1>2 DEF Registered
  <2> QED
    BY <1>1, <1>2, <1>3, <2>1, <2>2, ListsKept DEF Releasing, Running, At, threadVars
<1>10. HandsInv'
  BY <1>1, <1>3 DEF HandsInv, workerVars
<1> QED
  BY <1>6, <1>7, <1>8, <1>9, <1>10 DEF ManagerInv

LEMMA StoreIdManagerInv ==
  ASSUME ManagerInv, StoreId
  PROVE  ManagerInv'
<1>1. TypeOK /\ CallInv /\ LifeInv /\ ListsInv /\ HandsInv
  BY DEF ManagerInv
<1>2. /\ At("storeId") /\ call.then = "idle" /\ phase = "spawning"
      /\ call.slot \in Threads /\ call.end \in Threads /\ call.slot <= call.end
      /\ hasId' = [hasId EXCEPT ![call.slot] = TRUE] /\ handle[call.slot] # "none"
      /\ UNCHANGED <<phase, returned, handle, affinity, userdata, numThreads, jobSystems, life,
                     held, shuttingDown, jobVars, workerVars, fault>>
  BY <1>1, ManagerAssumption DEF StoreId, CallInv, CallType, Frames, SpawningOK, At, Threads
<1>3. \A t \in Threads : hasId'[t] => handle[t] # "none"
  BY <1>1, <1>2 DEF TypeOK, CallInv, SpawningOK
<1>5. CASE call.slot < call.end
  <2>1. call' = [call EXCEPT !.at = "spawn", !.slot = @ + 1] /\ UNCHANGED <<threads, mainIds>>
    BY <1>5 DEF StoreId
  <2>2. CallType'
    <3>1. call.slot + 1 \in Nat \ {0}
      BY <1>1 DEF CallInv, CallType, Frames
    <3>2. call' = [call EXCEPT !.at = "spawn", !.slot = call.slot + 1]
      BY <1>1, <2>1 DEF CallInv, CallType, Frames
    <3> QED
      BY <1>1, <3>1, <3>2 DEF CallInv, CallType, Frames, Places
  <2>3. /\ call'.at = "spawn" /\ call'.then = "idle" /\ call'.slot = call.slot + 1
        /\ call'.end = call.end
    BY <1>1, <1>2, <2>1 DEF CallInv, CallType, Frames
  <2>4. TypeOK'
    <3>1. DOMAIN call' = DOMAIN Idle /\ call'.at \in Places
      BY <2>2, CallTyped DEF CallType, Frames, Idle
    <3> QED
      BY <1>1, <1>2, <2>1, <3>1 DEF TypeOK, jobVars, workerVars
  <2>5. CallInv'
    <3>1. \A t \in Threads : handle'[t] # "none" => t < call'.slot
      <4>1. Threads \subseteq Nat
        BY ManagerAssumption DEF Threads
      <4>2. \A t \in Threads : handle[t] # "none" => t < call.slot \/ t = call.slot
        BY <1>1, <1>2 DEF CallInv, SpawningOK
      <4>3. \A n, m \in Nat : n < m \/ n = m => n < m + 1
        OBVIOUS
      <4>4. \A t \in Threads : handle[t] # "none" => t < call.slot + 1
        BY ONLY <1>2, <4>1, <4>2, <4>3
      <4> QED
        BY ONLY <1>2, <2>3, <4>4
    <3>2. call'.end \in Threads /\ call'.slot <= call'.end
      BY <1>2, <1>5, <2>3, ManagerAssumption DEF Threads
    <3> QED
      BY <1>1, <1>2, <1>3, <2>2, <2>3, <3>1, <3>2 DEF CallInv, AddingOK, SpawningOK, At
  <2>6. LifeInv' /\ HandsInv'
    BY <1>1, <1>2, <2>1 DEF LifeInv, HandsInv, Registered, workerVars
  <2>7. ListsInv'
    BY <1>1, <1>2, <2>1, <2>3, ListsKept DEF Releasing, Running, At, Registered
  <2> QED
    BY <2>4, <2>5, <2>6, <2>7 DEF ManagerInv
<1>6. CASE call.slot = call.end
  <2> DEFINE all == [i \in 1 .. call.end |-> i]
  <2>1. /\ threads' = [threads EXCEPT ![Main] = @ \o all]
        /\ call' = [Idle EXCEPT !.at = "setData", !.todo = all, !.then = "up"]
        /\ mainIds' = mainIds \cup {Main}
    <3>1. ~ (call.slot < call.end)
      BY <1>2, <1>6, ManagerAssumption DEF Threads
    <3> QED
      BY <3>1 DEF StoreId
  <2>2. all \in Seq(Threads) /\ ToSet(all) = 1 .. call.end /\ IsInjective(all) /\ all # << >>
    <3>1. call.end \in Nat \ {0} /\ 1 .. call.end \subseteq Threads
      BY <1>2, ManagerAssumption DEF Threads
    <3>2. all \in Seq(Threads)
      BY <3>1, IsASeq
    <3>3. DOMAIN all = 1 .. call.end /\ \A i \in 1 .. call.end : all[i] = i
      OBVIOUS
    <3>4. ToSet(all) = 1 .. call.end /\ IsInjective(all)
      BY <3>3 DEF ToSet, IsInjective
    <3>5. 1 \in ToSet(all)
      BY <3>1, <3>4
    <3> QED
      BY <3>2, <3>4, <3>5, EmptyList
  <2> HIDE DEF all
  <2>3. \A s \in Systems : threads[s] = << >> /\ numThreads[s] = 0
    BY <1>1, <1>2 DEF ListsInv, ListInv, Running
  <2>4. Main \in Systems /\ Main \notin Locals
    BY ManagerAssumption DEF Systems
  <2>5. /\ threads' \in [Systems -> Seq(Threads)]
        /\ threads'[Main] = all /\ \A s \in Systems : s # Main => threads'[s] = << >>
    <3>1. threads[Main] \o all = all
      BY <2>2, <2>3, <2>4
    <3> QED
      BY <1>1, <2>1, <2>2, <2>3, <2>4, <3>1 DEF TypeOK
  <2>6. CallType'
    <3>1. all \in Seq(Threads \cup {NoThread})
      BY <2>2
    <3> QED
      BY <2>1, <3>1, IdleTyped DEF CallType, Frames, Places
  <2>7. /\ call'.at = "setData" /\ call'.then = "up" /\ call'.todo = all /\ call'.target = Main
        /\ call'.local = Main
    BY <2>1 DEF Idle
  <2>8. TypeOK'
    <3>1. DOMAIN call' = DOMAIN Idle /\ call'.at \in Places
      BY <2>6, CallTyped DEF CallType, Frames, Idle
    <3> QED
      BY <1>1, <1>2, <2>1, <2>4, <2>5, <3>1 DEF TypeOK, jobVars, workerVars
  <2>9. CallInv'
    BY <1>1, <1>2, <1>3, <2>2, <2>5, <2>6, <2>7 DEF CallInv, AddingOK, SpawningOK, At, Listed
  <2>10. LifeInv' /\ HandsInv'
    <3>1. \A s \in Locals : threads'[s] = << >>
      BY <2>4, <2>5 DEF Systems
    <3> QED
      BY <1>1, <1>2, <3>1 DEF LifeInv, HandsInv, Registered, workerVars
  <2>11. ListsInv'
    <3>1. \A s \in Systems : ListInv(s)'
      BY <1>1, <1>2, <2>2, <2>3, <2>5, <2>7, EmptyList
         DEF ListInv, ListsInv, Listed, Running, At, Registered
    <3>2. \A s, r \in Systems : \A t \in Listed(s)' \cap Listed(r)' : s = r
      BY <2>5, EmptyList DEF Listed
    <3>3. \A t \in Threads : handle'[t] # "none" => t \in Listed(Main)'
      <4>1. \A t \in Threads : handle[t] # "none" => t <= call.end
        BY <1>1, <1>2, <1>6, ManagerAssumption DEF CallInv, SpawningOK, Threads
      <4>2. \A t \in Threads : t <= call.end => t \in 1 .. call.end
        BY <1>2, ManagerAssumption DEF Threads
      <4> QED
        BY <1>2, <2>2, <2>5, <4>1, <4>2 DEF Listed
    <3> QED
      BY <2>2, <2>4, <2>5, <3>1, <3>2, <3>3 DEF ListsInv
  <2> QED
    BY <2>8, <2>9, <2>10, <2>11 DEF ManagerInv
<1> QED
  BY <1>2, <1>5, <1>6, ManagerAssumption DEF Threads

LEMMA SetThreadDataManagerInv ==
  ASSUME ManagerInv, SetThreadData
  PROVE  ManagerInv'
<1>1. TypeOK /\ CallInv /\ LifeInv /\ ListsInv /\ HandsInv
  BY DEF ManagerInv
<1> DEFINE t == Head(call.todo)
<1>2. /\ At("setData") /\ call.target \in Systems
      /\ userdata' = [userdata EXCEPT ![t] = call.target]
      /\ call' = [call EXCEPT !.todo = Tail(@)]
      /\ UNCHANGED <<phase, returned, handle, hasId, affinity, systemVars, shuttingDown,
                     jobVars, workerVars, fault>>
  BY <1>1 DEF SetThreadData, CallInv, CallType, Frames
<1>3. /\ Tail(call.todo) \in Seq(Threads \cup {NoThread})
      /\ ToSet(call.todo) = {t} \cup ToSet(Tail(call.todo))
  BY <1>1, HeadAndTail DEF SetThreadData, CallInv, CallType, Frames
<1>4. t \in Listed(call.target) /\ t \in Threads
  <2>1. t \in Listed(call.target)
    BY <1>1, <1>2, <1>3 DEF CallInv, AddingOK
  <2> QED
    BY <1>1, <1>2, <2>1, IndexOf DEF TypeOK, Listed
<1> HIDE DEF t
<1>5. CallType'
  BY <1>1, <1>2, <1>3 DEF CallInv, CallType, Frames
<1>6. /\ call'.at = "setData" /\ call'.target = call.target /\ call'.then = call.then
      /\ call'.local = call.local /\ call'.todo = Tail(call.todo)
  BY <1>1, <1>2 DEF CallInv, CallType, Frames, At
<1>7. TypeOK'
  <2>1. DOMAIN call' = DOMAIN Idle /\ call'.at \in Places
    BY <1>5, CallTyped DEF CallType, Frames, Idle
  <2> QED
    BY <1>1, <1>2, <1>4, <2>1 DEF TypeOK, systemVars, jobVars, workerVars
<1>8. CallInv'
  BY <1>1, <1>2, <1>3, <1>5, <1>6
     DEF CallInv, AddingOK, SpawningOK, At, Listed, Registered, systemVars
<1>9. LifeInv' /\ HandsInv'
  BY <1>1, <1>2 DEF LifeInv, HandsInv, Registered, systemVars, workerVars
<1>10. ListsInv'
  <2>1. ASSUME NEW s \in Systems PROVE ListInv(s)'
    <3>1. ListInv(s)
      BY <1>1 DEF ListsInv
    <3>2. ASSUME NEW r \in Listed(s)
          PROVE  \/ userdata'[r] = s
                 \/ s = call.target /\ r \in ToSet(Tail(call.todo))
                 \/ call.then = "remove" /\ s = call.local
      <4>1. CASE r = t /\ s = call.target
        BY <1>1, <1>2, <1>4, <4>1 DEF TypeOK
      <4>2. CASE r = t /\ s # call.target
        <5>1. call.then = "remove" /\ {s, call.target} = {Main, call.local}
          BY <1>1, <1>2, <1>4, <3>2, <4>2 DEF ListsInv
        <5>2. call.target = Main
          BY <1>1, <1>2, <5>1 DEF CallInv, AddingOK
        <5> QED
          BY <4>2, <5>1, <5>2
      <4>3. CASE r # t
        BY <1>1, <1>2, <1>3, <1>4, <3>1, <3>2, <4>3 DEF TypeOK, ListInv
      <4> QED
        BY <4>1, <4>2, <4>3
    <3> QED
      BY <1>2, <1>6, <3>1, <3>2 DEF ListInv, Listed, Running, At, Registered, systemVars
  <2>2. \A s, r \in Systems : \A x \in Listed(s)' \cap Listed(r)' :
          s = r \/ (call'.then = "remove" /\ {s, r} = {Main, call'.local})
    BY <1>1, <1>2, <1>6 DEF ListsInv, Listed, systemVars
  <2>3. Running' => /\ threads'[Main] # << >>
                    /\ \A x \in Threads : handle'[x] # "none" => \E s \in Systems : x \in Listed(s)'
    BY <1>1, <1>2, <1>6 DEF ListsInv, Listed, Running, systemVars
  <2> QED
    BY <2>1, <2>2, <2>3 DEF ListsInv
<1> QED
  BY <1>7, <1>8, <1>9, <1>10 DEF ManagerInv

LEMMA ThreadsAddedManagerInv ==
  ASSUME ManagerInv, ThreadsAdded
  PROVE  ManagerInv'
<1>1. TypeOK /\ CallInv /\ LifeInv /\ ListsInv /\ HandsInv
  BY DEF ManagerInv
<1>2. /\ At("setData") /\ call.target \in Systems /\ call.local \in Systems
      /\ ToSet(call.todo) = {}
      /\ call.then \in {"idle", "up", "register", "remove"}
      /\ numThreads' = [numThreads EXCEPT ![call.target] = Len(threads[call.target])]
      /\ UNCHANGED <<threadVars, mainIds, life, held, shuttingDown, jobVars, workerVars, fault>>
  BY <1>1, EmptyList DEF ThreadsAdded, CallInv, CallType, Frames
<1>3. \A s \in Systems : ListInv(s) /\ threads[s] \in Seq(Threads) /\ Len(threads[s]) \in 0 .. Hardware
  <2> SUFFICES ASSUME NEW s \in Systems
               PROVE  ListInv(s) /\ threads[s] \in Seq(Threads) /\ Len(threads[s]) \in 0 .. Hardware
    OBVIOUS
  <2>1. ListInv(s) /\ threads[s] \in Seq(Threads)
    BY <1>1 DEF ListsInv, TypeOK
  <2> QED
    BY <2>1, NoLongerThanThreads DEF ListInv
<1>4. /\ numThreads' \in [Systems -> 0 .. Hardware]
      /\ numThreads'[call.target] = Len(threads[call.target])
      /\ \A s \in Systems : s # call.target => numThreads'[s] = numThreads[s]
  BY <1>1, <1>2, <1>3 DEF TypeOK
<1>5. HandsInv'
  BY <1>1, <1>2 DEF HandsInv, workerVars
<1>6. CASE call.then = "remove"
  <2>1. /\ UNCHANGED <<phase, returned, jobSystems>>
        /\ threads' = [threads EXCEPT ![call.local] = << >>]
        /\ call' = [call EXCEPT !.at = "cancel", !.then = "idle"]
    BY <1>6 DEF ThreadsAdded
  <2>2. /\ call.local \in Locals /\ call.target = Main /\ call.local # Main
        /\ Listed(call.local) \subseteq Listed(Main) /\ Main \in Systems
    BY <1>1, <1>2, <1>6, ManagerAssumption DEF CallInv, AddingOK, Systems
  <2>3. CallType' /\ call'.at = "cancel" /\ call'.then = "idle" /\ call'.local = call.local
    BY <1>1, <2>1 DEF CallInv, CallType, Frames, Places
  <2>4. /\ threads' \in [Systems -> Seq(Threads)] /\ threads'[call.local] = << >>
        /\ \A s \in Systems : s # call.local => threads'[s] = threads[s]
    BY <1>1, <1>2, <2>1 DEF TypeOK
  <2>5. TypeOK'
    <3>1. DOMAIN call' = DOMAIN Idle /\ call'.at \in Places
      BY <2>3, CallTyped DEF CallType, Frames, Idle
    <3> QED
      BY <1>1, <1>2, <1>4, <2>1, <2>4, <3>1 DEF TypeOK, threadVars, jobVars, workerVars
  <2>6. CallInv'
    <3>1. phase # "spawning"
      BY <1>1, <1>2, <1>6 DEF CallInv, SpawningOK, At
    <3>2. UNCHANGED <<phase, handle, hasId>>
      BY <1>2, <2>1 DEF threadVars
    <3> QED
      BY <1>1, <2>2, <2>3, <3>1, <3>2 DEF CallInv, AddingOK, SpawningOK, At
  <2>7. LifeInv'
    <3>1. \A s \in Locals : life[s] = "none" => threads'[s] = << >> /\ numThreads'[s] = 0
      BY <1>1, <1>4, <2>2, <2>4, SMTT(40) DEF LifeInv, Systems
    <3> QED
      BY <1>1, <1>2, <2>1, <3>1 DEF LifeInv, Registered
  <2>8. ListsInv'
    <3>1. ASSUME NEW s \in Systems PROVE ListInv(s)'
      <4>1. CASE s = call.local
        <5>1. threads'[s] = << >> /\ numThreads'[s] = numThreads[s]
          BY <1>4, <2>2, <2>4, <4>1
        <5>2. Running' \/ phase' = "deleted" \/ numThreads'[s] = 0
          BY <1>3, <1>6, <2>1, <5>1 DEF ListInv, Running
        <5> QED
          BY <2>3, <4>1, <5>1, <5>2, EmptyList DEF ListInv, Listed, At
      <4>2. CASE s # call.local
        <5>1. threads'[s] = threads[s]
          BY <2>4, <4>2
        <5>2. \A x \in Listed(s) : userdata[x] = s
          BY <1>2, <1>3, <4>2 DEF ListInv
        <5>3. s = Main \/ Registered(s) => numThreads'[s] = Len(threads[s])
          BY <1>2, <1>3, <1>4, <4>2 DEF ListInv, At
        <5>4. Running' \/ phase' = "deleted" \/ (threads[s] = << >> /\ numThreads'[s] = 0)
          <6>1. Running' \/ phase' = "deleted" \/ (threads[s] = << >> /\ numThreads[s] = 0)
            BY <1>3, <1>6, <2>1 DEF ListInv, Running
          <6> QED
            BY <1>4, <6>1
        <5>5. IsInjective(threads[s]) /\ UNCHANGED <<userdata, jobSystems>>
          BY <1>2, <1>3, <2>1 DEF ListInv, threadVars
        <5> QED
          BY <5>1, <5>2, <5>3, <5>4, <5>5 DEF ListInv, Listed, Registered
      <4> QED
        BY <4>1, <4>2
    <3>2. \A s, r \in Systems : \A x \in Listed(s)' \cap Listed(r)' : s = r
      <4>1. \A s \in Systems : Listed(s)' = IF s = call.local THEN {} ELSE Listed(s)
        BY <2>4, EmptyList DEF Listed
      <4>2. \A s, r \in Systems : \A x \in Listed(s) \cap Listed(r) :
              s # call.local /\ r # call.local => s = r
        BY <1>1, <2>2 DEF ListsInv
      <4> QED
        BY <4>1, <4>2
    <3>3. Running' => /\ threads'[Main] # << >>
                      /\ \A x \in Threads : handle'[x] # "none" =>
                           \E s \in Systems : x \in Listed(s)'
      <4>1. Running' => Running
        BY <1>6, <2>1, <2>3 DEF Running
      <4>2. \A x \in Threads : (\E s \in Systems : x \in Listed(s))
              => \E s \in Systems : s # call.local /\ x \in Listed(s)
        BY <2>2
      <4> QED
        BY <1>1, <1>2, <2>2, <2>4, <4>1, <4>2 DEF ListsInv, Listed, threadVars
    <3> QED
      BY <3>1, <3>2, <3>3 DEF ListsInv
  <2> QED
    BY <1>5, <2>5, <2>6, <2>7, <2>8 DEF ManagerInv
<1>7. CASE call.then # "remove"
  <2>1. call' = Idle /\ UNCHANGED threads
    BY <1>7 DEF ThreadsAdded
  <2>2. CallType' /\ call'.at = "idle" /\ call'.then = "idle"
    BY <2>1, IdleTyped DEF CallType, Idle
  <2>3. /\ phase' = (IF call.then = "up" THEN "up" ELSE phase)
        /\ returned' \in ReturnCodes \cup {"none", "exception"}
    BY <1>1 DEF ThreadsAdded, ReturnCodes, TypeOK
  <2>4. /\ LifeInv' /\ jobSystems' \in Seq(Locals)
        /\ \A s \in Systems : Registered(s)' => Registered(s) \/ s = call.target
    <3>1. CASE call.then = "register"
      <4>1. /\ call.local \in Locals /\ call.target = call.local /\ life[call.local] = "alive"
            /\ ~ Registered(call.local) /\ jobSystems' = Append(jobSystems, call.local)
        BY <1>1, <1>2, <3>1 DEF CallInv, AddingOK, ThreadsAdded
      <4>2. /\ jobSystems' \in Seq(Locals) /\ IsInjective(jobSystems')
            /\ ToSet(jobSystems') = ToSet(jobSystems) \cup {call.local}
        <5>1. \A q \in Seq(Locals) : \A x \in Locals :
                /\ Append(q, x) \in Seq(Locals) /\ ToSet(Append(q, x)) = ToSet(q) \cup {x}
                /\ IsInjective(q) /\ x \notin ToSet(q) => IsInjective(Append(q, x))
          <6> SUFFICES ASSUME NEW q \in Seq(Locals), NEW x \in Locals
                       PROVE  /\ Append(q, x) \in Seq(Locals)
                              /\ ToSet(Append(q, x)) = ToSet(q) \cup {x}
                              /\ IsInjective(q) /\ x \notin ToSet(q) => IsInjective(Append(q, x))
            BY Zenon
          <6> QED
            BY ONLY Appending, q \in Seq(Locals), x \in Locals, Zenon
        <5>2. jobSystems \in Seq(Locals) /\ IsInjective(jobSystems)
          BY <1>1 DEF TypeOK, LifeInv
        <5> QED
          BY <4>1, <5>1, <5>2, Zenon DEF Registered
      <4>3. LifeInv'
        <5>1. \A s \in Locals : life[s] = "none" => threads[s] = << >> /\ numThreads'[s] = 0
          BY <1>1, <1>4, <4>1 DEF LifeInv, Systems
        <5>2. \A s \in Locals : s \in held \/ s \in ToSet(jobSystems') => life[s] = "alive"
          BY <1>1, <4>1, <4>2 DEF LifeInv, Registered
        <5> QED
          BY <1>2, <2>1, <4>2, <5>1, <5>2 DEF LifeInv, Registered
      <4> QED
        BY <4>1, <4>2, <4>3 DEF Registered
    <3>2. CASE call.then # "register"
      <4>1. UNCHANGED jobSystems
        BY <3>2 DEF ThreadsAdded
      <4>2. \A s \in Locals : life[s] = "none" => threads[s] = << >> /\ numThreads'[s] = 0
        BY <1>1, <1>4, EmptySeq DEF LifeInv, Systems
      <4>3. LifeInv'
        BY <1>1, <1>2, <2>1, <4>1, <4>2 DEF LifeInv, Registered
      <4> QED
        BY <1>1, <4>1, <4>3 DEF TypeOK, Registered
    <3> QED
      BY <3>1, <3>2
  <2>5. TypeOK'
    <3>1. DOMAIN call' = DOMAIN Idle /\ call'.at \in Places
      BY <2>2, CallTyped DEF CallType, Frames, Idle
    <3> QED
      BY <1>1, <1>2, <1>4, <2>1, <2>3, <2>4, <3>1 DEF TypeOK, threadVars, jobVars, workerVars
  <2>6. CallInv'
    <3>1. phase' # "spawning" /\ (phase' = "null" => phase = "null")
      BY <1>1, <1>2, <2>3 DEF CallInv, SpawningOK, At
    <3>2. UNCHANGED <<handle, hasId>>
      BY <1>2 DEF threadVars
    <3> QED
      BY <1>1, <2>2, <3>1, <3>2 DEF CallInv, AddingOK, SpawningOK, At
  <2>7. ListsInv'
    <3>1. Running' <=> Running
      BY <1>1, <1>2, <2>2, <2>3 DEF Running, CallInv, SpawningOK
    <3>2. phase = "deleted" => phase' = "deleted" \/ Running'
      BY <2>3, <3>1 DEF Running
    <3>3. ASSUME NEW s \in Systems PROVE ListInv(s)'
      <4>1. \A x \in Listed(s) : userdata[x] = s
        BY <1>2, <1>3, <1>7 DEF ListInv
      <4>2. s = Main \/ Registered(s)' => numThreads'[s] = Len(threads[s])
        BY <1>2, <1>3, <1>4, <2>4 DEF ListInv, At
      <4>3. Running' \/ phase' = "deleted" \/ (threads[s] = << >> /\ numThreads'[s] = 0)
        <5>1. Running' \/ phase' = "deleted" \/ (threads[s] = << >> /\ numThreads[s] = 0)
          BY <1>3, <3>1, <3>2 DEF ListInv
        <5> QED
          BY <1>4, <5>1, EmptySeq
      <4>4. IsInjective(threads[s]) /\ UNCHANGED <<userdata, threads>>
        BY <1>2, <1>3, <2>1 DEF ListInv, threadVars
      <4> QED
        BY <4>1, <4>2, <4>3, <4>4 DEF ListInv, Listed, Registered
    <3>4. \A s, r \in Systems : \A x \in Listed(s)' \cap Listed(r)' : s = r
      BY <1>1, <1>7, <2>1 DEF ListsInv, Listed
    <3>5. Running' => /\ threads'[Main] # << >>
                      /\ \A x \in Threads : handle'[x] # "none" =>
                           \E s \in Systems : x \in Listed(s)'
      BY <1>1, <1>2, <2>1, <3>1 DEF ListsInv, Listed, threadVars
    <3> QED
      BY <3>3, <3>4, <3>5 DEF ListsInv
  <2> QED
    BY <1>5, <2>4, <2>5, <2>6, <2>7 DEF ManagerInv
<1> QED
  BY <1>6, <1>7

\* Concatenation, for lists of threads.
IsJoined(q, u, w) ==
  /\ q \in Seq(Threads) /\ Len(q) = Len(u) + Len(w) /\ ToSet(q) = ToSet(u) \cup ToSet(w)
  /\ IsInjective(u) /\ IsInjective(w) /\ ToSet(u) \cap ToSet(w) = {} => IsInjective(q)

LEMMA Joining ==
  ASSUME NEW u \in Seq(Threads), NEW w \in Seq(Threads), NEW q, q = u \o w
  PROVE  IsJoined(q, u, w)
<1>1. IsJoined(u \o w, u, w)
  BY ONLY Concatenation, u \in Seq(Threads), w \in Seq(Threads), ZenonT(60) DEF IsJoined
<1> QED
  BY <1>1, Zenon

\* The threads of s go back to the main system, and stay in the list of s for a while.
LEMMA BeginReleaseManagerInv ==
  ASSUME ManagerInv, NEW s \in Locals, NEW frame \in Frames, BeginRelease(s, frame),
         frame.then = "idle", call.then = "idle", ~ At("setData"), ~ Releasing,
         phase # "spawning",
         UNCHANGED <<phase, returned, threadVars, numThreads, mainIds, jobSystems, life, held,
                     shuttingDown, jobVars, workerVars, fault>>
  PROVE  ManagerInv'
<1>1. TypeOK /\ CallInv /\ LifeInv /\ ListsInv /\ HandsInv
  BY DEF ManagerInv
<1>2. s \in Systems /\ Main \in Systems /\ s # Main
  BY ManagerAssumption DEF Systems
<1>3. /\ threads' = [threads EXCEPT ![Main] = @ \o threads[s]]
      /\ call' = [frame EXCEPT !.at = "setData", !.target = Main, !.todo = threads[s],
                               !.then = "remove", !.local = s]
  BY DEF BeginRelease
<1>4. \A r \in Systems :
        /\ threads[r] \in Seq(Threads) /\ IsInjective(threads[r])
        /\ \A x \in Listed(r) : userdata[x] = r
        /\ r = Main \/ Registered(r) => numThreads[r] = Len(threads[r])
        /\ Running \/ phase = "deleted" \/ (threads[r] = << >> /\ numThreads[r] = 0)
  BY <1>1 DEF TypeOK, ListsInv, ListInv, Releasing
<1>5. \A r, q \in Systems : \A x \in Listed(r) \cap Listed(q) : r = q
  BY <1>1 DEF ListsInv
<1>6. PICK joined : joined = threads[Main] \o threads[s]
  OBVIOUS
<1>7. /\ joined \in Seq(Threads) /\ ToSet(joined) = Listed(Main) \cup Listed(s)
      /\ IsInjective(joined) /\ Len(joined) = Len(threads[Main]) + Len(threads[s])
  <2>1. ToSet(threads[Main]) \cap ToSet(threads[s]) = {}
    BY <1>2, <1>5 DEF Listed
  <2>2. /\ threads[Main] \in Seq(Threads) /\ IsInjective(threads[Main])
        /\ threads[s] \in Seq(Threads) /\ IsInjective(threads[s])
    BY <1>2, <1>4
  <2>3. IsJoined(joined, threads[Main], threads[s])
    BY ONLY <1>6, <2>2, Joining, Zenon
  <2> QED
    BY ONLY <2>1, <2>2, <2>3 DEF Listed, IsJoined
<1>8. /\ threads' \in [Systems -> Seq(Threads)] /\ threads'[Main] = joined
      /\ \A r \in Systems : r # Main => threads'[r] = threads[r]
  <2>1. threads' = [threads EXCEPT ![Main] = joined]
    BY <1>3, <1>6, Zenon
  <2> QED
    BY <1>1, <1>2, <1>7, <2>1 DEF TypeOK
<1>9. /\ Listed(Main)' = Listed(Main) \cup Listed(s)
      /\ \A r \in Systems : r # Main => Listed(r)' = Listed(r)
  BY <1>7, <1>8 DEF Listed
<1>10. CallType'
  <2>1. threads[s] \in Seq(Threads \cup {NoThread})
    BY <1>2, <1>4
  <2> QED
    BY <1>2, <1>3, <2>1 DEF CallType, Frames, Places
<1>11. /\ call'.at = "setData" /\ call'.then = "remove" /\ call'.target = Main
       /\ call'.local = s /\ call'.todo = threads[s]
  BY <1>3 DEF Frames
<1>12. TypeOK'
  <2>1. DOMAIN call' = DOMAIN Idle /\ call'.at \in Places
    BY <1>10, CallTyped DEF CallType, Frames, Idle
  <2> QED
    BY <1>1, <1>8, <2>1 DEF TypeOK, threadVars, jobVars, workerVars
<1>13. CallInv'
  <2>1. ToSet(call'.todo) \subseteq Listed(Main)'
    BY <1>9, <1>11 DEF Listed
  <2>2. Listed(s)' \subseteq Listed(Main)'
    BY <1>2, <1>9
  <2> QED
    BY <1>1, <1>10, <1>11, <2>1, <2>2 DEF CallInv, AddingOK, SpawningOK, At, threadVars
<1>14. LifeInv'
  BY <1>1, <1>2, <1>8, ManagerAssumption DEF LifeInv, Registered, Systems
<1>15. ListsInv'
  <2>1. Running' <=> Running
    BY <1>11 DEF Running
  <2>2. ASSUME NEW r \in Systems PROVE ListInv(r)'
    <3>1. IsInjective(threads'[r])
      BY <1>4, <1>7, <1>8
    <3>2. \A x \in Listed(r)' : \/ userdata[x] = r
                                \/ r = Main /\ x \in ToSet(threads[s])
      BY <1>2, <1>4, <1>9 DEF Listed
    <3>3. r = Main \/ Registered(r) => r = Main \/ numThreads[r] = Len(threads'[r])
      BY <1>4, <1>8
    <3>4. Running \/ phase = "deleted" \/ (threads'[r] = << >> /\ numThreads[r] = 0)
      <4>1. threads[Main] = << >> /\ threads[s] = << >> => joined = << >>
        BY <1>2, <1>7, EmptyIf DEF Listed
      <4> QED
        BY <1>2, <1>4, <1>8, <4>1
    <3> QED
      BY <1>11, <2>1, <3>1, <3>2, <3>3, <3>4 DEF ListInv, Registered, At, threadVars
  <2>3. \A r, q \in Systems : \A x \in Listed(r)' \cap Listed(q)' :
          r = q \/ {r, q} = {Main, s}
    BY <1>2, <1>5, <1>9
  <2>4. Running' => /\ threads'[Main] # << >>
                    /\ \A x \in Threads : handle'[x] # "none" => \E r \in Systems : x \in Listed(r)'
    <3>1. Running' => /\ threads[Main] # << >>
                      /\ \A x \in Threads : handle[x] # "none" => \E r \in Systems : x \in Listed(r)
      BY <1>1, <2>1 DEF ListsInv
    <3>2. threads[Main] # << >> => joined # << >>
      BY <1>2, <1>4, <1>7, EmptyIf DEF Listed
    <3>3. \A r \in Systems : Listed(r) \subseteq Listed(r)'
      BY <1>9
    <3> QED
      BY <1>8, <3>1, <3>2, <3>3 DEF threadVars
  <2> QED
    BY <1>11, <2>2, <2>3, <2>4 DEF ListsInv
<1>16. HandsInv'
  BY <1>1 DEF HandsInv, workerVars
<1> QED
  BY <1>12, <1>13, <1>14, <1>15, <1>16 DEF ManagerInv

LEMMA ReleaseJobSystemManagerInv ==
  ASSUME ManagerInv, NEW s \in Locals, ReleaseJobSystem(s)
  PROVE  ManagerInv'
<1>1. CallInv
  BY DEF ManagerInv
<1>2. phase # "spawning" /\ call.then = "idle" /\ ~ At("setData") /\ ~ Releasing
  BY <1>1 DEF ReleaseJobSystem, CallInv, SpawningOK, At, Releasing
<1>3. Idle \in Frames /\ Idle.then = "idle"
  BY IdleTyped DEF Idle
<1>4. BeginRelease(s, Idle)
  BY DEF ReleaseJobSystem
<1> QED
  BY <1>2, <1>3, <1>4, BeginReleaseManagerInv DEF ReleaseJobSystem

LEMMA ReleaseSlotManagerInv ==
  ASSUME ManagerInv, ReleaseSlot
  PROVE  ManagerInv'
<1>1. CallInv /\ TypeOK
  BY DEF ManagerInv
<1>2. CASE call.slot > Len(jobSystems)
  BY <1>2, FaultManagerInv DEF ReleaseSlot, Faults
<1>3. CASE call.slot <= Len(jobSystems) /\ Debug /\ jobSystems[call.slot] \in held
  <2>1. ~ (call.slot > Len(jobSystems))
    BY <1>1, <1>3 DEF CallInv, CallType, Frames, TypeOK
  <2> QED
    BY <1>3, <2>1, FaultManagerInv DEF ReleaseSlot, Faults
<1>4. CASE ~ (call.slot > Len(jobSystems)) /\ ~ (Debug /\ jobSystems[call.slot] \in held)
  <2> DEFINE frame == [call EXCEPT !.slot = @ + 1]
  <2>1. /\ BeginRelease(jobSystems[call.slot], frame)
        /\ UNCHANGED <<phase, returned, threadVars, numThreads, mainIds, jobSystems,
                       life, held, shuttingDown, jobVars, workerVars, fault>>
    BY <1>4 DEF ReleaseSlot
  <2>2. frame \in Frames /\ frame.then = call.then
    BY <1>1, SMTT(40) DEF CallInv, CallType, Frames
  <2>3. jobSystems[call.slot] \in Locals
    BY <1>1, <1>4 DEF CallInv, CallType, Frames, TypeOK
  <2>4. phase # "spawning" /\ call.then = "idle" /\ ~ At("setData") /\ ~ Releasing
    BY <1>1 DEF ReleaseSlot, CallInv, SpawningOK, At, Releasing
  <2> HIDE DEF frame
  <2> QED
    BY <2>1, <2>2, <2>3, <2>4, BeginReleaseManagerInv
<1>5. Len(jobSystems) \in Nat /\ call.slot \in Nat
  BY <1>1 DEF CallInv, CallType, Frames, TypeOK
<1> QED
  BY <1>2, <1>3, <1>4, <1>5

\* The first threads of the main system go to s, which may be the main system.
LEMMA MoveThreadsManagerInv ==
  ASSUME ManagerInv, NEW s \in Systems, NEW n \in 0 .. Hardware, MayReserve(n),
         NEW then \in {"idle", "register"}, MoveThreads(s, n, then),
         At("idle"), phase # "deleted",
         life' \in [Locals -> {"none", "alive", "destroyed"}],
         s \in Locals => life'[s] = "alive",
         \A r \in Locals : r # s => life'[r] = life[r],
         held' \subseteq Locals, held' \subseteq held \cup {s}, mainIds' \subseteq Systems,
         then = "register" => s \in Locals /\ ~ Registered(s),
         UNCHANGED <<phase, returned, threadVars, jobSystems, shuttingDown, jobVars, workerVars,
                     fault>>
  PROVE  ManagerInv'
<1>1. TypeOK /\ CallInv /\ LifeInv /\ ListsInv /\ HandsInv
  BY DEF ManagerInv
<1>2. Main \in Systems /\ Main \notin Locals /\ Hardware \in Nat /\ n \in Nat /\ call.then = "idle"
  BY <1>1, ManagerAssumption DEF Systems, CallInv, At
<1>3. \A r \in Systems :
        /\ threads[r] \in Seq(Threads) /\ IsInjective(threads[r])
        /\ \A x \in Listed(r) : userdata[x] = r
        /\ r = Main \/ Registered(r) => numThreads[r] = Len(threads[r])
        /\ Running \/ (threads[r] = << >> /\ numThreads[r] = 0)
  BY <1>1, <1>2 DEF TypeOK, ListsInv, ListInv, Releasing, At
<1>4. \A r, q \in Systems : \A x \in Listed(r) \cap Listed(q) : r = q
  BY <1>1, <1>2 DEF ListsInv
<1>5. /\ Len(threads[Main]) \in Nat /\ n < Len(threads[Main]) /\ n \in 0 .. Len(threads[Main])
      /\ numThreads[Main] = Len(threads[Main]) /\ numThreads[Main] \in 0 .. Hardware
  BY <1>1, <1>2, <1>3 DEF MayReserve, TypeOK
<1>6. phase = "up" /\ Running
  BY <1>2, <1>3, <1>5 DEF Running
<1>7. PICK first : first = SubSeq(threads[Main], 1, n)
  OBVIOUS
<1>8. PICK rest : rest = SubSeq(threads[Main], n + 1, Len(threads[Main]))
  OBVIOUS
<1>9. Halves(Threads, threads[Main], first, rest) /\ Len(first) = n
  <2>1. threads[Main] \in Seq(Threads) /\ IsInjective(threads[Main])
    BY <1>2, <1>3
  <2>2. n \in 0 .. Len(threads[Main])
    BY <1>5
  <2>3. \A A, q : q \in Seq(A) /\ IsInjective(q) =>
          \A k \in 0 .. Len(q) : \A u, w :
            u = SubSeq(q, 1, k) /\ w = SubSeq(q, k + 1, Len(q)) => Halves(A, q, u, w)
    BY ONLY Splitting, Zenon
  <2>4. \A k \in 0 .. Len(threads[Main]) : \A u, w :
          u = SubSeq(threads[Main], 1, k) /\ w = SubSeq(threads[Main], k + 1, Len(threads[Main]))
            => Halves(Threads, threads[Main], u, w)
    BY ONLY <2>1, <2>3, Zenon
  <2>5. Halves(Threads, threads[Main], first, rest)
    BY ONLY <1>7, <1>8, <2>2, <2>4, Zenon
  <2>6. Len(first) = n
    BY ONLY <1>2, <1>5, <1>7, <2>1
  <2> QED
    BY <2>5, <2>6
<1>10. /\ first \in Seq(Threads) /\ rest \in Seq(Threads)
       /\ IsInjective(first) /\ IsInjective(rest)
       /\ ToSet(first) \cup ToSet(rest) = Listed(Main)
       /\ ToSet(first) \cap ToSet(rest) = {}
       /\ n + Len(rest) = Len(threads[Main]) /\ Len(rest) \in Nat
  BY ONLY <1>9 DEF Halves, Listed
<1> DEFINE old == IF s = Main THEN rest ELSE threads[s]
<1>11. PICK joined : joined = old \o first
  OBVIOUS
<1>12. /\ joined \in Seq(Threads) /\ IsInjective(joined)
       /\ ToSet(joined) = ToSet(old) \cup ToSet(first)
  <2>1. ToSet(old) \cap ToSet(first) = {}
    BY <1>2, <1>4, <1>10 DEF Listed
  <2>2. old \in Seq(Threads) /\ IsInjective(old)
    BY <1>3, <1>10
  <2> HIDE DEF old
  <2>3. IsJoined(joined, old, first)
    BY ONLY <1>10, <1>11, <2>2, Joining, Zenon
  <2> QED
    BY ONLY <1>10, <2>1, <2>2, <2>3 DEF IsJoined
<1>13. /\ threads' = [[threads EXCEPT ![Main] = rest] EXCEPT ![s] = @ \o first]
       /\ numThreads' = [numThreads EXCEPT ![Main] = @ - n]
       /\ call' = [Idle EXCEPT !.at = "setData", !.target = s, !.todo = first,
                               !.then = then, !.local = s]
  <2>1. /\ threads' = [[threads EXCEPT ![Main] = SubSeq(@, n + 1, Len(@))]
                         EXCEPT ![s] = @ \o SubSeq(threads[Main], 1, n)]
        /\ numThreads' = [numThreads EXCEPT ![Main] = @ - n]
        /\ call' = [Idle EXCEPT !.at = "setData", !.target = s,
                                !.todo = SubSeq(threads[Main], 1, n),
                                !.then = then, !.local = s]
    BY Zenon DEF MoveThreads
  <2> QED
    BY ONLY <1>7, <1>8, <2>1, Zenon
<1>14. /\ threads' \in [Systems -> Seq(Threads)] /\ threads'[s] = joined
       /\ s # Main => threads'[Main] = rest
       /\ \A r \in Systems : r # s /\ r # Main => threads'[r] = threads[r]
  <2>1. threads \in [Systems -> Seq(Threads)]
    BY <1>1 DEF TypeOK
  <2>2. PICK main : main = [threads EXCEPT ![Main] = rest]
    OBVIOUS
  <2>3. main \in [Systems -> Seq(Threads)] /\ main[s] = old
        /\ main[Main] = rest /\ \A r \in Systems : r # Main => main[r] = threads[r]
    BY ONLY <1>2, <1>10, <2>1, <2>2, s \in Systems
  <2>4. threads' = [main EXCEPT ![s] = joined]
    <3>1. threads' = [main EXCEPT ![s] = main[s] \o first]
      BY ONLY <1>13, <2>2, <2>3, Zenon
    <3> HIDE DEF old
    <3> QED
      BY ONLY <1>11, <2>3, <3>1, Zenon
  <2> QED
    BY ONLY <1>12, <2>3, <2>4, s \in Systems
<1> HIDE DEF old
<1>15. /\ numThreads' \in [Systems -> 0 .. Hardware]
       /\ numThreads'[Main] = Len(rest)
       /\ \A r \in Systems : r # Main => numThreads'[r] = numThreads[r]
  <2>1. numThreads[Main] - n = Len(rest) /\ Len(rest) \in 0 .. Hardware
    BY ONLY <1>2, <1>5, <1>10
  <2> QED
    BY <1>1, <1>2, <1>13, <2>1 DEF TypeOK
<1>16. /\ s = Main => Listed(Main)' = Listed(Main)
       /\ s # Main => Listed(Main)' = ToSet(rest) /\ Listed(s)' = Listed(s) \cup ToSet(first)
       /\ \A r \in Systems : r # s /\ r # Main => Listed(r)' = Listed(r)
  BY ONLY <1>10, <1>12, <1>14 DEF Listed, old
<1>17. /\ CallType' /\ call'.at = "setData" /\ call'.then = then /\ call'.target = s
       /\ call'.local = s /\ call'.todo = first
  <2>1. first \in Seq(Threads \cup {NoThread})
    BY <1>10
  <2> QED
    BY <1>13, <2>1, IdleTyped DEF CallType, Frames, Places
<1>18. TypeOK'
  <2>1. DOMAIN call' = DOMAIN Idle /\ call'.at \in Places
    BY <1>17, CallTyped DEF CallType, Frames, Idle
  <2> QED
    BY <1>1, <1>14, <1>15, <2>1 DEF TypeOK, threadVars, jobVars, workerVars
<1>19. CallInv'
  <2>1. ToSet(first) \subseteq Listed(s)'
    BY <1>10, <1>16
  <2>2. s \in Locals /\ then = "register" => life'[s] = "alive" /\ ~ Registered(s)
    OBVIOUS
  <2> QED
    BY <1>6, <1>1, <1>17, <2>1, <2>2
       DEF CallInv, AddingOK, SpawningOK, At, Registered, threadVars
<1>20. LifeInv'
  <2>1. \A r \in Locals : life'[r] = "none" => threads'[r] = << >> /\ numThreads'[r] = 0
    BY <1>1, <1>2, <1>14, <1>15 DEF LifeInv, Systems
  <2>2. \A r \in Locals : r \in held' \/ Registered(r) => life'[r] = "alive"
    BY <1>1 DEF LifeInv
  <2> QED
    BY <1>1, <2>1, <2>2 DEF LifeInv, Registered
<1>21. ListsInv'
  <2>1. ASSUME NEW r \in Systems PROVE ListInv(r)'
    <3>1. IsInjective(threads'[r])
      BY <1>3, <1>10, <1>12, <1>14
    <3>2. \A x \in Listed(r)' : userdata[x] = r \/ (r = s /\ x \in ToSet(first))
      <4>1. CASE r = s
        BY <1>2, <1>3, <1>10, <1>16, <4>1
      <4>2. CASE r # s
        BY <1>2, <1>3, <1>10, <1>16, <4>2
      <4> QED
        BY <4>1, <4>2
    <3>3. r = Main \/ Registered(r) => r = s \/ numThreads'[r] = Len(threads'[r])
      BY <1>3, <1>14, <1>15
    <3> QED
      BY <1>6, <1>17, <3>1, <3>2, <3>3 DEF ListInv, Registered, Running, At, threadVars
  <2>2. \A r, q \in Systems : \A x \in Listed(r)' \cap Listed(q)' : r = q
    <3>1. ToSet(first) \subseteq Listed(Main) /\ ToSet(rest) \subseteq Listed(Main)
      BY <1>10
    <3> QED
      BY <1>2, <1>4, <1>10, <1>16, <3>1
  <2>3. threads'[Main] # << >>
    <3>1. rest # << >>
      BY ONLY <1>5, <1>10, EmptySeq
    <3>2. joined = << >> => old = << >>
      <4>1. joined = << >> => ToSet(old) = {}
        BY <1>12, EmptyList
      <4>2. old \in Seq(Threads)
        BY <1>3, <1>10 DEF old
      <4> QED
        BY ONLY <4>1, <4>2, EmptyIf
    <3> QED
      BY <1>14, <3>1, <3>2 DEF old
  <2>4. \A x \in Threads : handle'[x] # "none" => \E r \in Systems : x \in Listed(r)'
    <3>1. \A x \in Threads : handle[x] # "none" => \E r \in Systems : x \in Listed(r)
      BY <1>1, <1>6 DEF ListsInv
    <3>2. \A r \in Systems : \A x \in Listed(r) : \E q \in Systems : x \in Listed(q)'
      BY <1>2, <1>10, <1>16
    <3> QED
      BY <3>1, <3>2 DEF threadVars
  <2> QED
    BY <2>1, <2>2, <2>3, <2>4 DEF ListsInv
<1>22. HandsInv'
  BY <1>1 DEF HandsInv, workerVars
<1> QED
  BY <1>18, <1>19, <1>20, <1>21, <1>22 DEF ManagerInv

LEMMA ReseveThreadsManagerInv ==
  ASSUME ManagerInv, NEW s \in Systems, NEW n \in 0 .. Hardware, ReseveThreads(s, n),
         phase # "deleted"
  PROVE  ManagerInv'
<1>1. TypeOK /\ CallInv /\ LifeInv /\ ListsInv /\ HandsInv
  BY DEF ManagerInv
<1>2. /\ At("idle")
      /\ UNCHANGED <<phase, returned, threadVars, mainIds, jobSystems, life, held,
                     shuttingDown, jobVars, workerVars, fault>>
  BY DEF ReseveThreads
<1>3. CASE MayReserve(n)
  <2>1. MoveThreads(s, n, "idle")
    BY <1>3 DEF ReseveThreads
  <2>2. /\ life' \in [Locals -> {"none", "alive", "destroyed"}]
        /\ s \in Locals => life'[s] = "alive"
        /\ \A r \in Locals : r # s => life'[r] = life[r]
        /\ held' \subseteq Locals /\ held' \subseteq held \cup {s} /\ mainIds' \subseteq Systems
    BY <1>1, <1>2, ManagerAssumption DEF TypeOK, LifeInv, ReseveThreads
  <2>3. "idle" \in {"idle", "register"} /\ "idle" # "register"
    OBVIOUS
  <2>4. UNCHANGED <<phase, returned, threadVars, jobSystems, shuttingDown, jobVars, workerVars,
                    fault>>
    BY <1>2
  <2> QED
    BY <1>2, <1>3, <2>1, <2>2, <2>3, <2>4, MoveThreadsManagerInv, Zenon
<1>4. CASE ~ MayReserve(n)
  <2>1. UNCHANGED <<threads, numThreads, call>>
    BY <1>4 DEF ReseveThreads
  <2>2. TypeOK' /\ HandsInv' /\ LifeInv'
    BY <1>1, <1>2, <2>1
       DEF TypeOK, HandsInv, LifeInv, Registered, threadVars, jobVars, workerVars
  <2>3. CallInv'
    BY <1>1, <1>2, <2>1
       DEF CallInv, CallType, AddingOK, SpawningOK, At, Listed, Registered, threadVars
  <2>4. ListsInv'
    BY <1>1, <1>2, <2>1 DEF ListsInv, ListInv, Running, At, Listed, Registered, threadVars
  <2> QED
    BY <2>2, <2>3, <2>4 DEF ManagerInv
<1> QED
  BY <1>3, <1>4

LEMMA CreateLocalJobSystemManagerInv ==
  ASSUME ManagerInv, NEW s \in Locals, NEW n \in 0 .. Hardware, CreateLocalJobSystem(s, n),
         phase # "deleted"
  PROVE  ManagerInv'
<1>1. TypeOK /\ CallInv /\ LifeInv /\ ListsInv /\ HandsInv
  BY DEF ManagerInv
<1>2. /\ At("idle") /\ life[s] = "none" /\ s \in Systems
      /\ life' = [life EXCEPT ![s] = "alive"] /\ held' = held \cup {s}
      /\ mainIds' \subseteq Systems
      /\ UNCHANGED <<phase, returned, threadVars, shuttingDown, jobVars, workerVars, fault>>
  BY <1>1 DEF CreateLocalJobSystem, TypeOK, Systems
<1>3. /\ life' \in [Locals -> {"none", "alive", "destroyed"}] /\ life'[s] = "alive"
      /\ \A r \in Locals : r # s => life'[r] = life[r]
      /\ held' \subseteq Locals /\ ~ Registered(s)
  BY <1>1, <1>2 DEF TypeOK, LifeInv
<1>4. CASE MayReserve(n)
  <2>1. MoveThreads(s, n, "register") /\ UNCHANGED jobSystems
    BY <1>4 DEF CreateLocalJobSystem
  <2>2. "register" \in {"idle", "register"} /\ held' \subseteq held \cup {s}
    BY <1>2
  <2>3. UNCHANGED <<phase, returned, threadVars, jobSystems, shuttingDown, jobVars, workerVars,
                    fault>>
    BY <1>2, <2>1
  <2> QED
    BY <1>2, <1>3, <1>4, <2>1, <2>2, <2>3, MoveThreadsManagerInv, Zenon
<1>5. CASE ~ MayReserve(n)
  <2>1. jobSystems' = Append(jobSystems, s) /\ UNCHANGED <<threads, numThreads, call>>
    BY <1>5 DEF CreateLocalJobSystem
  <2>2. /\ jobSystems' \in Seq(Locals) /\ IsInjective(jobSystems')
        /\ ToSet(jobSystems') = ToSet(jobSystems) \cup {s}
    <3>1. \A q \in Seq(Locals) : \A x \in Locals :
            /\ Append(q, x) \in Seq(Locals) /\ ToSet(Append(q, x)) = ToSet(q) \cup {x}
            /\ IsInjective(q) /\ x \notin ToSet(q) => IsInjective(Append(q, x))
      <4> SUFFICES ASSUME NEW q \in Seq(Locals), NEW x \in Locals
                   PROVE  /\ Append(q, x) \in Seq(Locals)
                          /\ ToSet(Append(q, x)) = ToSet(q) \cup {x}
                          /\ IsInjective(q) /\ x \notin ToSet(q) => IsInjective(Append(q, x))
        BY Zenon
      <4> QED
        BY ONLY Appending, q \in Seq(Locals), x \in Locals, Zenon
    <3>2. jobSystems \in Seq(Locals) /\ IsInjective(jobSystems)
      BY <1>1 DEF TypeOK, LifeInv
    <3> QED
      BY <1>3, <2>1, <3>1, <3>2, Zenon DEF Registered
  <2>3. TypeOK' /\ HandsInv'
    BY <1>1, <1>2, <1>3, <2>1, <2>2 DEF TypeOK, HandsInv, threadVars, jobVars, workerVars
  <2>4. CallInv'
    BY <1>1, <1>2, <2>1 DEF CallInv, CallType, AddingOK, SpawningOK, At, threadVars
  <2>5. LifeInv'
    <3>1. \A r \in Locals : life'[r] = "none" => threads[r] = << >> /\ numThreads[r] = 0
      BY <1>1, <1>3 DEF LifeInv
    <3>2. \A r \in Locals : r \in held' \/ r \in ToSet(jobSystems') => life'[r] = "alive"
      BY <1>1, <1>2, <1>3, <2>2 DEF LifeInv, Registered
    <3> QED
      BY <2>1, <2>2, <3>1, <3>2 DEF LifeInv, Registered
  <2>6. ListsInv'
    <3>1. call.then = "idle" /\ ~ Releasing
      BY <1>1, <1>2 DEF CallInv, At, Releasing
    <3>2. numThreads[s] = Len(threads[s])
      BY <1>1, <1>2, EmptySeq DEF LifeInv
    <3>3. \A r \in Systems : Registered(r)' => Registered(r) \/ numThreads[r] = Len(threads[r])
      BY <2>2, <3>2 DEF Registered
    <3> QED
      BY <1>1, <1>2, <2>1, <3>1, <3>3, ListsKept DEF Running, At, Releasing, threadVars
  <2> QED
    BY <2>3, <2>4, <2>5, <2>6 DEF ManagerInv
<1> QED
  BY <1>4, <1>5

------------------------------------------------------------------------------
(* Every behaviour                                                          *)

LEMMA MainManagerInv ==
  ASSUME ManagerInv, NEW mayFail \in BOOLEAN, MainStep(mayFail)
  PROVE  ManagerInv'
<1>1. CASE Spawn \/ SpawnThrows \/ StoreId
  BY <1>1, SpawnManagerInv, SpawnThrowsManagerInv, StoreIdManagerInv
<1>2. CASE SetThreadData \/ ThreadsAdded
  BY <1>2, SetThreadDataManagerInv, ThreadsAddedManagerInv
<1>3. CASE (\E j \in Jobs : CancelJob(j)) \/ UnlockCanceled \/ QueueCleared
  BY <1>3, CancelJobManagerInv, UnlockCanceledManagerInv, QueueClearedManagerInv
<1>4. CASE EraseSystem \/ EraseEnd
  BY <1>4, EraseSystemManagerInv, FaultManagerInv DEF EraseEnd, Faults
<1>5. CASE ShutdownSystem \/ Join \/ SystemIsDown \/ ShutdownReturns
  BY <1>5, ShutdownSystemManagerInv, JoinManagerInv, SystemIsDownManagerInv,
     ShutdownReturnsManagerInv
<1>6. CASE ReleaseSlot \/ SlotsReleased \/ DeleteThreads
  BY <1>6, ReleaseSlotManagerInv, SlotsReleasedManagerInv, DeleteThreadsManagerInv
<1> QED
  BY <1>1, <1>2, <1>3, <1>4, <1>5, <1>6 DEF MainStep

LEMMA ClientManagerInv ==
  ASSUME ManagerInv, NEW calls, Client(calls), phase # "deleted"
  PROVE  ManagerInv'
<1>1. CASE \E n \in 0 .. Hardware + 1 : InitManager(n)
  BY <1>1, InitManagerInv
<1>2. CASE \E s \in Locals, n \in 0 .. Hardware : CreateLocalJobSystem(s, n)
  BY <1>2, CreateLocalJobSystemManagerInv
<1>3. CASE \E s \in Systems, n \in 0 .. Hardware : ReseveThreads(s, n)
  BY <1>3, ReseveThreadsManagerInv
<1>4. CASE \E s \in Locals : ReleaseJobSystem(s)
  BY <1>4, ReleaseJobSystemManagerInv
<1>5. CASE \E s \in Systems, j \in Jobs : ScheduleJob(s, j)
  BY <1>5, ScheduleJobManagerInv
<1>6. CASE \E s \in Locals : Drop(s)
  BY <1>6, DropManagerInv
<1>7. CASE \E blocking \in BOOLEAN : Shutdown(blocking)
  BY <1>7, ShutdownManagerInv
<1>8. CASE DestroyManager
  BY <1>8, DestroyManagerInv
<1> QED
  BY <1>1, <1>2, <1>3, <1>4, <1>5, <1>6, <1>7, <1>8, Zenon DEF Client

LEMMA NextManagerInv ==
  ASSUME ManagerInv, NEW calls, NEW mayFail \in BOOLEAN, NextWith(calls, mayFail)
  PROVE  ManagerInv'
<1>1. CASE phase # "deleted" /\ Client(calls)
  BY <1>1, ClientManagerInv
<1>2. CASE MainStep(mayFail)
  BY <1>2, MainManagerInv
<1>3. CASE \E t \in Threads : WorkerStep(t)
  BY <1>3, WorkerManagerInv
<1> QED
  BY <1>1, <1>2, <1>3 DEF NextWith

LEMMA StutterManagerInv ==
  ASSUME ManagerInv, UNCHANGED vars
  PROVE  ManagerInv'
<1>1. TypeOK' /\ HandsInv' /\ LifeInv'
  BY DEF ManagerInv, TypeOK, HandsInv, LifeInv, Registered, vars, threadVars, systemVars,
         jobVars, workerVars
<1>2. CallInv'
  BY DEF ManagerInv, CallInv, CallType, AddingOK, SpawningOK, At, Listed, Registered, vars,
         threadVars, systemVars
<1>3. ListsInv'
  BY DEF ManagerInv, ListsInv, ListInv, Running, At, Listed, Registered, vars, threadVars,
         systemVars
<1> QED
  BY <1>1, <1>2, <1>3 DEF ManagerInv

LEMMA InitManagerInvHolds ==
  ASSUME Init
  PROVE  ManagerInv
<1>1. /\ call = Idle /\ Idle \in Frames /\ call.at = "idle" /\ call.then = "idle"
      /\ Main \in Systems /\ ManagerAssumption
  BY IdleTyped, ManagerAssumption DEF Init, Idle, Systems
<1>2. TypeOK
  <2>1. DOMAIN call = DOMAIN Idle /\ call.at \in Places
    BY <1>1 DEF Places
  <2>2. /\ threads \in [Systems -> Seq(Threads)] /\ numThreads \in [Systems -> 0 .. Hardware]
        /\ jobSystems \in Seq(Locals)
    BY <1>1, EmptySeq DEF Init, ManagerAssumption
  <2> QED
    BY <2>1, <2>2 DEF Init, TypeOK, ReturnCodes, Faults
<1>3. CallInv
  BY <1>1 DEF Init, CallInv, CallType, AddingOK, SpawningOK, At
<1>4. LifeInv
  BY EmptyList, <1>1 DEF Init, LifeInv, Registered, Systems
<1>5. ListsInv
  <2>1. \A s \in Systems : threads[s] = << >> /\ numThreads[s] = 0
    BY DEF Init
  <2>2. ~ Running
    BY <1>1 DEF Init, Running
  <2> QED
    BY <2>1, <2>2, EmptyList, EmptySeq DEF ListsInv, ListInv, Listed
<1>6. HandsInv
  BY DEF Init, HandsInv
<1> QED
  BY <1>2, <1>3, <1>4, <1>5, <1>6 DEF ManagerInv

\* The invariant holds for every client, whether threads can always be spawned or not.
THEOREM ManagerIsRight == EitherSpec => []ManagerInv
<1>1. EitherInit => ManagerInv
  BY InitManagerInvHolds DEF EitherInit
<1>2. ManagerInv /\ [EitherNext]_<<vars, rules>> => ManagerInv'
  <2> SUFFICES ASSUME ManagerInv, [EitherNext]_<<vars, rules>> PROVE ManagerInv'
    OBVIOUS
  <2>1. CASE EitherNext
    <3>1. SpawnMayFail \in BOOLEAN
      BY ManagerAssumption
    <3> QED
      BY <2>1, <3>1, NextManagerInv DEF EitherNext, Next
  <2>2. CASE UNCHANGED <<vars, rules>>
    BY <2>2, StutterManagerInv
  <2> QED
    BY <2>1, <2>2
<1> QED
  BY <1>1, <1>2, PTL DEF EitherSpec

------------------------------------------------------------------------------
(* What the invariant says about the threads                                *)

\* Where a thread is in the lists.
PlacesOf(t) == {p \in Systems \X Threads :
                  p[2] \in DOMAIN threads[p[1]] /\ threads[p[1]][p[2]] = t}

\* A list holds a thread in at most one place.
LEMMA PlaceInList ==
  ASSUME ManagerInv, NEW s \in Systems, NEW t \in Listed(s)
  PROVE  \E i \in Threads : \A k \in Threads : <<s, k>> \in PlacesOf(t) <=> k = i
<1>1. threads[s] \in Seq(Threads) /\ IsInjective(threads[s])
  BY DEF ManagerInv, TypeOK, ListsInv, ListInv
<1>2. PICK i \in 1 .. Len(threads[s]) : threads[s][i] = t
  BY <1>1, IndexOf DEF Listed
<1>3. \A k \in 1 .. Len(threads[s]) : threads[s][k] = t => k = i
  BY <1>1, <1>2, Injective
<1>4. i \in Threads /\ DOMAIN threads[s] = 1 .. Len(threads[s])
  BY <1>1, <1>2, NoLongerThanThreads, ManagerAssumption DEF Threads
<1> QED
  BY <1>2, <1>3, <1>4 DEF PlacesOf

LEMMA OnlyInLists ==
  ASSUME ManagerInv, NEW t \in Threads, NEW p \in PlacesOf(t)
  PROVE  p[1] \in Systems /\ p[2] \in Threads /\ p = <<p[1], p[2]>> /\ t \in Listed(p[1])
BY DEF PlacesOf, Listed, ManagerInv, TypeOK, ToSet

LEMMA ManagerInvOwnedOnce ==
  ASSUME ManagerInv, phase = "up", NEW t \in Threads
  PROVE  /\ handle[t] # "none" => Cardinality(PlacesOf(t)) = IF t \in Leaving THEN 2 ELSE 1
         /\ \A p \in PlacesOf(t) : \/ userdata[t] = p[1]
                                   \/ t \in Leaving \cup ToSet(call.todo)
<1>1. TypeOK /\ CallInv /\ ListsInv /\ Main \in Systems
  BY DEF ManagerInv, Systems
<1>2. /\ \A p \in PlacesOf(t) :
           p[1] \in Systems /\ p[2] \in Threads /\ p = <<p[1], p[2]>> /\ t \in Listed(p[1])
  BY OnlyInLists
<1>3. ASSUME handle[t] # "none", t \notin Leaving PROVE Cardinality(PlacesOf(t)) = 1
  <2>1. PICK s \in Systems : t \in Listed(s)
    BY <1>1, <1>3 DEF ListsInv, Running
  <2>2. \A r \in Systems : t \in Listed(r) => r = s
    <3> SUFFICES ASSUME NEW r \in Systems, t \in Listed(r), r # s PROVE FALSE
      OBVIOUS
    <3>1. t \in Listed(r) \cap Listed(s)
      BY <2>1
    <3>2. call.then = "remove" /\ {r, s} = {Main, call.local}
      BY <1>1, <3>1 DEF ListsInv
    <3>3. call.local = r \/ call.local = s
      BY <3>2
    <3>4. t \in ToSet(threads[call.local])
      BY <3>1, <3>3 DEF Listed
    <3> QED
      BY <1>3, <3>2, <3>4 DEF Leaving
  <2>3. PICK i \in Threads : \A k \in Threads : <<s, k>> \in PlacesOf(t) <=> k = i
    BY <2>1, PlaceInList
  <2>4. PlacesOf(t) = {<<s, i>>}
    BY <1>2, <2>1, <2>2, <2>3
  <2> QED
    BY <2>4, FS_Singleton
<1>4. ASSUME t \in Leaving PROVE Cardinality(PlacesOf(t)) = 2
  <2>1. /\ call.then = "remove" /\ call.local \in Systems /\ call.local # Main
        /\ t \in Listed(call.local) /\ t \in Listed(Main)
    BY <1>1, <1>4, ManagerAssumption DEF Leaving, Listed, CallInv, AddingOK, Systems
  <2>2. \A r \in Systems : t \in Listed(r) => r = Main \/ r = call.local
    BY <1>1, <2>1 DEF ListsInv
  <2>3. PICK i \in Threads : \A k \in Threads : <<Main, k>> \in PlacesOf(t) <=> k = i
    BY <1>1, <2>1, PlaceInList
  <2>4. PICK m \in Threads : \A k \in Threads : <<call.local, k>> \in PlacesOf(t) <=> k = m
    BY <2>1, PlaceInList
  <2>5. PlacesOf(t) = {<<Main, i>>} \cup {<<call.local, m>>}
    BY <1>2, <2>1, <2>2, <2>3, <2>4
  <2>6. /\ IsFiniteSet({<<Main, i>>}) /\ Cardinality({<<Main, i>>}) = 1
        /\ <<call.local, m>> \notin {<<Main, i>>}
    BY <2>1, FS_Singleton
  <2>7. Cardinality({<<Main, i>>} \cup {<<call.local, m>>}) = Cardinality({<<Main, i>>}) + 1
    BY <2>6, FS_AddElement
  <2> QED
    BY <2>5, <2>6, <2>7
<1>5. ASSUME NEW p \in PlacesOf(t)
      PROVE  userdata[t] = p[1] \/ t \in Leaving \cup ToSet(call.todo)
  BY <1>1, <1>2 DEF ListsInv, ListInv, Leaving, Listed
<1> QED
  BY <1>3, <1>4, <1>5

\* Whatever calls the client makes and in whatever order, whether threads can be spawned or
\* not: every thread the manager runs is in one list, or in two while it is being given
\* back; the main system keeps a thread; and the counts that Shutdown goes by are the
\* lengths of the lists (JobSystemManager.cpp:210-223, 336, 343-348).
THEOREM ThreadsAreOwned == EitherSpec => []ThreadsInv
<1>1. ManagerInv => ThreadsInv
  <2> SUFFICES ASSUME ManagerInv PROVE ThreadsInv
    OBVIOUS
  <2>1. TypeOK
    BY DEF ManagerInv
  <2>2. OwnedOnce
    BY ManagerInvOwnedOnce DEF OwnedOnce, PlacesOf
  <2>3. MainKeepsAThread
    BY DEF ManagerInv, ListsInv, Running, MainKeepsAThread
  <2>4. CountsMatch
    <3>1. ASSUME At("idle"), NEW s \in ToSet(jobSystems) \cup {Main}
          PROVE  numThreads[s] = Len(threads[s])
      <4>1. s \in Systems
        BY IndexOf, <3>1 DEF ManagerInv, TypeOK, Systems
      <4>2. ListInv(s)
        BY <4>1 DEF ManagerInv, ListsInv
      <4> QED
        BY <3>1, <4>2 DEF ListInv, At, Registered
    <3> QED
      BY <3>1 DEF CountsMatch
  <2> QED
    BY <2>1, <2>2, <2>3, <2>4 DEF ThreadsInv
<1> QED
  BY <1>1, ManagerIsRight, PTL

------------------------------------------------------------------------------
(* Jobs                                                                     *)

\* Nobody works on j, and it is in no queue.
Free(j) ==
  /\ \A s \in Systems : j \notin queue[s]
  /\ \A t \in Threads : job[t] # j

\* A job is in one queue or with one worker.
InOnePlace ==
  /\ \A s \in Systems : queue[s] \subseteq sent
  /\ \A t \in Threads : job[t] \in sent \cup {NoJob}
  /\ \A s, r \in Systems : s # r => queue[s] \cap queue[r] = {}
  /\ \A t \in Threads, s \in Systems : job[t] \notin queue[s]
  /\ \A t, u \in Threads : t # u /\ job[t] = job[u] => job[t] = NoJob

\* What has been cancelled stays out of the way.
CanceledInv ==
  \A j \in Jobs : jobState[j] = "Canceled" => j \in sent /\ Free(j)

\* A child that has been sent was sent by the worker of its parent.
ChildInv ==
  \A p \in Jobs : \A n \in DOMAIN ChildrenOf[p] :
    ChildrenOf[p][n] \in sent =>
      /\ p \in sent
      /\ \A s \in Systems : p \notin queue[s]
      /\ \A t \in Threads : job[t] = p => \/ pc[t] = "unlock"
                                          \/ pc[t] = "children" /\ idx[t] > n

\* New threads have no job, and those that run have a system.
WorkersInv ==
  \A t \in Threads :
    /\ handle[t] = "none" => pc[t] = "none"
    /\ pc[t] \in {"none", "start", "affinity"} => job[t] = NoJob
    /\ pc[t] # "none" => userdata[t] \in Systems
    /\ pc[t] \in {"children", "unlock", "dequeue"} => sys[t] \in Systems

JobsInv == InOnePlace /\ CanceledInv /\ ChildInv /\ WorkersInv

\* The steps that leave jobs and workers alone.
Elsewhere ==
  /\ UNCHANGED <<queue, sent, jobState, workerVars>>
  /\ \A t \in Threads : handle'[t] = "none" => handle[t] = "none"
  /\ \A t \in Threads : userdata[t] \in Systems => userdata'[t] \in Systems

LEMMA ElsewhereJobsInv ==
  ASSUME JobsInv, Elsewhere
  PROVE  JobsInv'
<1>1. InOnePlace'
  BY DEF JobsInv, InOnePlace, Elsewhere, workerVars
<1>2. CanceledInv'
  BY DEF JobsInv, CanceledInv, Free, Elsewhere, workerVars
<1>3. ChildInv'
  BY DEF JobsInv, ChildInv, Elsewhere, workerVars
<1>4. WorkersInv'
  BY DEF JobsInv, WorkersInv, Elsewhere, workerVars
<1> QED
  BY <1>1, <1>2, <1>3, <1>4 DEF JobsInv

LEMMA MainElsewhere ==
  ASSUME ManagerInv, NEW mayFail \in BOOLEAN, MainStep(mayFail), ~ Spawn,
         ~ \E j \in Jobs : CancelJob(j)
  PROVE  Elsewhere
<1> USE DEF Elsewhere, jobVars, threadVars, Fault
<1> TypeOK /\ CallInv
  BY DEF ManagerInv
<1>1. CASE SpawnThrows
  <2>1. userdata' = [userdata EXCEPT ![call.slot] = Main] /\ Main \in Systems
    BY <1>1 DEF SpawnThrows, Systems
  <2> QED
    BY <1>1, <2>1 DEF SpawnThrows, TypeOK
<1>8. CASE SetThreadData
  <2>1. /\ userdata' = [userdata EXCEPT ![Head(call.todo)] = call.target]
        /\ call.target \in Systems
    BY <1>8 DEF SetThreadData, CallInv, CallType, Frames
  <2> QED
    BY <1>8, <2>1 DEF SetThreadData, TypeOK
<1>2. CASE StoreId \/ ThreadsAdded
  BY <1>2 DEF StoreId, ThreadsAdded
<1>3. CASE UnlockCanceled \/ QueueCleared
  BY <1>3 DEF UnlockCanceled, QueueCleared
<1>4. CASE EraseSystem \/ EraseEnd
  BY <1>4 DEF EraseSystem, EraseEnd
<1>5. CASE ShutdownSystem \/ SystemIsDown \/ ShutdownReturns
  BY <1>5 DEF ShutdownSystem, SystemIsDown, ShutdownReturns
<1>6. CASE Join
  <2>1. handle' = handle \/ handle' = [handle EXCEPT ![Head(call.todo)] = "joined"]
    BY <1>6 DEF Join
  <2>2. UNCHANGED <<queue, sent, jobState, workerVars, userdata>>
    BY <1>6 DEF Join
  <2>3. handle \in [Threads -> {"none", "joinable", "joined"}]
    BY DEF TypeOK
  <2> QED
    BY <2>1, <2>2, <2>3
<1>7. CASE ReleaseSlot \/ SlotsReleased \/ DeleteThreads
  BY <1>7 DEF ReleaseSlot, SlotsReleased, DeleteThreads
<1> QED
  BY <1>1, <1>2, <1>3, <1>4, <1>5, <1>6, <1>7, <1>8 DEF MainStep

LEMMA ClientElsewhere ==
  ASSUME NEW calls, Client(calls), ~ \E s \in Systems, j \in Jobs : ScheduleJob(s, j)
  PROVE  Elsewhere
<1> USE DEF Elsewhere, jobVars, threadVars
<1>1. ASSUME NEW n \in 0 .. Hardware + 1, InitManager(n) PROVE Elsewhere
  BY <1>1 DEF InitManager, InitReturns
<1>2. ASSUME NEW s \in Locals, NEW n \in 0 .. Hardware, CreateLocalJobSystem(s, n)
      PROVE  Elsewhere
  BY <1>2 DEF CreateLocalJobSystem
<1>3. ASSUME NEW s \in Systems, NEW n \in 0 .. Hardware, ReseveThreads(s, n) PROVE Elsewhere
  BY <1>3 DEF ReseveThreads
<1>4. ASSUME NEW s \in Locals, ReleaseJobSystem(s) PROVE Elsewhere
  BY <1>4 DEF ReleaseJobSystem
<1>5. ASSUME NEW s \in Locals, Drop(s) PROVE Elsewhere
  BY <1>5 DEF Drop
<1>6. ASSUME NEW blocking \in BOOLEAN, Shutdown(blocking) PROVE Elsewhere
  BY <1>6 DEF Shutdown
<1>7. CASE DestroyManager
  BY <1>7 DEF DestroyManager
<1> HIDE DEF Elsewhere
<1> QED
  BY <1>1, <1>2, <1>3, <1>4, <1>5, <1>6, <1>7, Zenon DEF Client

LEMMA SpawnJobsInv ==
  ASSUME ManagerInv, JobsInv, Spawn
  PROVE  JobsInv'
<1>1. TypeOK /\ CallInv
  BY DEF ManagerInv
<1>2. call.slot \in Threads /\ handle[call.slot] = "none"
  BY <1>1, ManagerAssumption DEF Spawn, CallInv, CallType, Frames, SpawningOK, At, Threads
<1>3. /\ pc' = [pc EXCEPT ![call.slot] = "start"]
      /\ handle' = [handle EXCEPT ![call.slot] = "joinable"]
      /\ UNCHANGED <<queue, sent, jobState, job, idx, sys>>
  BY DEF Spawn, LaunchThread, jobVars
<1>4. job[call.slot] = NoJob /\ userdata' = [userdata EXCEPT ![call.slot] = Main] /\ Main \in Systems
  BY <1>2 DEF JobsInv, WorkersInv, Spawn, Systems
<1>5. InOnePlace' /\ CanceledInv'
  BY <1>3 DEF JobsInv, InOnePlace, CanceledInv, Free
<1>6. ChildInv'
  <2>1. \A t \in Threads : job[t] \in Jobs => pc'[t] = pc[t]
    BY <1>1, <1>2, <1>3, <1>4, ManagerAssumption DEF TypeOK
  <2> QED
    BY <1>3, <2>1 DEF JobsInv, ChildInv
<1>7. WorkersInv'
  BY <1>1, <1>2, <1>3, <1>4 DEF JobsInv, WorkersInv, TypeOK
<1> QED
  BY <1>5, <1>6, <1>7 DEF JobsInv

LEMMA CancelJobJobsInv ==
  ASSUME ManagerInv, JobsInv, NEW j \in Jobs, CancelJob(j)
  PROVE  JobsInv'
<1>1. TypeOK /\ CallInv /\ call.local \in Systems
  BY DEF ManagerInv, CallInv, CallType, Frames
<1>2. /\ queue' = [queue EXCEPT ![call.local] = @ \ {j}] /\ j \in queue[call.local]
      /\ jobState' = [jobState EXCEPT ![j] = "Canceled"]
      /\ UNCHANGED <<sent, handle, userdata, workerVars>>
  BY DEF CancelJob, workerVars, threadVars
<1>3. /\ \A s \in Systems : queue'[s] \subseteq queue[s]
      /\ queue'[call.local] = queue[call.local] \ {j}
      /\ \A i \in Jobs : i # j => jobState'[i] = jobState[i]
  BY <1>1, <1>2 DEF TypeOK
<1>4. InOnePlace'
  BY <1>2, <1>3 DEF JobsInv, InOnePlace, workerVars
<1>5. CanceledInv'
  <2>1. j \in sent /\ Free(j)'
    BY <1>1, <1>2, <1>3 DEF JobsInv, InOnePlace, Free, workerVars
  <2>2. \A i \in Jobs : Free(i) => Free(i)'
    BY <1>2, <1>3 DEF Free, workerVars
  <2> QED
    BY <1>2, <1>3, <2>1, <2>2 DEF JobsInv, CanceledInv, workerVars
<1>6. ChildInv'
  BY <1>2, <1>3 DEF JobsInv, ChildInv, workerVars
<1>7. WorkersInv'
  BY <1>2 DEF JobsInv, WorkersInv, workerVars
<1> QED
  BY <1>4, <1>5, <1>6, <1>7 DEF JobsInv

LEMMA ScheduleJobJobsInv ==
  ASSUME ManagerInv, JobsInv, NEW s \in Systems, NEW j \in Jobs, ScheduleJob(s, j)
  PROVE  JobsInv'
<1>1. TypeOK
  BY DEF ManagerInv
<1>2. /\ queue' = [queue EXCEPT ![s] = @ \cup {j}] /\ sent' = sent \cup {j}
      /\ j \in Roots /\ j \notin sent
      /\ UNCHANGED <<jobState, handle, userdata, workerVars>>
  BY DEF ScheduleJob, workerVars, threadVars
<1>3. /\ queue'[s] = queue[s] \cup {j}
      /\ \A r \in Systems : r # s => queue'[r] = queue[r]
  BY <1>1, <1>2 DEF TypeOK
<1>4. Free(j) /\ j # NoJob
  BY <1>2, ManagerAssumption DEF JobsInv, InOnePlace, Free, workerVars
<1>5. InOnePlace'
  BY <1>2, <1>3, <1>4 DEF JobsInv, InOnePlace, Free, workerVars
<1>6. CanceledInv'
  BY <1>2, <1>3 DEF JobsInv, CanceledInv, Free, workerVars
<1>7. ChildInv'
  <2>1. \A p \in Jobs : \A n \in DOMAIN ChildrenOf[p] : ChildrenOf[p][n] # j
    BY <1>2, ManagerAssumption DEF Roots, ToSet
  <2> QED
    BY <1>2, <1>3, <2>1 DEF JobsInv, ChildInv, workerVars
<1>8. WorkersInv'
  BY <1>2 DEF JobsInv, WorkersInv, workerVars
<1> QED
  BY <1>5, <1>6, <1>7, <1>8 DEF JobsInv

\* A worker between two jobs, or on its way to the children of its job.
LEMMA WalkJobsInv ==
  ASSUME ManagerInv, JobsInv, NEW t \in Threads, NEW to,
         pc' = [pc EXCEPT ![t] = to], pc[t] \notin {"none", "children", "unlock"},
         to \in {"none", "start", "affinity"} => pc[t] \in {"start", "affinity"},
         UNCHANGED <<queue, sent, jobState, handle, userdata, job>>,
         \A u \in Threads : u # t => idx'[u] = idx[u] /\ sys'[u] = sys[u],
         to \in {"children", "unlock", "dequeue"} => sys'[t] \in Systems
  PROVE  JobsInv'
<1>1. /\ pc'[t] = to /\ \A u \in Threads : u # t => pc'[u] = pc[u]
  BY DEF ManagerInv, TypeOK
<1>2. InOnePlace' /\ CanceledInv'
  BY DEF JobsInv, InOnePlace, CanceledInv, Free
<1>3. ChildInv'
  <2>1. \A p \in Jobs : \A n \in DOMAIN ChildrenOf[p] : ChildrenOf[p][n] \in sent => job[t] # p
    BY DEF JobsInv, ChildInv
  <2> QED
    BY <1>1, <2>1 DEF JobsInv, ChildInv
<1>4. WorkersInv'
  BY <1>1 DEF JobsInv, WorkersInv
<1> QED
  BY <1>2, <1>3, <1>4 DEF JobsInv

LEMMA CallJobsInv ==
  ASSUME ManagerInv, JobsInv, NEW t \in Threads, Call(t)
  PROVE  JobsInv'
<1>1. TypeOK /\ job[t] \in Jobs
  BY DEF ManagerInv, HandsInv, Call, Goto
<1>2. /\ pc' = [pc EXCEPT ![t] = "running"] /\ pc[t] = "call"
      /\ jobState' = [jobState EXCEPT ![job[t]] = "Running"]
      /\ UNCHANGED <<queue, sent, handle, userdata, sys, job, idx>>
  BY DEF Call, Goto, Quiet
<1>3. \A j \in Jobs : jobState'[j] = "Canceled" => jobState[j] = "Canceled"
  BY <1>1, <1>2 DEF TypeOK
<1>4. /\ pc'[t] = "running" /\ \A u \in Threads : u # t => pc'[u] = pc[u]
  BY <1>1, <1>2 DEF TypeOK
<1>5. InOnePlace' /\ CanceledInv'
  BY <1>2, <1>3 DEF JobsInv, InOnePlace, CanceledInv, Free
<1>6. ChildInv'
  <2>1. \A p \in Jobs : \A n \in DOMAIN ChildrenOf[p] : ChildrenOf[p][n] \in sent => job[t] # p
    BY <1>2 DEF JobsInv, ChildInv
  <2> QED
    BY <1>2, <1>4, <2>1 DEF JobsInv, ChildInv
<1>7. WorkersInv'
  BY <1>2, <1>4 DEF JobsInv, WorkersInv
<1> QED
  BY <1>5, <1>6, <1>7 DEF JobsInv

LEMMA FinishJobsInv ==
  ASSUME ManagerInv, JobsInv, NEW t \in Threads, Finish(t)
  PROVE  JobsInv'
<1>1. TypeOK /\ job[t] \in Jobs
  BY DEF ManagerInv, HandsInv, Finish, Goto
<1>2. /\ pc' = [pc EXCEPT ![t] = "unlock"] /\ pc[t] = "children"
      /\ jobState' = [jobState EXCEPT ![job[t]] = "Finished"]
      /\ UNCHANGED <<queue, sent, handle, userdata, sys, job, idx>>
  BY DEF Finish, Goto, Quiet
<1>3. \A j \in Jobs : jobState'[j] = "Canceled" => jobState[j] = "Canceled"
  BY <1>1, <1>2 DEF TypeOK
<1>4. /\ pc'[t] = "unlock" /\ \A u \in Threads : u # t => pc'[u] = pc[u]
  BY <1>1, <1>2 DEF TypeOK
<1>5. InOnePlace' /\ CanceledInv'
  BY <1>2, <1>3 DEF JobsInv, InOnePlace, CanceledInv, Free
<1>6. ChildInv'
  BY <1>2, <1>4 DEF JobsInv, ChildInv
<1>7. WorkersInv'
  BY <1>2, <1>4 DEF JobsInv, WorkersInv
<1> QED
  BY <1>5, <1>6, <1>7 DEF JobsInv

LEMMA ReleaseLockJobsInv ==
  ASSUME ManagerInv, JobsInv, NEW t \in Threads, ReleaseLock(t)
  PROVE  JobsInv'
<1>1. /\ pc' = [pc EXCEPT ![t] = "dequeue"] /\ pc[t] = "unlock"
      /\ job' = [job EXCEPT ![t] = NoJob]
      /\ UNCHANGED <<queue, sent, jobState, handle, userdata, sys, idx>>
  BY DEF ReleaseLock, Goto, Quiet
<1>2. /\ pc'[t] = "dequeue" /\ \A u \in Threads : u # t => pc'[u] = pc[u]
      /\ job'[t] = NoJob /\ \A u \in Threads : u # t => job'[u] = job[u]
      /\ NoJob \notin Jobs /\ queue \in [Systems -> SUBSET Jobs]
  BY <1>1, ManagerAssumption DEF ManagerInv, TypeOK
<1>3. InOnePlace' /\ CanceledInv'
  BY <1>1, <1>2 DEF JobsInv, InOnePlace, CanceledInv, Free
<1>4. ChildInv'
  BY <1>1, <1>2 DEF JobsInv, ChildInv
<1>5. WorkersInv'
  BY <1>1, <1>2 DEF JobsInv, WorkersInv
<1> QED
  BY <1>3, <1>4, <1>5 DEF JobsInv

LEMMA TakeJobJobsInv ==
  ASSUME ManagerInv, JobsInv, NEW t \in Threads, NEW j \in Jobs, TakeJob(t, j)
  PROVE  JobsInv'
<1>1. /\ pc' = [pc EXCEPT ![t] = "call"] /\ pc[t] = "dequeue"
      /\ job' = [job EXCEPT ![t] = j]
      /\ queue' = [queue EXCEPT ![sys[t]] = @ \ {j}]
      /\ UNCHANGED <<sent, jobState, handle, userdata, sys, idx>>
  BY DEF TakeJob, Goto, Quiet
<1>2. PICK s \in Systems : s = sys[t] /\ j \in queue[s]
  <2>1. j \in queue[sys[t]] /\ sys[t] \in Systems
    BY <1>1 DEF TakeJob, JobsInv, WorkersInv
  <2> QED
    BY <2>1
<1>3. /\ pc'[t] = "call" /\ \A u \in Threads : u # t => pc'[u] = pc[u]
      /\ job'[t] = j /\ \A u \in Threads : u # t => job'[u] = job[u]
      /\ queue'[s] = queue[s] \ {j} /\ \A r \in Systems : r # s => queue'[r] = queue[r]
  BY <1>1, <1>2 DEF ManagerInv, TypeOK
<1>4. j \in sent /\ (\A u \in Threads : job[u] # j) /\ (\A r \in Systems : r # s => j \notin queue[r])
  BY <1>2 DEF JobsInv, InOnePlace
<1>5. InOnePlace'
  <2>1. /\ \A r \in Systems : queue'[r] \subseteq sent /\ j \notin queue'[r]
        /\ \A u \in Threads : job'[u] \in sent \cup {NoJob}
        /\ \A u \in Threads, r \in Systems : job'[u] \notin queue'[r]
    BY <1>3, <1>4 DEF JobsInv, InOnePlace
  <2>2. \A r, q \in Systems : r # q => queue'[r] \cap queue'[q] = {}
    BY <1>3 DEF JobsInv, InOnePlace
  <2>3. \A u, v \in Threads : u # v /\ job'[u] = job'[v] => job'[u] = NoJob
    BY <1>3, <1>4 DEF JobsInv, InOnePlace
  <2> QED
    BY <1>1, <2>1, <2>2, <2>3 DEF InOnePlace
<1>6. CanceledInv'
  BY <1>1, <1>2, <1>3 DEF JobsInv, CanceledInv, Free
<1>7. ChildInv'
  <2>1. \A n \in DOMAIN ChildrenOf[j] : ChildrenOf[j][n] \notin sent
    BY <1>2 DEF JobsInv, ChildInv
  <2> QED
    BY <1>1, <1>3, <2>1 DEF JobsInv, ChildInv
<1>8. WorkersInv'
  BY <1>1, <1>3 DEF JobsInv, WorkersInv
<1> QED
  BY <1>5, <1>6, <1>7, <1>8 DEF JobsInv

LEMMA SendChildJobsInv ==
  ASSUME ManagerInv, JobsInv, NEW t \in Threads, SendChild(t)
  PROVE  JobsInv'
<1>1. TypeOK /\ job[t] \in Jobs /\ idx[t] \in Nat /\ idx[t] >= 1
  BY DEF ManagerInv, HandsInv, TypeOK, SendChild
<1> DEFINE p == job[t]
           n == idx[t]
           child == ChildrenOf[p][n]
<1>2. n \in DOMAIN ChildrenOf[p] /\ child \in Jobs
  BY <1>1, ManagerAssumption DEF SendChild
<1>3. /\ pc[t] = "children" /\ queue' = [queue EXCEPT ![sys[t]] = @ \cup {child}]
      /\ sent' = sent \cup {child} /\ jobState' = [jobState EXCEPT ![p] = "Waiting"]
      /\ idx' = [idx EXCEPT ![t] = n + 1]
      /\ UNCHANGED <<pc, sys, job, handle, userdata>>
  BY DEF SendChild, Quiet
<1>4. PICK s \in Systems : s = sys[t]
  BY <1>3 DEF JobsInv, WorkersInv
<1>5. /\ queue'[s] = queue[s] \cup {child} /\ \A r \in Systems : r # s => queue'[r] = queue[r]
      /\ idx'[t] = n + 1 /\ \A u \in Threads : u # t => idx'[u] = idx[u]
      /\ \A j \in Jobs : jobState'[j] = "Canceled" => jobState[j] = "Canceled"
  BY <1>1, <1>3, <1>4 DEF TypeOK
<1>6. child \notin sent /\ p \in sent /\ p # NoJob /\ child # NoJob
  <2>1. child \in sent => FALSE
    BY <1>1, <1>2, <1>3 DEF JobsInv, ChildInv
  <2> QED
    BY <1>1, <1>2, <2>1, ManagerAssumption DEF JobsInv, InOnePlace
<1>7. /\ \A r \in Systems : child \notin queue[r] /\ p \notin queue[r]
      /\ \A u \in Threads : job[u] # child /\ (u # t => job[u] # p)
  BY <1>1, <1>6 DEF JobsInv, InOnePlace
<1>8. \A q \in Jobs : \A m \in DOMAIN ChildrenOf[q] : ChildrenOf[q][m] = child => q = p /\ m = n
  BY <1>1, <1>2, ManagerAssumption
<1> HIDE DEF p, n, child
<1>9. InOnePlace'
  BY <1>3, <1>5, <1>6, <1>7 DEF JobsInv, InOnePlace
<1>10. CanceledInv'
  <2> SUFFICES ASSUME NEW j \in Jobs, jobState'[j] = "Canceled" PROVE j \in sent' /\ Free(j)'
    BY DEF CanceledInv
  <2>1. j \in sent /\ Free(j)
    BY <1>5 DEF JobsInv, CanceledInv
  <2> QED
    BY <1>3, <1>5, <1>6, <2>1 DEF Free
<1>11. ChildInv'
  <2> SUFFICES ASSUME NEW q \in Jobs, NEW m \in DOMAIN ChildrenOf[q], ChildrenOf[q][m] \in sent'
               PROVE  /\ q \in sent'
                      /\ \A r \in Systems : q \notin queue'[r]
                      /\ \A u \in Threads : job'[u] = q => \/ pc'[u] = "unlock"
                                                           \/ pc'[u] = "children" /\ idx'[u] > m
    BY Zenon DEF ChildInv
  <2>1. CASE ChildrenOf[q][m] = child
    <3>1. q = p /\ m = n
      BY <1>8, <2>1
    <3>2. p # child
      BY <1>6
    <3>3. \A u \in Threads : job'[u] = p => u = t
      BY <1>3, <1>7
    <3>4. idx'[t] > n
      BY <1>1, <1>5 DEF n
    <3> QED
      BY <1>3, <1>5, <1>6, <1>7, <3>1, <3>2, <3>3, <3>4
  <2>2. CASE ChildrenOf[q][m] # child
    <3>1. /\ q \in sent /\ \A r \in Systems : q \notin queue[r]
          /\ \A u \in Threads : job[u] = q => \/ pc[u] = "unlock"
                                              \/ pc[u] = "children" /\ idx[u] > m
      BY <1>3, <2>2 DEF JobsInv, ChildInv
    <3>2. \A r \in Systems : q \notin queue'[r]
      BY <1>5, <1>6, <3>1
    <3>3. \A u \in Threads : job[u] = q => \/ pc[u] = "unlock"
                                           \/ pc[u] = "children" /\ idx'[u] > m
      <4>1. \A k, l \in Nat : k > l => k + 1 > l
        OBVIOUS
      <4>2. m \in Nat
        BY ManagerAssumption
      <4>3. idx[t] > m => idx'[t] > m
        BY <1>1, <1>5, <4>1, <4>2 DEF n
      <4> QED
        BY <1>5, <3>1, <4>3
    <3>4. q \in sent' /\ UNCHANGED <<pc, job>>
      BY <1>3, <3>1
    <3> QED
      BY ONLY <3>2, <3>3, <3>4
  <2> QED
    BY <2>1, <2>2
<1>12. WorkersInv'
  BY <1>3 DEF JobsInv, WorkersInv
<1> QED
  BY <1>9, <1>10, <1>11, <1>12 DEF JobsInv

LEMMA WorkerJobsInv ==
  ASSUME ManagerInv, JobsInv, NEW t \in Threads, WorkerStep(t)
  PROVE  JobsInv'
<1> USE DEF Goto, Quiet, jobVars
<1>1. CASE Start(t)
  <2>1. CASE GetUserdata(t) = NoSystem
    <3>1. Elsewhere
      BY <1>1, <2>1 DEF Start, Fault, Elsewhere, jobVars, threadVars
    <3> QED
      BY <3>1, ElsewhereJobsInv
  <2>2. CASE GetUserdata(t) # NoSystem
    BY <1>1, <2>2, WalkJobsInv DEF Start
  <2> QED
    BY <2>1, <2>2
<1>2. CASE SetAffinity(t) \/ LoopTest(t)
  BY <1>2, WalkJobsInv DEF SetAffinity, LoopTest
<1>3. CASE GetSystem(t)
  <2>1. pc[t] = "getSystem" /\ userdata[t] \in Systems
    BY <1>3 DEF GetSystem, JobsInv, WorkersInv
  <2>2. /\ pc' = [pc EXCEPT ![t] = IF job[t] = NoJob THEN "dequeue" ELSE "children"]
        /\ sys' = [sys EXCEPT ![t] = userdata[t]] /\ idx' = [idx EXCEPT ![t] = 1]
        /\ UNCHANGED <<queue, sent, jobState, handle, userdata, job>>
    BY <1>3 DEF GetSystem, GetUserdata
  <2>3. /\ sys'[t] = userdata[t]
        /\ \A u \in Threads : u # t => idx'[u] = idx[u] /\ sys'[u] = sys[u]
    BY <2>2 DEF ManagerInv, TypeOK
  <2> QED
    BY <2>1, <2>2, <2>3, WalkJobsInv
<1>4. CASE UseAfterFree(t)
  <2>1. Elsewhere
    BY <1>4 DEF UseAfterFree, Fault, Elsewhere, jobVars, threadVars
  <2> QED
    BY <2>1, ElsewhereJobsInv
<1>5. CASE FindNothing(t) \/ FunctionReturns(t)
  BY <1>5, WalkJobsInv DEF FindNothing, FunctionReturns
<1>6. CASE SendChild(t) \/ Finish(t) \/ ReleaseLock(t)
  BY <1>6, SendChildJobsInv, FinishJobsInv, ReleaseLockJobsInv
<1>7. CASE (\E j \in Jobs : TakeJob(t, j)) \/ Call(t)
  BY <1>7, TakeJobJobsInv, CallJobsInv
<1> QED
  BY <1>1, <1>2, <1>3, <1>4, <1>5, <1>6, <1>7 DEF WorkerStep

LEMMA NextJobsInv ==
  ASSUME ManagerInv, JobsInv, NEW calls, NEW mayFail \in BOOLEAN, NextWith(calls, mayFail)
  PROVE  JobsInv'
<1>1. CASE Client(calls)
  <2>1. CASE \E s \in Systems, j \in Jobs : ScheduleJob(s, j)
    BY <2>1, ScheduleJobJobsInv
  <2> QED
    BY <1>1, <2>1, ClientElsewhere, ElsewhereJobsInv
<1>2. CASE MainStep(mayFail)
  <2>1. CASE Spawn \/ \E j \in Jobs : CancelJob(j)
    BY <2>1, SpawnJobsInv, CancelJobJobsInv
  <2> QED
    BY <1>2, <2>1, MainElsewhere, ElsewhereJobsInv
<1>3. CASE \E t \in Threads : WorkerStep(t)
  BY <1>3, WorkerJobsInv
<1> QED
  BY <1>1, <1>2, <1>3 DEF NextWith

\* The state of a job that has been cancelled is not written again.
LEMMA CanceledStays ==
  ASSUME ManagerInv, JobsInv, NEW calls, NEW mayFail \in BOOLEAN, NextWith(calls, mayFail),
         NEW j \in Jobs, jobState[j] = "Canceled"
  PROVE  jobState'[j] = "Canceled"
<1>1. TypeOK /\ \A t \in Threads : job[t] # j
  BY DEF ManagerInv, JobsInv, CanceledInv, Free
<1>2. CASE Client(calls)
  <2>1. CASE \E s \in Systems, i \in Jobs : ScheduleJob(s, i)
    BY <2>1 DEF ScheduleJob
  <2> QED
    BY <1>2, <2>1, ClientElsewhere DEF Elsewhere
<1>3. CASE MainStep(mayFail)
  <2>1. CASE Spawn
    BY <2>1 DEF Spawn, jobVars
  <2>2. CASE \E i \in Jobs : CancelJob(i)
    BY <1>1, <2>2 DEF CancelJob, TypeOK
  <2> QED
    BY <1>3, <2>1, <2>2, MainElsewhere DEF Elsewhere
<1>4. CASE \E t \in Threads : WorkerStep(t)
  <2> SUFFICES ASSUME NEW t \in Threads, WorkerStep(t) PROVE jobState'[j] = jobState[j]
    BY <1>4
  <2>1. job[t] # j /\ jobState \in [Jobs -> {"Queued", "Running", "Waiting", "Finished", "Canceled"}]
    BY <1>1 DEF TypeOK
  <2>2. CASE SendChild(t) \/ Finish(t) \/ Call(t)
    BY <2>1, <2>2 DEF SendChild, Finish, Call
  <2>3. CASE UNCHANGED jobState
    BY <2>3
  <2> QED
    BY <2>2, <2>3 DEF WorkerStep, Start, SetAffinity, LoopTest, GetSystem, UseAfterFree,
       ReleaseLock, TakeJob, FindNothing, FunctionReturns, Fault, jobVars
<1> QED
  BY <1>2, <1>3, <1>4 DEF NextWith

THEOREM JobsAreRight == EitherSpec => [](ManagerInv /\ JobsInv)
<1>1. EitherInit => JobsInv
  BY DEF EitherInit, Init, JobsInv, InOnePlace, CanceledInv, Free, ChildInv, WorkersInv
<1>2. ManagerInv /\ JobsInv /\ [EitherNext]_<<vars, rules>> => JobsInv'
  <2> SUFFICES ASSUME ManagerInv, JobsInv, [EitherNext]_<<vars, rules>> PROVE JobsInv'
    OBVIOUS
  <2>1. CASE EitherNext
    <3>1. SpawnMayFail \in BOOLEAN
      BY ManagerAssumption
    <3> QED
      BY <2>1, <3>1, NextJobsInv DEF EitherNext, Next
  <2>2. CASE UNCHANGED <<vars, rules>>
    <3>1. Elsewhere
      BY <2>2 DEF Elsewhere, vars, jobVars, threadVars
    <3> QED
      BY <3>1, ElsewhereJobsInv
  <2> QED
    BY <2>1, <2>2
<1> QED
  BY <1>1, <1>2, ManagerIsRight, PTL DEF EitherSpec

\* A job that a Release has cancelled is never run: no worker has it, now or later, and its
\* state is final (JobSystemManager.cpp:104-112).
THEOREM CancelledForGood == EitherSpec => CanceledForGood
<1>1. /\ ManagerInv /\ JobsInv /\ JobsInv' /\ [EitherNext]_<<vars, rules>>
      => [\A j \in Jobs : jobState[j] = "Canceled" =>
            /\ jobState'[j] = "Canceled"
            /\ \A t \in Threads : job'[t] # j]_vars
  <2> SUFFICES ASSUME ManagerInv, JobsInv, JobsInv', EitherNext,
                      NEW j \in Jobs, jobState[j] = "Canceled"
               PROVE  jobState'[j] = "Canceled" /\ \A t \in Threads : job'[t] # j
    OBVIOUS
  <2>1. SpawnMayFail \in BOOLEAN
    BY ManagerAssumption
  <2>2. jobState'[j] = "Canceled"
    BY <2>1, CanceledStays DEF EitherNext, Next
  <2> QED
    BY <2>2 DEF JobsInv, CanceledInv, Free
<1> QED
  BY <1>1, JobsAreRight, PTL DEF EitherSpec, CanceledForGood

------------------------------------------------------------------------------
(* A client that keeps to the rules                                         *)

\* The calls that the rules allow.
RulesOnly ==
  Calls \subseteq {"init", "create", "reserve", "release", "schedule", "drop", "shutdown",
                   "destroy"}

BeingReleased == call.then = "remove" \/ Releasing

\* The destructor runs when nobody holds a system, and goes through one slot at most.
DestructorInv ==
  /\ call.ret = "idle" => call.at \notin {"nextSlot", "delete"}
  /\ call.ret = "nextSlot" =>
       /\ At("nextSlot") \/ BeingReleased
       /\ call.end <= 1
       /\ call.slot <= call.end => At("nextSlot") /\ call.end = Len(jobSystems)
  /\ call.ret = "delete" => call.at \in {"shutdown", "join", "delete"} /\ call.blocking
  /\ call.ret # "idle" => phase = "up" /\ held = {}

\* A system that is being released is there, and has given its threads away.
ReleaseInv ==
  /\ BeingReleased /\ call.ret = "idle" => call.local \in held
  /\ Releasing => threads[call.local] = << >>

\* Systems with threads or jobs are those that Shutdown goes through.
SystemsInv ==
  /\ ToSet(jobSystems) \subseteq mainIds
  /\ Running => Main \in mainIds
  /\ call.then = "register" => call.local \in mainIds
  /\ At("shutdown") \/ At("join") =>
       ToSet(call.rest) \subseteq (ToSet(jobSystems) \cup {Main}) \cap mainIds
  /\ \A s \in Locals :
       threads[s] # << >> => Registered(s) \/ (call.then = "register" /\ s = call.local)

\* While a worker runs, the systems that exist are held.
UseInv ==
  /\ phase \in {"null", "spawning"} => \A s \in Locals : life[s] = "none"
  /\ (\E s \in Locals : life[s] # "none" /\ s \notin held) =>
       \A t \in Threads : handle[t] # "joinable"
  /\ At("setData") /\ call.target \in Locals => life[call.target] # "none"
  /\ \A t \in Threads :
       /\ userdata[t] \in Locals => life[userdata[t]] # "none"
       /\ sys[t] \in Locals => life[sys[t]] # "none"
       /\ handle[t] = "joined" => pc[t] = "exited"

\* A blocking Shutdown has joined every thread that is not in a list it still has to join.
JoinInv ==
  /\ \A t \in Threads : handle[t] # "none" => hasId[t] \/ (At("storeId") /\ t = call.slot)
  /\ At("join") => ToSet(call.todo) \subseteq Threads
  /\ call.blocking /\ (At("shutdown") \/ At("join")) =>
       \A t \in Threads : handle[t] = "joinable" =>
         \/ At("join") /\ t \in ToSet(call.todo)
         \/ \E s \in ToSet(call.rest) : t \in Listed(s)
  /\ At("delete") => \A t \in Threads : handle[t] # "joinable"

SafeInv == DestructorInv /\ ReleaseInv /\ SystemsInv /\ UseInv /\ JoinInv /\ NoFault

\* A system is released once, and nothing the client has scheduled is left in it.
QueuesInv ==
  /\ BeingReleased => Registered(call.local)
  /\ At("erase") => queue[call.local] \cap Roots = {}
  /\ \A s \in Locals : ~ Registered(s) => queue[s] \cap Roots = {}

RulesInv == SafeInv /\ QueuesInv

\* Shutdown begins: every thread is in a list of a system that it will go through.
LEMMA BeginShutdownReaches ==
  ASSUME ManagerInv, SafeInv, phase = "up", call.then = "idle",
         NEW list, list = Append(jobSystems, Main)
  PROVE  /\ ToSet(list) = ToSet(jobSystems) \cup {Main}
         /\ ToSet(list) \subseteq mainIds
         /\ \A t \in Threads : handle[t] = "joinable" => \E s \in ToSet(list) : t \in Listed(s)
<1>1. TypeOK /\ ListsInv /\ SystemsInv
  BY DEF ManagerInv, SafeInv
<1>2. ToSet(list) = ToSet(jobSystems) \cup {Main}
  <2>1. jobSystems \in Seq(Systems) /\ Main \in Systems
    BY <1>1, RestTyped DEF TypeOK, Systems
  <2>2. \A q \in Seq(Systems) : \A x \in Systems :
          /\ Append(q, x) \in Seq(Systems)
          /\ ToSet(Append(q, x)) = ToSet(q) \cup {x}
          /\ IsInjective(q) /\ x \notin ToSet(q) => IsInjective(Append(q, x))
    <3> SUFFICES ASSUME NEW q \in Seq(Systems), NEW x \in Systems
                 PROVE  /\ Append(q, x) \in Seq(Systems)
                        /\ ToSet(Append(q, x)) = ToSet(q) \cup {x}
                        /\ IsInjective(q) /\ x \notin ToSet(q) => IsInjective(Append(q, x))
      BY Zenon
    <3> QED
      BY ONLY Appending, q \in Seq(Systems), x \in Systems, Zenon
  <2>3. ToSet(Append(jobSystems, Main)) = ToSet(jobSystems) \cup {Main}
    BY ONLY <2>1, <2>2, Zenon
  <2> QED
    BY <2>3, Zenon
<1>3. \A t \in Threads : handle[t] = "joinable" => \E s \in ToSet(list) : t \in Listed(s)
  <2> SUFFICES ASSUME NEW t \in Threads, handle[t] = "joinable"
               PROVE  \E s \in ToSet(list) : t \in Listed(s)
    OBVIOUS
  <2>1. PICK s \in Systems : t \in Listed(s)
    BY <1>1 DEF ListsInv, Running
  <2>2. threads[s] # << >>
    BY <2>1, EmptyList DEF Listed
  <2>3. s = Main \/ Registered(s)
    BY <1>1, <2>2 DEF SystemsInv, Systems
  <2> QED
    BY <1>2, <2>1, <2>3 DEF Registered
<1> QED
  BY <1>1, <1>2, <1>3 DEF SystemsInv, Running

LEMMA UnlockCanceledSafeInv ==
  ASSUME ManagerInv, JobsInv, SafeInv, UnlockCanceled
  PROVE  SafeInv'
<1>1. /\ TypeOK /\ CallInv /\ LifeInv /\ ListsInv
      /\ DestructorInv /\ ReleaseInv /\ SystemsInv /\ UseInv /\ JoinInv /\ NoFault
  BY DEF ManagerInv, SafeInv
<1>2. DestructorInv'
  BY <1>1 DEF UnlockCanceled, threadVars, systemVars, jobVars, workerVars, DestructorInv,
         BeingReleased, Releasing, At, CallInv, CallType, Frames, Idle
<1>3. ReleaseInv'
  BY <1>1 DEF UnlockCanceled, threadVars, systemVars, jobVars, workerVars, ReleaseInv,
         BeingReleased, Releasing, Registered, At, CallInv, CallType, Frames, Idle
<1>4. SystemsInv'
  BY <1>1 DEF UnlockCanceled, threadVars, systemVars, jobVars, workerVars, SystemsInv, Running,
         Registered, At, CallInv, CallType, Frames, Idle
<1>5. UseInv'
  BY <1>1 DEF UnlockCanceled, threadVars, systemVars, jobVars, workerVars, UseInv, At, CallInv,
         CallType, Frames, Idle
<1>6. JoinInv'
  BY <1>1 DEF UnlockCanceled, threadVars, systemVars, jobVars, workerVars, JoinInv, Listed, At,
         CallInv, CallType, Frames, Idle
<1>7. NoFault'
  BY <1>1 DEF UnlockCanceled, threadVars, systemVars, jobVars, workerVars, NoFault, CallInv,
         CallType, Frames, Idle
<1> QED
  BY <1>2, <1>3, <1>4, <1>5, <1>6, <1>7 DEF SafeInv

LEMMA QueueClearedSafeInv ==
  ASSUME ManagerInv, JobsInv, SafeInv, QueueCleared
  PROVE  SafeInv'
<1>1. /\ TypeOK /\ CallInv /\ LifeInv /\ ListsInv
      /\ DestructorInv /\ ReleaseInv /\ SystemsInv /\ UseInv /\ JoinInv /\ NoFault
  BY DEF ManagerInv, SafeInv
<1>2. DestructorInv'
  BY <1>1 DEF QueueCleared, threadVars, systemVars, jobVars, workerVars, DestructorInv,
         BeingReleased, Releasing, At, CallInv, CallType, Frames, Idle
<1>3. ReleaseInv'
  BY <1>1 DEF QueueCleared, threadVars, systemVars, jobVars, workerVars, ReleaseInv,
         BeingReleased, Releasing, Registered, At, CallInv, CallType, Frames, Idle
<1>4. SystemsInv'
  BY <1>1 DEF QueueCleared, threadVars, systemVars, jobVars, workerVars, SystemsInv, Running,
         Registered, At, CallInv, CallType, Frames, Idle
<1>5. UseInv'
  BY <1>1 DEF QueueCleared, threadVars, systemVars, jobVars, workerVars, UseInv, At, CallInv,
         CallType, Frames, Idle
<1>6. JoinInv'
  BY <1>1 DEF QueueCleared, threadVars, systemVars, jobVars, workerVars, JoinInv, Listed, At,
         CallInv, CallType, Frames, Idle
<1>7. NoFault'
  BY <1>1 DEF QueueCleared, threadVars, systemVars, jobVars, workerVars, NoFault, CallInv,
         CallType, Frames, Idle
<1> QED
  BY <1>2, <1>3, <1>4, <1>5, <1>6, <1>7 DEF SafeInv

LEMMA SetThreadDataSafeInv ==
  ASSUME ManagerInv, JobsInv, SafeInv, SetThreadData
  PROVE  SafeInv'
<1>1. /\ TypeOK /\ CallInv /\ LifeInv /\ ListsInv
      /\ DestructorInv /\ ReleaseInv /\ SystemsInv /\ UseInv /\ JoinInv /\ NoFault
  BY DEF ManagerInv, SafeInv
<1>2. DestructorInv'
  BY <1>1 DEF SetThreadData, threadVars, systemVars, jobVars, workerVars, DestructorInv,
         BeingReleased, Releasing, At, CallInv, CallType, Frames, Idle
<1>3. ReleaseInv'
  BY <1>1 DEF SetThreadData, threadVars, systemVars, jobVars, workerVars, ReleaseInv,
         BeingReleased, Releasing, Registered, At, CallInv, CallType, Frames, Idle
<1>4. SystemsInv'
  BY <1>1 DEF SetThreadData, threadVars, systemVars, jobVars, workerVars, SystemsInv, Running,
         Registered, At, CallInv, CallType, Frames, Idle
<1>5. UseInv'
  BY <1>1 DEF SetThreadData, threadVars, systemVars, jobVars, workerVars, UseInv, At, CallInv,
         CallType, Frames, Idle
<1>6. JoinInv'
  BY <1>1 DEF SetThreadData, threadVars, systemVars, jobVars, workerVars, JoinInv, Listed, At,
         CallInv, CallType, Frames, Idle
<1>7. NoFault'
  BY <1>1 DEF SetThreadData, threadVars, systemVars, jobVars, workerVars, NoFault, CallInv,
         CallType, Frames, Idle
<1> QED
  BY <1>2, <1>3, <1>4, <1>5, <1>6, <1>7 DEF SafeInv

LEMMA CancelJobSafeInv ==
  ASSUME ManagerInv, JobsInv, SafeInv, NEW j \in Jobs, CancelJob(j)
  PROVE  SafeInv'
<1>1. /\ TypeOK /\ CallInv /\ LifeInv /\ ListsInv
      /\ DestructorInv /\ ReleaseInv /\ SystemsInv /\ UseInv /\ JoinInv /\ NoFault
  BY DEF ManagerInv, SafeInv
<1>2. DestructorInv'
  BY <1>1 DEF CancelJob, threadVars, systemVars, jobVars, workerVars, DestructorInv,
         BeingReleased, Releasing, At, CallInv, CallType, Frames, Idle
<1>3. ReleaseInv'
  BY <1>1 DEF CancelJob, threadVars, systemVars, jobVars, workerVars, ReleaseInv, BeingReleased,
         Releasing, Registered, At, CallInv, CallType, Frames, Idle
<1>4. SystemsInv'
  BY <1>1 DEF CancelJob, threadVars, systemVars, jobVars, workerVars, SystemsInv, Running,
         Registered, At, CallInv, CallType, Frames, Idle
<1>5. UseInv'
  BY <1>1 DEF CancelJob, threadVars, systemVars, jobVars, workerVars, UseInv, At, CallInv,
         CallType, Frames, Idle
<1>6. JoinInv'
  BY <1>1 DEF CancelJob, threadVars, systemVars, jobVars, workerVars, JoinInv, Listed, At,
         CallInv, CallType, Frames, Idle
<1>7. NoFault'
  BY <1>1 DEF CancelJob, threadVars, systemVars, jobVars, workerVars, NoFault, CallInv,
         CallType, Frames, Idle
<1> QED
  BY <1>2, <1>3, <1>4, <1>5, <1>6, <1>7 DEF SafeInv

LEMMA DestroyManagerSafeInv ==
  ASSUME ManagerInv, JobsInv, SafeInv, DestroyManager, phase = "up", held = {}, Len(jobSystems) <= 1
  PROVE  SafeInv'
<1>1. /\ TypeOK /\ CallInv /\ LifeInv /\ ListsInv
      /\ DestructorInv /\ ReleaseInv /\ SystemsInv /\ UseInv /\ JoinInv /\ NoFault
  BY DEF ManagerInv, SafeInv
<1>2. DestructorInv'
  BY <1>1 DEF DestroyManager, threadVars, systemVars, jobVars, workerVars, DestructorInv,
         BeingReleased, Releasing, At, CallInv, CallType, Frames, Idle
<1>3. ReleaseInv'
  BY <1>1 DEF DestroyManager, threadVars, systemVars, jobVars, workerVars, ReleaseInv,
         BeingReleased, Releasing, Registered, At, CallInv, CallType, Frames, Idle
<1>4. SystemsInv'
  BY <1>1 DEF DestroyManager, threadVars, systemVars, jobVars, workerVars, SystemsInv, Running,
         Registered, At, CallInv, CallType, Frames, Idle
<1>5. UseInv'
  BY <1>1 DEF DestroyManager, threadVars, systemVars, jobVars, workerVars, UseInv, At, CallInv,
         CallType, Frames, Idle
<1>6. JoinInv'
  BY <1>1 DEF DestroyManager, threadVars, systemVars, jobVars, workerVars, JoinInv, Listed, At,
         CallInv, CallType, Frames, Idle
<1>7. NoFault'
  BY <1>1 DEF DestroyManager, threadVars, systemVars, jobVars, workerVars, NoFault, CallInv,
         CallType, Frames, Idle
<1> QED
  BY <1>2, <1>3, <1>4, <1>5, <1>6, <1>7 DEF SafeInv

LEMMA SystemIsDownSafeInv ==
  ASSUME ManagerInv, JobsInv, SafeInv, SystemIsDown
  PROVE  SafeInv'
<1>1. /\ TypeOK /\ CallInv /\ LifeInv /\ ListsInv
      /\ DestructorInv /\ ReleaseInv /\ SystemsInv /\ UseInv /\ JoinInv /\ NoFault
  BY DEF ManagerInv, SafeInv
<1>2. DestructorInv'
  BY <1>1 DEF SystemIsDown, threadVars, systemVars, jobVars, workerVars, DestructorInv,
         BeingReleased, Releasing, At, CallInv, CallType, Frames, Idle
<1>3. ReleaseInv'
  BY <1>1 DEF SystemIsDown, threadVars, systemVars, jobVars, workerVars, ReleaseInv,
         BeingReleased, Releasing, Registered, At, CallInv, CallType, Frames, Idle
<1>4. SystemsInv'
  BY <1>1 DEF SystemIsDown, threadVars, systemVars, jobVars, workerVars, SystemsInv, Running,
         Registered, At, CallInv, CallType, Frames, Idle
<1>5. UseInv'
  BY <1>1 DEF SystemIsDown, threadVars, systemVars, jobVars, workerVars, UseInv, At, CallInv,
         CallType, Frames, Idle
<1>6. JoinInv'
  BY <1>1, EmptyList DEF SystemIsDown, threadVars, systemVars, JoinInv, Listed, At, CallInv,
         CallType, Frames
<1>7. NoFault'
  BY <1>1 DEF SystemIsDown, threadVars, systemVars, jobVars, workerVars, NoFault, CallInv,
         CallType, Frames, Idle
<1> QED
  BY <1>2, <1>3, <1>4, <1>5, <1>6, <1>7 DEF SafeInv

LEMMA ShutdownReturnsSafeInv ==
  ASSUME ManagerInv, JobsInv, SafeInv, ShutdownReturns
  PROVE  SafeInv'
<1>1. /\ TypeOK /\ CallInv /\ LifeInv /\ ListsInv
      /\ DestructorInv /\ ReleaseInv /\ SystemsInv /\ UseInv /\ JoinInv /\ NoFault
  BY DEF ManagerInv, SafeInv
<1>2. DestructorInv'
  BY <1>1 DEF ShutdownReturns, threadVars, systemVars, jobVars, workerVars, DestructorInv,
         BeingReleased, Releasing, At, CallInv, CallType, Frames, Idle
<1>3. ReleaseInv'
  BY <1>1 DEF ShutdownReturns, threadVars, systemVars, jobVars, workerVars, ReleaseInv,
         BeingReleased, Releasing, Registered, At, CallInv, CallType, Frames, Idle
<1>4. SystemsInv'
  BY <1>1 DEF ShutdownReturns, threadVars, systemVars, jobVars, workerVars, SystemsInv, Running,
         Registered, At, CallInv, CallType, Frames, Idle
<1>5. UseInv'
  BY <1>1 DEF ShutdownReturns, threadVars, systemVars, jobVars, workerVars, UseInv, At, CallInv,
         CallType, Frames, Idle
<1>6. JoinInv'
  <2>1. ToSet(call.rest) = {} /\ At("shutdown") /\ UNCHANGED <<handle, hasId>>
    BY EmptyList DEF ShutdownReturns, threadVars
  <2>2. call.ret # "idle" => \A t \in Threads : handle[t] # "joinable"
    BY <1>1, <2>1
       DEF DestructorInv, JoinInv, At, BeingReleased, Releasing, CallInv, CallType, Frames
  <2>3. \/ call' = Idle
        \/ call' = [call EXCEPT !.at = "delete"] /\ call.ret # "idle"
    BY DEF ShutdownReturns
  <2>4. call'.at \in {"idle", "delete"} /\ (call'.at = "delete" => call.ret # "idle")
    BY <1>1, <2>3 DEF Idle, CallInv, CallType, Frames
  <2> QED
    BY <1>1, <2>1, <2>2, <2>4 DEF JoinInv, At
<1>7. NoFault'
  BY <1>1 DEF ShutdownReturns, threadVars, systemVars, jobVars, workerVars, NoFault, CallInv,
         CallType, Frames, Idle
<1> QED
  BY <1>2, <1>3, <1>4, <1>5, <1>6, <1>7 DEF SafeInv

LEMMA SlotsReleasedSafeInv ==
  ASSUME ManagerInv, JobsInv, SafeInv, SlotsReleased
  PROVE  SafeInv'
<1>1. /\ TypeOK /\ CallInv /\ LifeInv /\ ListsInv
      /\ DestructorInv /\ ReleaseInv /\ SystemsInv /\ UseInv /\ JoinInv /\ NoFault
  BY DEF ManagerInv, SafeInv
<1>20. phase = "up" /\ call.then = "idle"
  BY <1>1 DEF SlotsReleased, DestructorInv, At, CallInv, CallType, Frames
<1>21. PICK list : list = Append(jobSystems, Main)
  OBVIOUS
<1>22. /\ ToSet(list) = ToSet(jobSystems) \cup {Main}
       /\ ToSet(list) \subseteq mainIds
       /\ \A t \in Threads : handle[t] = "joinable" => \E s \in ToSet(list) : t \in Listed(s)
  BY ONLY ManagerInv, SafeInv, <1>20, <1>21, BeginShutdownReaches
<1>23. /\ call'.at = "shutdown" /\ call'.then = "idle" /\ call'.rest = list
       /\ UNCHANGED <<phase, returned, threadVars, systemVars, jobVars, workerVars, fault>>
  <2>1. Append(jobSystems, Main) = list
    BY <1>21
  <2>2. call'.rest = Append(jobSystems, Main)
    BY <1>1 DEF SlotsReleased, BeginShutdown, Idle, CallInv, CallType, Frames
  <2>3. call'.at = "shutdown" /\ call'.then = "idle"
    BY <1>1, <1>20 DEF SlotsReleased, BeginShutdown, Idle, CallInv, CallType, Frames
  <2> QED
    BY <2>1, <2>2, <2>3 DEF SlotsReleased
<1>2. DestructorInv'
  BY <1>1 DEF SlotsReleased, BeginShutdown, threadVars, systemVars, jobVars, workerVars,
         DestructorInv, BeingReleased, Releasing, At, CallInv, CallType, Frames, Idle
<1>3. ReleaseInv'
  BY <1>1 DEF SlotsReleased, BeginShutdown, threadVars, systemVars, jobVars, workerVars,
         ReleaseInv, BeingReleased, Releasing, Registered, At, CallInv, CallType, Frames, Idle
<1>4. SystemsInv'
  <2>1. UNCHANGED <<phase, queue, threads, jobSystems, mainIds>>
    BY <1>23 DEF systemVars, jobVars
  <2> QED
    BY <1>1, <1>20, <1>22, <1>23, <2>1 DEF SystemsInv, Running, Registered, At
<1>5. UseInv'
  BY <1>1 DEF SlotsReleased, BeginShutdown, threadVars, systemVars, jobVars, workerVars, UseInv,
         At, CallInv, CallType, Frames, Idle
<1>6. JoinInv'
  <2>1. UNCHANGED <<handle, hasId, threads>> /\ ~ At("storeId")
    BY <1>23 DEF threadVars, systemVars, SlotsReleased, At
  <2> QED
    BY <1>1, <1>22, <1>23, <2>1 DEF JoinInv, Listed, At
<1>7. NoFault'
  BY <1>1 DEF SlotsReleased, BeginShutdown, threadVars, systemVars, jobVars, workerVars,
         NoFault, CallInv, CallType, Frames, Idle
<1> QED
  BY <1>2, <1>3, <1>4, <1>5, <1>6, <1>7 DEF SafeInv

LEMMA ShutdownSafeInv ==
  ASSUME ManagerInv, JobsInv, SafeInv, NEW blocking \in BOOLEAN, Shutdown(blocking), phase = "up"
  PROVE  SafeInv'
<1>1. /\ TypeOK /\ CallInv /\ LifeInv /\ ListsInv
      /\ DestructorInv /\ ReleaseInv /\ SystemsInv /\ UseInv /\ JoinInv /\ NoFault
  BY DEF ManagerInv, SafeInv
<1>20. phase = "up" /\ call.then = "idle"
  BY <1>1 DEF Shutdown, DestructorInv, At, CallInv, CallType, Frames
<1>21. PICK list : list = Append(jobSystems, Main)
  OBVIOUS
<1>22. /\ ToSet(list) = ToSet(jobSystems) \cup {Main}
       /\ ToSet(list) \subseteq mainIds
       /\ \A t \in Threads : handle[t] = "joinable" => \E s \in ToSet(list) : t \in Listed(s)
  BY ONLY ManagerInv, SafeInv, <1>20, <1>21, BeginShutdownReaches
<1>23. /\ call'.at = "shutdown" /\ call'.then = "idle" /\ call'.rest = list
       /\ UNCHANGED <<phase, returned, threadVars, systemVars, jobVars, workerVars, fault>>
  <2>1. Append(jobSystems, Main) = list
    BY <1>21
  <2>2. call'.rest = Append(jobSystems, Main)
    BY <1>1 DEF Shutdown, BeginShutdown, Idle, CallInv, CallType, Frames
  <2>3. call'.at = "shutdown" /\ call'.then = "idle"
    BY <1>1, <1>20 DEF Shutdown, BeginShutdown, Idle, CallInv, CallType, Frames
  <2> QED
    BY <2>1, <2>2, <2>3 DEF Shutdown
<1>2. DestructorInv'
  BY <1>1 DEF Shutdown, BeginShutdown, threadVars, systemVars, jobVars, workerVars,
         DestructorInv, BeingReleased, Releasing, At, CallInv, CallType, Frames, Idle
<1>3. ReleaseInv'
  BY <1>1 DEF Shutdown, BeginShutdown, threadVars, systemVars, jobVars, workerVars, ReleaseInv,
         BeingReleased, Releasing, Registered, At, CallInv, CallType, Frames, Idle
<1>4. SystemsInv'
  <2>1. UNCHANGED <<phase, queue, threads, jobSystems, mainIds>>
    BY <1>23 DEF systemVars, jobVars
  <2> QED
    BY <1>1, <1>20, <1>22, <1>23, <2>1 DEF SystemsInv, Running, Registered, At
<1>5. UseInv'
  BY <1>1 DEF Shutdown, BeginShutdown, threadVars, systemVars, jobVars, workerVars, UseInv, At,
         CallInv, CallType, Frames, Idle
<1>6. JoinInv'
  <2>1. UNCHANGED <<handle, hasId, threads>> /\ ~ At("storeId")
    BY <1>23 DEF threadVars, systemVars, Shutdown, At
  <2> QED
    BY <1>1, <1>22, <1>23, <2>1 DEF JoinInv, Listed, At
<1>7. NoFault'
  BY <1>1 DEF Shutdown, BeginShutdown, threadVars, systemVars, jobVars, workerVars, NoFault,
         CallInv, CallType, Frames, Idle
<1> QED
  BY <1>2, <1>3, <1>4, <1>5, <1>6, <1>7 DEF SafeInv

LEMMA DeleteThreadsSafeInv ==
  ASSUME ManagerInv, JobsInv, SafeInv, DeleteThreads
  PROVE  SafeInv'
<1>1. /\ TypeOK /\ CallInv /\ LifeInv /\ ListsInv
      /\ DestructorInv /\ ReleaseInv /\ SystemsInv /\ UseInv /\ JoinInv /\ NoFault
  BY DEF ManagerInv, SafeInv
<1>20. /\ phase' = "deleted" /\ call' = Idle
       /\ UNCHANGED <<returned, threadVars, systemVars, shuttingDown, jobVars, workerVars, fault>>
  BY <1>1 DEF DeleteThreads, JoinInv
<1>2. DestructorInv'
  BY <1>1, <1>20 DEF DeleteThreads, threadVars, systemVars, jobVars, workerVars, DestructorInv,
         BeingReleased, Releasing, At, CallInv, CallType, Frames, Idle
<1>3. ReleaseInv'
  BY <1>1, <1>20 DEF DeleteThreads, threadVars, systemVars, jobVars, workerVars, ReleaseInv,
         BeingReleased, Releasing, Registered, At, CallInv, CallType, Frames, Idle
<1>4. SystemsInv'
  BY <1>1, <1>20 DEF DeleteThreads, threadVars, systemVars, jobVars, workerVars, SystemsInv,
         Running, Registered, At, CallInv, CallType, Frames, Idle
<1>5. UseInv'
  BY <1>1, <1>20 DEF DeleteThreads, threadVars, systemVars, jobVars, workerVars, UseInv, At,
         CallInv, CallType, Frames, Idle
<1>6. JoinInv'
  BY <1>1, <1>20 DEF DeleteThreads, threadVars, systemVars, jobVars, workerVars, JoinInv,
         Listed, At, CallInv, CallType, Frames, Idle
<1>7. NoFault'
  BY <1>1, <1>20 DEF DeleteThreads, threadVars, systemVars, jobVars, workerVars, NoFault,
         CallInv, CallType, Frames, Idle
<1> QED
  BY <1>2, <1>3, <1>4, <1>5, <1>6, <1>7 DEF SafeInv

\* The lists of systems that Release, CreateLocalJobSystem and the step after it leave.
LEMMA ErasedSystems ==
  ASSUME ManagerInv, EraseSystem
  PROVE  /\ ToSet(jobSystems') = ToSet(jobSystems) \ {call.local}
         /\ call.local \in ToSet(jobSystems) /\ call.local \in Locals
<1>1. TypeOK /\ CallInv /\ LifeInv
  BY DEF ManagerInv
<1>2. jobSystems \in Seq(Locals) /\ IsInjective(jobSystems) /\ call.local \in ToSet(jobSystems)
  BY <1>1 DEF TypeOK, LifeInv, EraseSystem, Registered
<1>3. \A q \in Seq(Locals) : IsInjective(q) => \A x \in ToSet(q) :
        /\ RemoveFirst(q, x) \in Seq(Locals)
        /\ ToSet(RemoveFirst(q, x)) = ToSet(q) \ {x}
        /\ IsInjective(RemoveFirst(q, x))
  BY Removing, Zenon
<1>4. jobSystems' = RemoveFirst(jobSystems, call.local)
  BY DEF EraseSystem
<1>5. ToSet(jobSystems') = ToSet(jobSystems) \ {call.local}
  BY <1>2, <1>3, <1>4, Zenon
<1> QED
  BY <1>1, <1>2, <1>5 DEF EraseSystem, CallInv, At

LEMMA AddedSystems ==
  ASSUME ManagerInv, ThreadsAdded
  PROVE  /\ ToSet(jobSystems') = ToSet(jobSystems)
                                   \cup (IF call.then = "register" THEN {call.local} ELSE {})
         /\ call.then = "register" => call.local \in Locals
<1>1. TypeOK /\ CallInv /\ At("setData")
  BY DEF ManagerInv, ThreadsAdded
<1>2. jobSystems \in Seq(Locals) /\ (call.then = "register" => call.local \in Locals)
  BY <1>1 DEF TypeOK, CallInv, AddingOK
<1>3. \A q \in Seq(Locals) : \A x \in Locals :
        /\ Append(q, x) \in Seq(Locals)
        /\ ToSet(Append(q, x)) = ToSet(q) \cup {x}
        /\ IsInjective(q) /\ x \notin ToSet(q) => IsInjective(Append(q, x))
  <2> SUFFICES ASSUME NEW q \in Seq(Locals), NEW x \in Locals
               PROVE  /\ Append(q, x) \in Seq(Locals)
                      /\ ToSet(Append(q, x)) = ToSet(q) \cup {x}
                      /\ IsInjective(q) /\ x \notin ToSet(q) => IsInjective(Append(q, x))
    BY Zenon
  <2> QED
    BY ONLY Appending, q \in Seq(Locals), x \in Locals, Zenon
<1>4. CASE call.then = "register"
  <2>1. jobSystems' = Append(jobSystems, call.local)
    BY <1>4 DEF ThreadsAdded
  <2>2. ToSet(jobSystems') = ToSet(jobSystems) \cup {call.local}
    BY <1>2, <1>3, <1>4, <2>1, Zenon
  <2> QED
    BY <1>2, <1>4, <2>2
<1>5. CASE call.then # "register"
  BY <1>2, <1>5 DEF ThreadsAdded
<1> QED
  BY <1>4, <1>5

LEMMA CreatedSystems ==
  ASSUME ManagerInv, NEW s \in Locals, jobSystems' = Append(jobSystems, s)
  PROVE  ToSet(jobSystems') = ToSet(jobSystems) \cup {s}
<1>1. \A q \in Seq(Locals) : \A x \in Locals :
        /\ Append(q, x) \in Seq(Locals)
        /\ ToSet(Append(q, x)) = ToSet(q) \cup {x}
        /\ IsInjective(q) /\ x \notin ToSet(q) => IsInjective(Append(q, x))
  <2> SUFFICES ASSUME NEW q \in Seq(Locals), NEW x \in Locals
               PROVE  /\ Append(q, x) \in Seq(Locals)
                      /\ ToSet(Append(q, x)) = ToSet(q) \cup {x}
                      /\ IsInjective(q) /\ x \notin ToSet(q) => IsInjective(Append(q, x))
    BY Zenon
  <2> QED
    BY ONLY Appending, q \in Seq(Locals), x \in Locals, Zenon
<1>2. jobSystems \in Seq(Locals)
  BY DEF ManagerInv, TypeOK
<1> QED
  BY <1>1, <1>2, Zenon

LEMMA EraseSystemSafeInv ==
  ASSUME ManagerInv, JobsInv, SafeInv, EraseSystem
  PROVE  SafeInv'
<1>1. /\ TypeOK /\ CallInv /\ LifeInv /\ ListsInv
      /\ DestructorInv /\ ReleaseInv /\ SystemsInv /\ UseInv /\ JoinInv /\ NoFault
  BY DEF ManagerInv, SafeInv
<1>20. /\ ToSet(jobSystems') = ToSet(jobSystems) \ {call.local}
       /\ call.local \in ToSet(jobSystems) /\ call.local \in Locals
  BY ErasedSystems
<1>21. /\ At("erase") /\ call.then = "idle" /\ call.ret # "delete"
       /\ call' = IF call.ret = "idle" THEN Idle ELSE [call EXCEPT !.at = call.ret]
       /\ \A s \in Locals : life[s] = "none" <=> life'[s] = "none"
       /\ UNCHANGED <<phase, returned, threadVars, threads, numThreads, mainIds, held,
                      shuttingDown, jobVars, workerVars, fault>>
  <2>1. life[call.local] = "alive"
    BY <1>1, <1>20 DEF LifeInv, Registered
  <2>2. \A s \in Locals : life[s] = "none" <=> life'[s] = "none"
    BY <1>1, <2>1 DEF EraseSystem, Destroyed, TypeOK
  <2> QED
    BY <1>1, <2>2 DEF EraseSystem, DestructorInv, CallInv, At
<1>22. /\ call'.then = "idle" /\ call'.ret = call.ret /\ call'.end = (IF call.ret = "idle" THEN 0 ELSE call.end)
       /\ call.ret # "idle" => call'.slot = call.slot
       /\ call'.at = call.ret /\ call'.ret = call.ret /\ call'.blocking \in BOOLEAN
       /\ call'.then = "idle"
  BY <1>1, <1>21 DEF CallInv, CallType, Frames, Idle
<1>23. UNCHANGED <<queue, threads, mainIds, phase, held, handle, hasId, userdata, sys, pc, fault>>
  BY <1>21 DEF threadVars, jobVars, workerVars
<1>2. DestructorInv'
  BY <1>1, <1>21, <1>22, <1>23 DEF DestructorInv, BeingReleased, Releasing, At
<1>3. ReleaseInv'
  BY <1>1, <1>21, <1>22 DEF ReleaseInv, BeingReleased, Releasing, At, CallInv, CallType, Frames
<1>4. SystemsInv'
  BY <1>1, <1>20, <1>21, <1>22, <1>23 DEF SystemsInv, ReleaseInv, Releasing, Running,
         Registered, At, CallInv, CallType, Frames
<1>5. UseInv'
  BY <1>1, <1>21, <1>22, <1>23 DEF UseInv, At, CallInv, CallType, Frames
<1>6. JoinInv'
  BY <1>1, <1>21, <1>22, <1>23 DEF JoinInv, At, CallInv, CallType, Frames
<1>7. NoFault'
  BY <1>1, <1>23 DEF NoFault
<1> QED
  BY <1>2, <1>3, <1>4, <1>5, <1>6, <1>7 DEF SafeInv

LEMMA SpawnSafeInv ==
  ASSUME ManagerInv, JobsInv, SafeInv, Spawn
  PROVE  SafeInv'
<1>1. /\ TypeOK /\ CallInv /\ LifeInv /\ ListsInv
      /\ DestructorInv /\ ReleaseInv /\ SystemsInv /\ UseInv /\ JoinInv /\ NoFault
  BY DEF ManagerInv, SafeInv
<1>20. /\ At("spawn") /\ call.slot \in Threads /\ phase = "spawning" /\ call.then = "idle"
  BY <1>1, ManagerAssumption DEF Spawn, CallInv, CallType, Frames, SpawningOK, At, Threads
<1>21. /\ call'.at = "storeId" /\ call'.slot = call.slot /\ call'.then = "idle" /\ call'.ret = call.ret
       /\ call'.end = call.end /\ call'.blocking = call.blocking /\ call'.local = call.local
  BY <1>1, <1>20 DEF Spawn, CallInv, CallType, Frames
<1>22. /\ userdata' = [userdata EXCEPT ![call.slot] = Main]
       /\ pc' = [pc EXCEPT ![call.slot] = "start"]
       /\ handle' = [handle EXCEPT ![call.slot] = "joinable"]
       /\ UNCHANGED <<phase, hasId, threads, mainIds, jobSystems, life, held, queue, sys, fault>>
  BY DEF Spawn, LaunchThread, systemVars, jobVars
<1>23. call.ret = "idle"
  BY <1>1, <1>20 DEF DestructorInv
<1>24. Main \notin Locals
  BY ManagerAssumption
<1>2. DestructorInv'
  BY <1>21, <1>23 DEF DestructorInv, At
<1>3. ReleaseInv'
  BY <1>21 DEF ReleaseInv, BeingReleased, Releasing, At
<1>4. SystemsInv'
  BY <1>1, <1>20, <1>21, <1>22 DEF SystemsInv, Running, Registered, At
<1>5. UseInv'
  BY <1>1, <1>20, <1>21, <1>22, <1>24 DEF UseInv, TypeOK, At
<1>6. JoinInv'
  BY <1>1, <1>20, <1>21, <1>22 DEF JoinInv, TypeOK, At
<1>7. NoFault'
  BY <1>1, <1>22 DEF NoFault
<1> QED
  BY <1>2, <1>3, <1>4, <1>5, <1>6, <1>7 DEF SafeInv

LEMMA SpawnThrowsSafeInv ==
  ASSUME ManagerInv, JobsInv, SafeInv, SpawnThrows
  PROVE  SafeInv'
<1>1. /\ TypeOK /\ CallInv /\ LifeInv /\ ListsInv
      /\ DestructorInv /\ ReleaseInv /\ SystemsInv /\ UseInv /\ JoinInv /\ NoFault
  BY DEF ManagerInv, SafeInv
<1>20. At("spawn") /\ call.slot \in Threads /\ phase = "spawning" /\ call.then = "idle"
  BY <1>1, ManagerAssumption DEF SpawnThrows, CallInv, CallType, Frames, SpawningOK, At, Threads
<1>21. call'.at = "idle" /\ call'.then = "idle" /\ call'.ret = "idle"
  BY <1>1, <1>20 DEF SpawnThrows, Idle
<1>22. /\ userdata' = [userdata EXCEPT ![call.slot] = Main]
       /\ phase' = "failed"
       /\ UNCHANGED <<handle, hasId, threads, mainIds, jobSystems, life, held, queue, sys, pc, fault>>
  BY DEF SpawnThrows, systemVars, jobVars, workerVars
<1>24. Main \notin Locals
  BY ManagerAssumption
<1>2. DestructorInv'
  BY <1>21 DEF DestructorInv, At
<1>3. ReleaseInv'
  BY <1>21 DEF ReleaseInv, BeingReleased, Releasing, At
<1>4. SystemsInv'
  BY <1>1, <1>20, <1>21, <1>22 DEF SystemsInv, Running, Registered, At
<1>5. UseInv'
  BY <1>1, <1>20, <1>21, <1>22, <1>24 DEF UseInv, TypeOK, At
<1>6. JoinInv'
  BY <1>1, <1>20, <1>21, <1>22 DEF JoinInv, TypeOK, At
<1>7. NoFault'
  BY <1>1, <1>22 DEF NoFault
<1> QED
  BY <1>2, <1>3, <1>4, <1>5, <1>6, <1>7 DEF SafeInv

LEMMA InitManagerSafeInv ==
  ASSUME ManagerInv, JobsInv, SafeInv, NEW n \in 0 .. Hardware + 1, InitManager(n)
  PROVE  SafeInv'
<1>1. /\ TypeOK /\ CallInv /\ LifeInv /\ ListsInv
      /\ DestructorInv /\ ReleaseInv /\ SystemsInv /\ UseInv /\ JoinInv /\ NoFault
  BY DEF ManagerInv, SafeInv
<1>20. /\ call.ret = "idle" /\ call.then = "idle" /\ At("idle")
       /\ UNCHANGED <<threadVars, systemVars, jobVars, workerVars, fault>>
  <2>1. At("idle") /\ call.then = "idle" /\ call.ret = "idle"
    BY <1>1 DEF InitManager, DestructorInv, BeingReleased, Releasing, CallInv, CallType, Frames,
           At
  <2> QED
    BY <2>1 DEF InitManager, InitReturns
<1>21. \/ UNCHANGED <<phase, call>>
       \/ /\ phase = "null" /\ phase' = "spawning" /\ call'.at = "spawn" /\ call'.then = "idle"
          /\ call'.ret = "idle"
  <2>1. \/ InitReturns("AlreadyInitialized") \/ InitReturns("InvalidNumThreads")
        \/ /\ phase = "null" /\ phase' = "spawning"
           /\ call' = [Idle EXCEPT !.at = "spawn", !.end = n]
    BY DEF InitManager
  <2> QED
    BY <2>1 DEF InitReturns, Idle
<1>22. /\ call'.at \in {"idle", "spawn"} /\ call'.then = "idle" /\ call'.ret = "idle"
       /\ phase' = phase \/ (phase = "null" /\ phase' = "spawning")
       /\ UNCHANGED <<handle, hasId, threads, mainIds, jobSystems, life, held, queue, sys, pc,
                      userdata, fault>>
  <2>1. /\ call'.at \in {"idle", "spawn"} /\ call'.then = "idle" /\ call'.ret = "idle"
        /\ phase' = phase \/ (phase = "null" /\ phase' = "spawning")
    BY <1>20, <1>21 DEF At
  <2> QED
    BY <1>20, <2>1 DEF threadVars, systemVars, jobVars, workerVars
<1>2. DestructorInv'
  BY <1>22 DEF DestructorInv, At
<1>3. ReleaseInv'
  BY <1>22 DEF ReleaseInv, BeingReleased, Releasing, At
<1>4. SystemsInv'
  BY <1>1, <1>20, <1>22 DEF SystemsInv, Running, Registered, At
<1>5. UseInv'
  BY <1>1, <1>20, <1>22 DEF UseInv, At
<1>6. JoinInv'
  BY <1>1, <1>20, <1>22 DEF JoinInv, At
<1>7. NoFault'
  BY <1>1, <1>22 DEF NoFault
<1> QED
  BY <1>2, <1>3, <1>4, <1>5, <1>6, <1>7 DEF SafeInv

LEMMA StoreIdSafeInv ==
  ASSUME ManagerInv, JobsInv, SafeInv, StoreId
  PROVE  SafeInv'
<1>1. /\ TypeOK /\ CallInv /\ LifeInv /\ ListsInv
      /\ DestructorInv /\ ReleaseInv /\ SystemsInv /\ UseInv /\ JoinInv /\ NoFault
  BY DEF ManagerInv, SafeInv
<1>20. /\ At("storeId") /\ call.then = "idle" /\ phase = "spawning" /\ call.ret = "idle"
       /\ call.slot \in Threads /\ call.end \in Threads /\ call.slot <= call.end
       /\ hasId' = [hasId EXCEPT ![call.slot] = TRUE]
       /\ UNCHANGED <<phase, handle, userdata, jobSystems, life, held, queue, sys, pc, fault>>
  <2>1. /\ At("storeId") /\ call.then = "idle" /\ phase = "spawning"
        /\ call.slot \in Threads /\ call.end \in Threads /\ call.slot <= call.end
        /\ hasId' = [hasId EXCEPT ![call.slot] = TRUE]
        /\ UNCHANGED <<phase, handle, userdata, jobSystems, life, held, jobVars, workerVars, fault>>
    BY <1>1, ManagerAssumption DEF StoreId, CallInv, CallType, Frames, SpawningOK, At, Threads
  <2> QED
    BY <1>1, <2>1 DEF DestructorInv, jobVars, workerVars
<1>21. /\ call'.at \in {"spawn", "setData"} /\ call'.ret = "idle"
       /\ call'.then \in {"idle", "up"} /\ (call'.then = "up" => Main \in mainIds')
       /\ call'.target \in Locals => call'.at = "spawn"
       /\ mainIds \subseteq mainIds'
       /\ \A s \in Locals : threads'[s] = threads[s]
  <2>1. Main \notin Locals /\ Main \in Systems /\ threads \in [Systems -> Seq(Threads)]
    BY <1>1, ManagerAssumption DEF Systems, TypeOK
  <2>2. CASE call.slot < call.end
    <3>1. call' = [call EXCEPT !.at = "spawn", !.slot = @ + 1] /\ UNCHANGED <<threads, mainIds>>
      BY <2>2 DEF StoreId
    <3> QED
      BY <1>1, <1>20, <3>1 DEF CallInv, CallType, Frames
  <2>3. CASE ~ (call.slot < call.end)
    <3> DEFINE all == [i \in 1 .. call.end |-> i]
    <3>1. /\ threads' = [threads EXCEPT ![Main] = @ \o all] /\ mainIds' = mainIds \cup {Main}
          /\ call' = [Idle EXCEPT !.at = "setData", !.todo = all, !.then = "up"]
      BY <2>3 DEF StoreId
    <3> HIDE DEF all
    <3>2. call'.at = "setData" /\ call'.then = "up" /\ call'.ret = "idle" /\ call'.target = Main
      BY <3>1 DEF Idle
    <3>3. \A s \in Locals : threads'[s] = threads[s]
      BY <2>1, <3>1 DEF Systems
    <3> QED
      BY <2>1, <3>1, <3>2, <3>3
  <2> QED
    BY <2>2, <2>3
<1>2. DestructorInv'
  BY <1>21 DEF DestructorInv, At
<1>3. ReleaseInv'
  BY <1>21 DEF ReleaseInv, BeingReleased, Releasing, At
<1>4. SystemsInv'
  BY <1>1, <1>20, <1>21 DEF SystemsInv, Running, Registered, At
<1>5. UseInv'
  BY <1>1, <1>20, <1>21 DEF UseInv, At
<1>6. JoinInv'
  BY <1>1, <1>20, <1>21 DEF JoinInv, TypeOK, At
<1>7. NoFault'
  BY <1>1, <1>20 DEF NoFault
<1> QED
  BY <1>2, <1>3, <1>4, <1>5, <1>6, <1>7 DEF SafeInv

LEMMA ShutdownSystemSafeInv ==
  ASSUME ManagerInv, JobsInv, SafeInv, ShutdownSystem
  PROVE  SafeInv'
<1>1. /\ TypeOK /\ CallInv /\ LifeInv /\ ListsInv
      /\ DestructorInv /\ ReleaseInv /\ SystemsInv /\ UseInv /\ JoinInv /\ NoFault
  BY DEF ManagerInv, SafeInv
<1>20. /\ At("shutdown") /\ call.then = "idle" /\ call.ret # "nextSlot"
       /\ call.rest \in Seq(Systems) /\ call.rest # << >>
       /\ call.blocking \in BOOLEAN /\ call.todo \in Seq(Threads \cup {NoThread})
  BY <1>1
     DEF ShutdownSystem, DestructorInv, BeingReleased, Releasing, CallInv, CallType, Frames, At
<1>21. PICK s : s = Head(call.rest)
  OBVIOUS
<1>22. PICK rest : rest = Tail(call.rest)
  OBVIOUS
<1>23. s \in Systems /\ rest \in Seq(Systems) /\ ToSet(call.rest) = {s} \cup ToSet(rest)
  BY <1>20, <1>21, <1>22, HeadAndTail
<1>24. s \in mainIds /\ (s = Main \/ Registered(s)) /\ ToSet(rest) \subseteq ToSet(call.rest)
  BY <1>1, <1>20, <1>23 DEF SystemsInv, Registered
<1>25. numThreads[s] = Len(threads[s]) /\ threads[s] \in Seq(Threads) /\ Len(threads[s]) \in Nat
  BY <1>1, <1>20, <1>23, <1>24 DEF ListsInv, ListInv, At, TypeOK
<1> DEFINE element(i) == IF i <= Len(threads[s]) THEN threads[s][i] ELSE NoThread
           list == [i \in 1 .. numThreads[s] |-> element(i)]
<1>26. list = threads[s]
  BY <1>25
<1> HIDE DEF list
<1>27. /\ call' = [call EXCEPT !.at = "join", !.rest = Tail(@),
                               !.todo = IF call.blocking THEN list ELSE << >>]
       /\ UNCHANGED <<phase, returned, threadVars, systemVars, shuttingDown, jobVars,
                      workerVars, fault>>
  BY <1>21, <1>24 DEF ShutdownSystem, list
<1>28. /\ call'.at = "join" /\ call'.then = "idle" /\ call'.ret = call.ret
       /\ call'.end = call.end /\ call'.blocking = call.blocking /\ call'.rest = rest
       /\ call'.todo = IF call.blocking THEN threads[s] ELSE << >>
  BY <1>20, <1>22, <1>26, <1>27, <1>1 DEF CallInv, CallType, Frames
<1>29. UNCHANGED <<phase, handle, hasId, userdata, threads, mainIds, jobSystems, life, held,
                   queue, sys, pc, fault>>
  BY <1>27 DEF threadVars, systemVars, jobVars, workerVars
<1>30. /\ Listed(s) \subseteq Threads
       /\ ToSet(call'.todo) = IF call.blocking THEN Listed(s) ELSE {}
  BY <1>25, <1>28, EmptyList, IndexOf DEF Listed
<1>2. DestructorInv'
  BY <1>1, <1>20, <1>28, <1>29 DEF DestructorInv, At
<1>3. ReleaseInv'
  BY <1>28 DEF ReleaseInv, BeingReleased, Releasing, At
<1>4. SystemsInv'
  BY <1>1, <1>20, <1>24, <1>28, <1>29 DEF SystemsInv, Running, Registered, At
<1>5. UseInv'
  BY <1>1, <1>28, <1>29 DEF UseInv, At
<1>6. JoinInv'
  <2>1. \A t \in Threads : handle[t] = "joinable" /\ call.blocking =>
          t \in Listed(s) \/ \E r \in ToSet(rest) : t \in Listed(r)
    BY <1>1, <1>20, <1>23 DEF JoinInv, At
  <2>2. \A r : Listed(r)' = Listed(r)
    BY <1>29 DEF Listed
  <2> QED
    BY <1>1, <1>20, <1>28, <1>29, <1>30, <2>1, <2>2 DEF JoinInv, At
<1>7. NoFault'
  BY <1>1, <1>29 DEF NoFault
<1> QED
  BY <1>2, <1>3, <1>4, <1>5, <1>6, <1>7 DEF SafeInv

LEMMA JoinSafeInv ==
  ASSUME ManagerInv, JobsInv, SafeInv, Join
  PROVE  SafeInv'
<1>1. /\ TypeOK /\ CallInv /\ LifeInv /\ ListsInv
      /\ DestructorInv /\ ReleaseInv /\ SystemsInv /\ UseInv /\ JoinInv /\ NoFault
  BY DEF ManagerInv, SafeInv
<1>20. /\ At("join") /\ call.then = "idle" /\ call.ret # "nextSlot"
       /\ call.todo \in Seq(Threads \cup {NoThread}) /\ call.todo # << >>
  BY <1>1 DEF Join, DestructorInv, BeingReleased, Releasing, CallInv, CallType, Frames, At
<1>21. PICK t : t = Head(call.todo)
  OBVIOUS
<1>22. PICK rest : rest = Tail(call.todo)
  OBVIOUS
<1>23. ToSet(call.todo) = {t} \cup ToSet(rest)
  BY <1>20, <1>21, <1>22, HeadAndTail
<1>24. t \in Threads /\ t # NoThread /\ ToSet(rest) \subseteq Threads
  <2>1. {t} \cup ToSet(rest) \subseteq Threads
    BY <1>1, <1>20, <1>23 DEF JoinInv, At
  <2>2. NoThread \notin Threads
    BY ManagerAssumption DEF Threads, NoThread
  <2> QED
    BY <2>1, <2>2
<1>25. /\ hasId[t] /\ handle[t] = "joinable" => pc[t] = "exited"
       /\ handle' = IF hasId[t] THEN [handle EXCEPT ![t] = "joined"] ELSE handle
       /\ call' = [call EXCEPT !.todo = Tail(@)]
       /\ UNCHANGED <<phase, returned, hasId, affinity, userdata, systemVars,
                      shuttingDown, jobVars, workerVars, fault>>
  BY <1>21, <1>24 DEF Join, HasSpawned
<1>26. /\ call'.at = "join" /\ call'.then = "idle" /\ call'.ret = call.ret
       /\ call'.end = call.end /\ call'.blocking = call.blocking /\ call'.rest = call.rest
       /\ call'.todo = rest
  BY <1>1, <1>20, <1>22, <1>25 DEF CallInv, CallType, Frames, At
<1>27. UNCHANGED <<phase, hasId, userdata, threads, mainIds, jobSystems, life, held,
                   queue, sys, pc, fault>>
  BY <1>25 DEF systemVars, jobVars, workerVars
<1>28. /\ handle'[t] # "joinable" /\ (handle'[t] # "none" => handle[t] # "none")
       /\ \A u \in Threads : u # t => handle'[u] = handle[u]
       /\ handle'[t] = "joined" => pc[t] = "exited"
  <2>1. hasId[t] => handle[t] # "none"
    BY <1>1, <1>24 DEF CallInv, SpawningOK
  <2>2. handle[t] # "none" => hasId[t]
    BY <1>1, <1>20, <1>24 DEF JoinInv, At
  <2>3. handle[t] = "joined" => pc[t] = "exited"
    BY <1>1, <1>24 DEF UseInv
  <2> QED
    BY <1>1, <1>24, <1>25, <2>1, <2>2, <2>3 DEF TypeOK
<1>2. DestructorInv'
  BY <1>1, <1>20, <1>26, <1>27 DEF DestructorInv, At
<1>3. ReleaseInv'
  BY <1>26 DEF ReleaseInv, BeingReleased, Releasing, At
<1>4. SystemsInv'
  BY <1>1, <1>20, <1>26, <1>27 DEF SystemsInv, Running, Registered, At
<1>5. UseInv'
  BY <1>1, <1>26, <1>27, <1>28 DEF UseInv, At
<1>6. JoinInv'
  BY <1>1, <1>20, <1>23, <1>24, <1>26, <1>27, <1>28 DEF JoinInv, Listed, At
<1>7. NoFault'
  BY <1>1, <1>27 DEF NoFault
<1> QED
  BY <1>2, <1>3, <1>4, <1>5, <1>6, <1>7 DEF SafeInv

LEMMA DropSafeInv ==
  ASSUME ManagerInv, JobsInv, SafeInv, NEW s \in Locals, Drop(s), \A t \in Threads : handle[t] # "joinable"
  PROVE  SafeInv'
<1>1. /\ TypeOK /\ CallInv /\ LifeInv /\ ListsInv
      /\ DestructorInv /\ ReleaseInv /\ SystemsInv /\ UseInv /\ JoinInv /\ NoFault
  BY DEF ManagerInv, SafeInv
<1>20. /\ At("idle") /\ s \in held /\ held' = held \ {s} /\ life[s] = "alive"
       /\ call.ret = "idle" /\ call.then = "idle" /\ ~ BeingReleased
  BY <1>1 DEF Drop, LifeInv, DestructorInv, BeingReleased, Releasing, CallInv, CallType, Frames,
         At
<1>21. \A r \in Locals : life'[r] = "none" <=> life[r] = "none"
  BY <1>1, <1>20 DEF Drop, Destroyed, TypeOK
<1>22. UNCHANGED <<phase, handle, hasId, userdata, threads, mainIds, jobSystems, call, queue, sys,
                   pc, fault>>
  BY DEF Drop, threadVars, jobVars, workerVars
<1>2. DestructorInv'
  BY <1>1, <1>20, <1>22 DEF DestructorInv, At
<1>3. ReleaseInv'
  BY <1>20, <1>22 DEF ReleaseInv, BeingReleased, Releasing, At
<1>4. SystemsInv'
  BY <1>1, <1>22 DEF SystemsInv, Running, Registered, At
<1>5. UseInv'
  BY <1>1, <1>20, <1>21, <1>22 DEF UseInv, At
<1>6. JoinInv'
  BY <1>1, <1>22 DEF JoinInv, Listed, At
<1>7. NoFault'
  BY <1>1, <1>22 DEF NoFault
<1> QED
  BY <1>2, <1>3, <1>4, <1>5, <1>6, <1>7 DEF SafeInv

LEMMA ScheduleJobSafeInv ==
  ASSUME ManagerInv, JobsInv, SafeInv, NEW s \in Systems, NEW j \in Jobs, ScheduleJob(s, j)
  PROVE  SafeInv'
<1>1. /\ TypeOK /\ CallInv /\ LifeInv /\ ListsInv
      /\ DestructorInv /\ ReleaseInv /\ SystemsInv /\ UseInv /\ JoinInv /\ NoFault
  BY DEF ManagerInv, SafeInv
<1>20. /\ At("idle") /\ queue' = [queue EXCEPT ![s] = @ \cup {j}] /\ Main \notin Locals
       /\ queue \in [Systems -> SUBSET Jobs] /\ Locals \subseteq Systems
  BY <1>1, ManagerAssumption DEF ScheduleJob, At, TypeOK, Systems
<1>22. UNCHANGED <<phase, handle, hasId, userdata, threads, mainIds, jobSystems, life, held, call,
                   sys, pc, fault>>
  BY DEF ScheduleJob, threadVars, systemVars, workerVars
<1>2. DestructorInv'
  BY <1>1, <1>22 DEF DestructorInv, BeingReleased, Releasing, At
<1>3. ReleaseInv'
  BY <1>1, <1>20, <1>22 DEF ReleaseInv, BeingReleased, Releasing, Registered, At
<1>4. SystemsInv'
  BY <1>1, <1>20, <1>22 DEF SystemsInv, Running, Registered, At
<1>5. UseInv'
  BY <1>1, <1>20, <1>22 DEF UseInv, At
<1>6. JoinInv'
  BY <1>1, <1>22 DEF JoinInv, Listed, At
<1>7. NoFault'
  BY <1>1, <1>22 DEF NoFault
<1> QED
  BY <1>2, <1>3, <1>4, <1>5, <1>6, <1>7 DEF SafeInv

LEMMA BeginReleaseSafeInv ==
  ASSUME ManagerInv, JobsInv, SafeInv, NEW s \in Locals, NEW frame \in Frames, BeginRelease(s, frame),
         phase = "up", call.then = "idle", ~ At("setData"), ~ Releasing,
         frame.ret \in {"idle", "nextSlot"}, frame.ret = "idle" => s \in held,
         frame.ret = "nextSlot" => held = {} /\ frame.end <= 1 /\ frame.slot > frame.end,
         UNCHANGED <<phase, returned, threadVars, numThreads, mainIds, jobSystems, life, held,
                     shuttingDown, jobVars, workerVars, fault>>
  PROVE  SafeInv'
<1>1. /\ TypeOK /\ CallInv /\ LifeInv /\ ListsInv
      /\ DestructorInv /\ ReleaseInv /\ SystemsInv /\ UseInv /\ JoinInv /\ NoFault
  BY DEF ManagerInv, SafeInv
<1>20. /\ threads' = [threads EXCEPT ![Main] = @ \o threads[s]]
       /\ call' = [frame EXCEPT !.at = "setData", !.target = Main, !.todo = threads[s],
                                !.then = "remove", !.local = s]
  BY DEF BeginRelease
<1>21. /\ call'.at = "setData" /\ call'.then = "remove" /\ call'.ret = frame.ret
       /\ call'.end = frame.end /\ call'.slot = frame.slot /\ call'.target = Main
       /\ call'.local = s
  BY <1>20 DEF Frames
<1>22. /\ \A r \in Locals : threads'[r] = threads[r]
       /\ Main \notin Locals
  BY <1>1, <1>20, ManagerAssumption DEF TypeOK, Systems
<1>23. UNCHANGED <<phase, handle, hasId, userdata, mainIds, jobSystems, life, held, queue, sys, pc,
                   fault>>
  BY DEF threadVars, jobVars, workerVars
<1>24. frame.ret = "nextSlot" => ~ (frame.slot <= frame.end)
  BY DEF Frames
<1>25. \A u \in Threads : handle[u] # "none" => hasId[u] \/ (At("storeId") /\ u = call.slot)
  BY <1>1 DEF JoinInv
<1>26. ~ At("storeId")
  BY <1>1 DEF CallInv, SpawningOK
<1>2. DestructorInv'
  BY <1>21, <1>23, <1>24 DEF DestructorInv, BeingReleased, At
<1>3. ReleaseInv'
  BY <1>21, <1>23 DEF ReleaseInv, BeingReleased, Releasing, Registered, At
<1>4. SystemsInv'
  BY <1>1, <1>21, <1>22, <1>23 DEF SystemsInv, Running, Registered, At
<1>5. UseInv'
  BY <1>1, <1>21, <1>22, <1>23 DEF UseInv, At
<1>6. JoinInv'
  BY <1>21, <1>23, <1>25, <1>26 DEF JoinInv, At
<1>7. NoFault'
  BY <1>1, <1>23 DEF NoFault
<1> QED
  BY <1>2, <1>3, <1>4, <1>5, <1>6, <1>7 DEF SafeInv

LEMMA ReleaseJobSystemSafeInv ==
  ASSUME ManagerInv, JobsInv, SafeInv, NEW s \in Locals, ReleaseJobSystem(s), phase = "up"
  PROVE  SafeInv'
<1>1. CallInv
  BY DEF ManagerInv
<1>2. call.then = "idle" /\ ~ At("setData") /\ ~ Releasing
  BY <1>1 DEF ReleaseJobSystem, CallInv, At, Releasing
<1>3. Idle \in Frames /\ Idle.ret = "idle"
  BY IdleTyped DEF Idle
<1>4. BeginRelease(s, Idle) /\ s \in held
  BY DEF ReleaseJobSystem
<1> QED
  BY <1>2, <1>3, <1>4, BeginReleaseSafeInv DEF ReleaseJobSystem

\* The destructor finds a system in its slot, which nobody else holds.
LEMMA ReleaseSlotSafeInv ==
  ASSUME ManagerInv, JobsInv, SafeInv, ReleaseSlot
  PROVE  SafeInv'
<1>1. TypeOK /\ CallInv /\ DestructorInv
  BY DEF ManagerInv, SafeInv
<1>2. /\ At("nextSlot") /\ call.then = "idle" /\ ~ At("setData") /\ ~ Releasing
      /\ call.slot <= call.end /\ call.slot \in Nat \ {0} /\ call.end \in Nat
  BY <1>1 DEF ReleaseSlot, CallInv, CallType, Frames, At, Releasing
<1>3. /\ call.ret = "nextSlot" /\ call.end <= 1 /\ call.end = Len(jobSystems)
      /\ phase = "up" /\ held = {}
  BY <1>1, <1>2 DEF DestructorInv, CallInv, CallType, Frames, At
<1> DEFINE frame == [call EXCEPT !.slot = @ + 1]
<1>4. frame \in Frames /\ frame.ret = "nextSlot" /\ frame.end <= 1 /\ frame.slot > frame.end
  BY <1>1, <1>2, <1>3 DEF CallInv, CallType, Frames
<1>5. jobSystems[call.slot] \in Locals /\ Registered(jobSystems[call.slot])
  <2>1. jobSystems \in Seq(Locals) /\ call.slot \in 1 .. Len(jobSystems)
    BY <1>1, <1>2, <1>3 DEF TypeOK
  <2> QED
    BY <2>1, ElementAt DEF Registered
<1>6. /\ BeginRelease(jobSystems[call.slot], frame)
      /\ UNCHANGED <<phase, returned, threadVars, numThreads, mainIds, jobSystems,
                     life, held, shuttingDown, jobVars, workerVars, fault>>
  BY <1>2, <1>3 DEF ReleaseSlot
<1> HIDE DEF frame
<1> QED
  BY <1>2, <1>3, <1>4, <1>5, <1>6, BeginReleaseSafeInv

LEMMA MoveThreadsSafeInv ==
  ASSUME ManagerInv, JobsInv, SafeInv, NEW s \in Systems, NEW n \in 0 .. Hardware, NEW then \in {"idle", "register"}, MoveThreads(s, n, then), At("idle"), phase = "up",
         then = "idle" => s = Main \/ Registered(s),
         \A r \in Locals : life[r] # "none" => life'[r] # "none",
         \A r \in Locals : life'[r] # "none" => life[r] # "none" \/ r \in held',
         s \in Locals => life'[s] # "none",
         held \subseteq held', mainIds \subseteq mainIds', then = "register" => s \in mainIds',
         UNCHANGED <<phase, returned, threadVars, jobSystems, shuttingDown, jobVars, workerVars,
                     fault>>
  PROVE  SafeInv'
<1>1. /\ TypeOK /\ CallInv /\ LifeInv /\ ListsInv
      /\ DestructorInv /\ ReleaseInv /\ SystemsInv /\ UseInv /\ JoinInv /\ NoFault
  BY DEF ManagerInv, SafeInv
<1> DEFINE first == SubSeq(threads[Main], 1, n)
<1>20. /\ call' = [Idle EXCEPT !.at = "setData", !.target = s, !.todo = first,
                               !.then = then, !.local = s]
       /\ threads' = [[threads EXCEPT ![Main] = SubSeq(@, n + 1, Len(@))] EXCEPT ![s] = @ \o first]
  BY DEF MoveThreads
<1> HIDE DEF first
<1>21. /\ call'.at = "setData" /\ call'.then = then /\ call'.ret = "idle"
       /\ call'.target = s /\ call'.local = s
  BY <1>20 DEF Idle
<1>22. /\ \A r \in Locals : r # s => threads'[r] = threads[r]
       /\ Main \notin Locals
  <2>1. threads \in [Systems -> Seq(Threads)] /\ Main \notin Locals /\ Locals \subseteq Systems
    BY <1>1, ManagerAssumption DEF TypeOK, Systems
  <2> QED
    BY <1>20, <2>1
<1>23. UNCHANGED <<phase, handle, hasId, userdata, jobSystems, queue, sys, pc, fault>>
  BY DEF threadVars, jobVars, workerVars
<1>25. \A u \in Threads : handle[u] # "none" => hasId[u] \/ (At("storeId") /\ u = call.slot)
  BY <1>1 DEF JoinInv
<1>26. call.then = "idle"
  BY <1>1 DEF CallInv, At
<1>2. DestructorInv'
  BY <1>21 DEF DestructorInv, At
<1>3. ReleaseInv'
  BY <1>21 DEF ReleaseInv, BeingReleased, Releasing, At
<1>4. SystemsInv'
  BY <1>1, <1>21, <1>22, <1>23, <1>26 DEF SystemsInv, Running, Registered, At
<1>5. UseInv'
  BY <1>1, <1>21, <1>22, <1>23 DEF UseInv, At
<1>6. JoinInv'
  BY <1>21, <1>23, <1>25 DEF JoinInv, At
<1>7. NoFault'
  BY <1>1, <1>23 DEF NoFault
<1> QED
  BY <1>2, <1>3, <1>4, <1>5, <1>6, <1>7 DEF SafeInv

LEMMA StutterSafeInv ==
  ASSUME SafeInv, UNCHANGED vars
  PROVE  SafeInv'
<1> USE DEF vars, threadVars, systemVars, jobVars, workerVars, At, Registered, BeingReleased,
            Releasing, Running, Listed
<1>1. DestructorInv' /\ ReleaseInv'
  BY DEF SafeInv, DestructorInv, ReleaseInv
<1>2. SystemsInv'
  BY DEF SafeInv, SystemsInv
<1>3. UseInv'
  BY DEF SafeInv, UseInv
<1>4. JoinInv' /\ NoFault'
  BY DEF SafeInv, JoinInv, NoFault
<1> QED
  BY <1>1, <1>2, <1>3, <1>4 DEF SafeInv

LEMMA ReseveThreadsSafeInv ==
  ASSUME ManagerInv, JobsInv, SafeInv, NEW s \in Systems, NEW n \in 0 .. Hardware,
         ReseveThreads(s, n), phase = "up", s = Main \/ Registered(s)
  PROVE  SafeInv'
<1>1. TypeOK /\ LifeInv
  BY DEF ManagerInv
<1>2. CASE MayReserve(n)
  <2>1. s \in Locals => life[s] # "none"
    <3>1. s \in Locals => s \in held
      BY ManagerAssumption DEF ReseveThreads
    <3> QED
      BY <1>1, <3>1 DEF LifeInv
  <2>2. /\ MoveThreads(s, n, "idle") /\ At("idle")
        /\ UNCHANGED <<phase, returned, threadVars, mainIds, jobSystems, life, held,
                       shuttingDown, jobVars, workerVars, fault>>
    BY <1>2 DEF ReseveThreads
  <2> QED
    BY <2>1, <2>2, MoveThreadsSafeInv
<1>3. CASE ~ MayReserve(n)
  BY <1>3, StutterSafeInv DEF ReseveThreads, vars, systemVars
<1> QED
  BY <1>2, <1>3

LEMMA RegisteredSafeInv ==
  ASSUME ManagerInv, JobsInv, SafeInv, NEW s \in Locals, UNCHANGED <<phase, returned, threadVars, threads, numThreads, call, shuttingDown, jobVars, workerVars, fault>>, At("idle"), phase = "up",
         life[s] = "none", life' = [life EXCEPT ![s] = "alive"], held' = held \cup {s},
         mainIds' = mainIds \cup {s}, ToSet(jobSystems') = ToSet(jobSystems) \cup {s}
  PROVE  SafeInv'
<1>1. /\ TypeOK /\ CallInv /\ LifeInv /\ ListsInv
      /\ DestructorInv /\ ReleaseInv /\ SystemsInv /\ UseInv /\ JoinInv /\ NoFault
  BY DEF ManagerInv, SafeInv
<1>20. call.ret = "idle" /\ call.then = "idle" /\ ~ BeingReleased
  BY <1>1 DEF DestructorInv, BeingReleased, Releasing, CallInv, CallType, Frames, At
<1>21. /\ life'[s] = "alive" /\ \A r \in Locals : r # s => life'[r] = life[r]
       /\ UNCHANGED <<phase, handle, hasId, userdata, threads, call, queue, sys, pc, fault>>
  BY <1>1 DEF TypeOK, threadVars, jobVars, workerVars
<1>2. DestructorInv'
  BY <1>20, <1>21 DEF DestructorInv, At
<1>3. ReleaseInv'
  BY <1>20, <1>21 DEF ReleaseInv, BeingReleased, Releasing, At
<1>4. SystemsInv'
  BY <1>1, <1>20, <1>21 DEF SystemsInv, Running, Registered, At
<1>5. UseInv'
  BY <1>1, <1>20, <1>21 DEF UseInv, At
<1>6. JoinInv'
  BY <1>1, <1>21 DEF JoinInv, Listed, At
<1>7. NoFault'
  BY <1>1, <1>21 DEF NoFault
<1> QED
  BY <1>2, <1>3, <1>4, <1>5, <1>6, <1>7 DEF SafeInv

LEMMA CreateLocalJobSystemSafeInv ==
  ASSUME ManagerInv, JobsInv, SafeInv, NEW s \in Locals, NEW n \in 0 .. Hardware,
         CreateLocalJobSystem(s, n), phase = "up"
  PROVE  SafeInv'
<1>1. TypeOK
  BY DEF ManagerInv
<1>2. /\ At("idle") /\ life[s] = "none" /\ s \in Systems
      /\ life' = [life EXCEPT ![s] = "alive"] /\ held' = held \cup {s}
      /\ mainIds' = mainIds \cup {s}
      /\ UNCHANGED <<phase, returned, threadVars, shuttingDown, jobVars, workerVars, fault>>
  BY DEF CreateLocalJobSystem, Systems
<1>3. life'[s] = "alive" /\ \A r \in Locals : r # s => life'[r] = life[r]
  BY <1>1, <1>2 DEF TypeOK
<1>4. CASE MayReserve(n)
  <2>1. MoveThreads(s, n, "register") /\ UNCHANGED jobSystems
    BY <1>4 DEF CreateLocalJobSystem
  <2> QED
    BY <1>2, <1>3, <2>1, MoveThreadsSafeInv
<1>5. CASE ~ MayReserve(n)
  <2>1. jobSystems' = Append(jobSystems, s) /\ UNCHANGED <<threads, numThreads, call>>
    BY <1>5 DEF CreateLocalJobSystem
  <2>2. ToSet(jobSystems') = ToSet(jobSystems) \cup {s}
    BY <2>1, CreatedSystems
  <2> QED
    BY <1>2, <2>1, <2>2, RegisteredSafeInv
<1> QED
  BY <1>4, <1>5

LEMMA ThreadsAddedSafeInv ==
  ASSUME ManagerInv, JobsInv, SafeInv, ThreadsAdded
  PROVE  SafeInv'
<1>1. /\ TypeOK /\ CallInv /\ LifeInv /\ ListsInv
      /\ DestructorInv /\ ReleaseInv /\ SystemsInv /\ UseInv /\ JoinInv /\ NoFault
  BY DEF ManagerInv, SafeInv
<1>20. /\ At("setData") /\ call.ret # "delete" /\ (call.ret = "nextSlot" => call.then = "remove")
       /\ UNCHANGED <<threadVars, mainIds, life, held, shuttingDown, jobVars, workerVars, fault>>
  BY <1>1 DEF ThreadsAdded, DestructorInv, BeingReleased, Releasing, CallInv, CallType, Frames,
         At
<1>21. UNCHANGED <<handle, hasId, userdata, mainIds, life, held, queue, sys, pc, fault>>
  BY <1>20 DEF threadVars, jobVars, workerVars
<1>22. /\ phase' = IF call.then = "up" THEN "up" ELSE phase
       /\ call.then = "remove" =>
            /\ call' = [call EXCEPT !.at = "cancel", !.then = "idle"]
            /\ threads' = [threads EXCEPT ![call.local] = << >>]
       /\ call.then # "remove" => call' = Idle /\ UNCHANGED threads
  BY DEF ThreadsAdded
<1>23. /\ call'.then = "idle" /\ call'.at \in {"idle", "cancel"}
       /\ call.then = "remove" =>
            /\ call'.at = "cancel" /\ call'.local = call.local /\ call.local \in Locals
            /\ call'.ret = call.ret /\ call'.slot = call.slot /\ call'.end = call.end
       /\ call.then # "remove" => call'.at = "idle" /\ call'.ret = "idle"
  <2>1. CASE call.then = "remove"
    <3>1. call.local \in Locals
      BY <1>1, <1>20, <2>1 DEF CallInv, AddingOK
    <3>2. /\ call'.at = "cancel" /\ call'.then = "idle" /\ call'.local = call.local
          /\ call'.ret = call.ret /\ call'.slot = call.slot /\ call'.end = call.end
      BY <1>1, <1>22, <2>1 DEF CallInv, CallType, Frames
    <3> QED
      BY <2>1, <3>1, <3>2
  <2>2. CASE call.then # "remove"
    BY <1>22, <2>2 DEF Idle
  <2> QED
    BY <2>1, <2>2
<1>24. /\ call.then = "remove" => threads'[call.local] = << >>
       /\ \A r \in Systems : ~ (call.then = "remove" /\ r = call.local) => threads'[r] = threads[r]
       /\ Locals \subseteq Systems
  BY <1>1, <1>22, <1>23 DEF TypeOK, Systems
<1>25. /\ ToSet(jobSystems') = ToSet(jobSystems)
                                 \cup (IF call.then = "register" THEN {call.local} ELSE {})
       /\ call.then = "register" => call.local \in Locals
  BY AddedSystems
<1>2. DestructorInv'
  BY <1>1, <1>20, <1>21, <1>22, <1>23 DEF DestructorInv, BeingReleased, Releasing, At
<1>3. ReleaseInv'
  BY <1>1, <1>21, <1>23, <1>24, <1>25 DEF ReleaseInv, BeingReleased, Releasing, Registered, At
<1>4. SystemsInv'
  BY <1>1, <1>20, <1>21, <1>22, <1>23, <1>24, <1>25 DEF SystemsInv, Running, Registered, At
<1>5. UseInv'
  BY <1>1, <1>21, <1>22, <1>23 DEF UseInv, At
<1>6. JoinInv'
  BY <1>1, <1>20, <1>21, <1>23 DEF JoinInv, At
<1>7. NoFault'
  BY <1>1, <1>21 DEF NoFault
<1> QED
  BY <1>2, <1>3, <1>4, <1>5, <1>6, <1>7 DEF SafeInv

\* Whoever works has been spawned and not joined.
LEMMA WorkersAreJoinable ==
  ASSUME ManagerInv, JobsInv, SafeInv, NEW t \in Threads, pc[t] \notin {"none", "exited"}
  PROVE  handle[t] = "joinable"
BY DEF ManagerInv, TypeOK, JobsInv, WorkersInv, SafeInv, UseInv

\* A worker has a system, which exists.
LEMMA WorkerAvoidsFaults ==
  ASSUME ManagerInv, JobsInv, SafeInv, NEW t \in Threads, WorkerStep(t)
  PROVE  UNCHANGED fault /\ ~ UseAfterFree(t)
<1>1. ~ UseAfterFree(t)
  <2> SUFFICES ASSUME UseAfterFree(t) PROVE FALSE
    OBVIOUS
  <2>1. handle[t] = "joinable"
    BY WorkersAreJoinable DEF UseAfterFree
  <2>2. sys[t] \in Systems /\ sys[t] \in Locals /\ life[sys[t]] # "alive"
    BY DEF UseAfterFree, Usable, JobsInv, WorkersInv
  <2>3. life[sys[t]] # "none" /\ sys[t] \in held
    BY <2>1, <2>2 DEF SafeInv, UseInv
  <2> QED
    BY <2>2, <2>3 DEF ManagerInv, LifeInv
<1>2. Start(t) => UNCHANGED fault
  <2>1. Start(t) => userdata[t] # NoSystem
    BY ManagerAssumption DEF Start, Goto, GetUserdata, JobsInv, WorkersInv
  <2> QED
    BY <2>1 DEF Start, GetUserdata, Quiet
<1>3. CASE SetAffinity(t) \/ LoopTest(t) \/ GetSystem(t)
  BY <1>1, <1>3 DEF SetAffinity, LoopTest, GetSystem, Quiet
<1>4. CASE SendChild(t) \/ Finish(t) \/ ReleaseLock(t)
  BY <1>1, <1>4 DEF SendChild, Finish, ReleaseLock, Quiet
<1>5. CASE \E j \in Jobs : TakeJob(t, j)
  BY <1>1, <1>5 DEF TakeJob, Quiet
<1>6. CASE FindNothing(t) \/ Call(t) \/ FunctionReturns(t)
  BY <1>1, <1>6 DEF FindNothing, Call, FunctionReturns, Quiet
<1> QED
  BY <1>1, <1>2, <1>3, <1>4, <1>5, <1>6 DEF WorkerStep

\* A worker takes its system from its user data, sends children only, and stops for good.
LEMMA WorkerWrites ==
  ASSUME ManagerInv, NEW t \in Threads, WorkerStep(t)
  PROVE  /\ \A s \in Systems : queue'[s] \cap Roots \subseteq queue[s] \cap Roots
         /\ \A u \in Threads : sys'[u] \in {sys[u], userdata[u]}
         /\ \A u \in Threads : pc[u] = "exited" => pc'[u] = "exited"
<1>1. TypeOK /\ HandsInv
  BY DEF ManagerInv
<1> USE DEF Goto, Fault, jobVars, workerVars
<1>2. CASE Start(t) \/ SetAffinity(t) \/ LoopTest(t) \/ UseAfterFree(t)
  BY <1>1, <1>2 DEF Start, SetAffinity, LoopTest, UseAfterFree, TypeOK
<1>3. CASE GetSystem(t)
  BY <1>1, <1>3 DEF GetSystem, GetUserdata, TypeOK
<1>4. CASE SendChild(t)
  <2> DEFINE child == ChildrenOf[job[t]][idx[t]]
  <2>1. child \in UNION {ToSet(ChildrenOf[k]) : k \in Jobs}
    <3>1. job[t] \in Jobs /\ idx[t] \in 1 .. Len(ChildrenOf[job[t]])
      BY <1>1, <1>4, ManagerAssumption DEF SendChild, HandsInv, TypeOK
    <3>2. ChildrenOf[job[t]] \in Seq(Jobs)
      BY <3>1, ManagerAssumption
    <3>3. child \in ToSet(ChildrenOf[job[t]])
      BY <3>1, <3>2, ElementAt
    <3> QED
      BY <3>1, <3>3
  <2>2. child \notin Roots
    BY <2>1 DEF Roots
  <2>3. queue' = [queue EXCEPT ![sys[t]] = @ \cup {child}] /\ UNCHANGED <<sys, pc>>
    BY <1>4 DEF SendChild
  <2> HIDE DEF child
  <2>4. \A s \in Systems : queue'[s] \cap Roots \subseteq queue[s] \cap Roots
    BY <1>1, <2>2, <2>3 DEF TypeOK
  <2> QED
    BY <2>3, <2>4
<1>5. CASE Finish(t) \/ ReleaseLock(t)
  BY <1>1, <1>5 DEF Finish, ReleaseLock, TypeOK
<1>6. ASSUME NEW j \in Jobs, TakeJob(t, j)
      PROVE  /\ \A s \in Systems : queue'[s] \cap Roots \subseteq queue[s] \cap Roots
             /\ \A u \in Threads : sys'[u] \in {sys[u], userdata[u]}
             /\ \A u \in Threads : pc[u] = "exited" => pc'[u] = "exited"
  BY <1>1, <1>6 DEF TakeJob, TypeOK
<1>7. CASE FindNothing(t) \/ Call(t) \/ FunctionReturns(t)
  BY <1>1, <1>7 DEF FindNothing, Call, FunctionReturns, TypeOK
<1> QED
  BY <1>2, <1>3, <1>4, <1>5, <1>6, <1>7 DEF WorkerStep

LEMMA WorkerSafeInv ==
  ASSUME ManagerInv, JobsInv, SafeInv, NEW t \in Threads, WorkerStep(t)
  PROVE  SafeInv'
<1>1. /\ TypeOK /\ CallInv /\ LifeInv /\ ListsInv
      /\ DestructorInv /\ ReleaseInv /\ SystemsInv /\ UseInv /\ JoinInv /\ NoFault
  BY DEF ManagerInv, SafeInv
<1>20. /\ UNCHANGED <<phase, handle, hasId, userdata, threads, mainIds, jobSystems, life, held, call,
                    fault>>
  BY WorkerKeeps, WorkerAvoidsFaults DEF systemVars
<1>21. /\ \A s \in Systems : queue'[s] \cap Roots \subseteq queue[s] \cap Roots
       /\ \A u \in Threads : sys'[u] \in {sys[u], userdata[u]}
       /\ \A u \in Threads : pc[u] = "exited" => pc'[u] = "exited"
       /\ Locals \subseteq Systems
  BY WorkerWrites DEF Systems
<1>2. DestructorInv'
  BY <1>1, <1>20 DEF DestructorInv, BeingReleased, Releasing, At
<1>3. ReleaseInv'
  BY <1>1, <1>20, <1>21 DEF ReleaseInv, BeingReleased, Releasing, Registered, At, CallInv
<1>4. SystemsInv'
  BY <1>1, <1>20, <1>21 DEF SystemsInv, Running, Registered, At
<1>5. UseInv'
  BY <1>1, <1>20, <1>21 DEF UseInv, At
<1>6. JoinInv'
  BY <1>1, <1>20 DEF JoinInv, Listed, At
<1>7. NoFault'
  BY <1>1, <1>20 DEF NoFault
<1> QED
  BY <1>2, <1>3, <1>4, <1>5, <1>6, <1>7 DEF SafeInv

LEMMA MainSafeInv ==
  ASSUME ManagerInv, JobsInv, SafeInv, NEW mayFail \in BOOLEAN, MainStep(mayFail), ~ EraseEnd
  PROVE  SafeInv'
<1>1. CASE Spawn \/ SpawnThrows \/ StoreId
  BY <1>1, SpawnSafeInv, SpawnThrowsSafeInv, StoreIdSafeInv
<1>2. CASE SetThreadData \/ ThreadsAdded
  BY <1>2, SetThreadDataSafeInv, ThreadsAddedSafeInv
<1>3. CASE (\E j \in Jobs : CancelJob(j)) \/ UnlockCanceled \/ QueueCleared
  BY <1>3, CancelJobSafeInv, UnlockCanceledSafeInv, QueueClearedSafeInv
<1>4. CASE EraseSystem \/ EraseEnd
  BY <1>4, EraseSystemSafeInv
<1>5. CASE ShutdownSystem \/ Join \/ SystemIsDown \/ ShutdownReturns
  BY <1>5, ShutdownSystemSafeInv, JoinSafeInv, SystemIsDownSafeInv, ShutdownReturnsSafeInv
<1>6. CASE ReleaseSlot \/ SlotsReleased \/ DeleteThreads
  BY <1>6, ReleaseSlotSafeInv, SlotsReleasedSafeInv, DeleteThreadsSafeInv
<1> QED
  BY <1>1, <1>2, <1>3, <1>4, <1>5, <1>6 DEF MainStep

\* The steps that begin no release and schedule nothing.
LEMMA QueuesKept ==
  ASSUME CallInv, QueuesInv,
         ToSet(jobSystems) \subseteq ToSet(jobSystems'),
         \A s \in Systems : queue'[s] \cap Roots \subseteq queue[s] \cap Roots,
         BeingReleased' => BeingReleased /\ call'.local = call.local,
         At("erase")' => At("erase")
  PROVE  QueuesInv'
<1>1. Locals \subseteq Systems /\ (At("erase") => call.local \in Systems)
  BY DEF Systems, CallInv, CallType, Frames
<1> QED
  BY <1>1 DEF QueuesInv, Registered, BeingReleased, Releasing, At

LEMMA MainQueuesInv ==
  ASSUME ManagerInv, SafeInv, QueuesInv, NEW mayFail \in BOOLEAN, MainStep(mayFail)
  PROVE  QueuesInv'
<1>1. TypeOK /\ CallInv /\ DestructorInv
  BY DEF ManagerInv, SafeInv
<1> USE DEF BeingReleased, Releasing, At, CallInv, CallType, Frames, systemVars, jobVars
<1>2. CASE Spawn \/ SpawnThrows
  BY <1>1, <1>2, QueuesKept DEF Spawn, SpawnThrows, Idle
<1>3. CASE StoreId
  <2>1. call'.at \in {"spawn", "setData"} /\ call'.then # "remove" /\ UNCHANGED <<jobSystems, queue>>
    <3>1. \/ call' = [call EXCEPT !.at = "spawn", !.slot = @ + 1]
          \/ \E todo : call' = [Idle EXCEPT !.at = "setData", !.todo = todo, !.then = "up"]
      BY <1>3 DEF StoreId
    <3>2. call.then # "remove" /\ UNCHANGED <<jobSystems, queue>>
      BY <1>1, <1>3 DEF StoreId
    <3> QED
      BY <1>1, <3>1, <3>2 DEF Idle
  <2> QED
    BY <1>1, <2>1, QueuesKept
<1>4. CASE SetThreadData \/ UnlockCanceled
  BY <1>1, <1>4, QueuesKept DEF SetThreadData, UnlockCanceled
<1>5. CASE ThreadsAdded
  <2>1. ToSet(jobSystems) \subseteq ToSet(jobSystems')
    BY <1>5, AddedSystems
  <2>2. /\ UNCHANGED queue
        /\ \/ call.then = "remove" /\ call' = [call EXCEPT !.at = "cancel", !.then = "idle"]
           \/ call' = Idle
    BY <1>5 DEF ThreadsAdded
  <2>3. \/ /\ call.then = "remove" /\ call'.local = call.local
           /\ call'.at = "cancel" /\ call'.then = "idle"
        \/ call'.at = "idle" /\ call'.then = "idle"
    <3>1. CASE call.then = "remove" /\ call' = [call EXCEPT !.at = "cancel", !.then = "idle"]
      BY <1>1, <3>1
    <3>2. CASE call' = Idle
      BY <3>2 DEF Idle
    <3> QED
      BY <2>2, <3>1, <3>2
  <2>4. (BeingReleased' => BeingReleased /\ call'.local = call.local) /\ ~ At("erase")'
    BY <2>3
  <2> QED
    BY <1>1, <2>1, <2>2, <2>4, QueuesKept
<1>6. ASSUME NEW j \in Jobs, CancelJob(j) PROVE QueuesInv'
  <2>1. /\ call' = [call EXCEPT !.at = "unlock", !.job = j] /\ UNCHANGED jobSystems
        /\ queue' = [queue EXCEPT ![call.local] = @ \ {j}]
    BY <1>6 DEF CancelJob
  <2>2. \A s \in Systems : queue'[s] \cap Roots \subseteq queue[s] \cap Roots
    BY <1>1, <2>1 DEF TypeOK
  <2>3. BeingReleased' => BeingReleased /\ call'.local = call.local
    BY <1>1, <1>6, <2>1 DEF CancelJob
  <2>4. ~ At("erase")'
    BY <1>1, <2>1
  <2> QED
    BY <1>1, <2>1, <2>2, <2>3, <2>4, QueuesKept
<1>7. CASE QueueCleared
  <2>1. /\ call'.at = "erase" /\ call'.then = call.then /\ call'.local = call.local
        /\ queue[call.local] = {} /\ Releasing /\ UNCHANGED <<jobSystems, queue>>
    BY <1>1, <1>7 DEF QueueCleared
  <2> QED
    BY <2>1 DEF QueuesInv, Registered
<1>8. CASE EraseSystem
  <2>1. ToSet(jobSystems') = ToSet(jobSystems) \ {call.local}
    BY <1>8, ErasedSystems
  <2>2. At("erase") /\ UNCHANGED queue /\ call'.at \in {"idle", "nextSlot"} /\ call'.then = "idle"
    <3>1. At("erase") /\ UNCHANGED queue /\ call.then = "idle" /\ call.ret # "delete"
      BY <1>1, <1>8 DEF EraseSystem, DestructorInv
    <3>2. call' = IF call.ret = "idle" THEN Idle ELSE [call EXCEPT !.at = call.ret]
      BY <1>8 DEF EraseSystem
    <3> QED
      BY <1>1, <3>1, <3>2 DEF Idle
  <2> QED
    BY <2>1, <2>2 DEF QueuesInv, Registered
<1>9. CASE EraseEnd \/ ShutdownSystem
  BY <1>1, <1>9, QueuesKept DEF EraseEnd, ShutdownSystem, Fault
<1>10. CASE Join \/ SystemIsDown
  BY <1>1, <1>10, QueuesKept DEF Join, SystemIsDown, Fault
<1>11. CASE ShutdownReturns \/ SlotsReleased \/ DeleteThreads
  <2>1. /\ UNCHANGED <<queue, jobSystems>> /\ call.then # "remove"
        /\ \/ call' = Idle \/ call' = call \/ call' = [call EXCEPT !.at = "delete"]
           \/ \E rest : call' = [[call EXCEPT !.ret = "delete"]
                EXCEPT !.at = "shutdown", !.blocking = TRUE, !.rest = rest]
    BY <1>1, <1>11 DEF ShutdownReturns, SlotsReleased, BeginShutdown, DeleteThreads, Fault
  <2>2. call'.then # "remove" /\ (call' = call \/ call'.at \in {"idle", "shutdown", "delete"})
    <3>1. CASE call' = Idle
      BY <3>1 DEF Idle
    <3>2. CASE call' = call
      BY <2>1, <3>2, Zenon
    <3>3. CASE call' = [call EXCEPT !.at = "delete"]
      BY <1>1, <2>1, <3>3
    <3>4. CASE \E rest : call' = [[call EXCEPT !.ret = "delete"]
                 EXCEPT !.at = "shutdown", !.blocking = TRUE, !.rest = rest]
      BY <1>1, <2>1, <3>4
    <3> QED
      BY <2>1, <3>1, <3>2, <3>3, <3>4, Zenon
  <2> QED
    BY <1>1, <2>1, <2>2, QueuesKept
<1>12. CASE ReleaseSlot
  <2>1. /\ call.slot <= call.end /\ call.slot \in Nat \ {0} /\ call.end \in Nat
        /\ call.then = "idle" /\ call.end = Len(jobSystems) /\ held = {}
    BY <1>1, <1>12 DEF ReleaseSlot, DestructorInv
  <2>2. jobSystems \in Seq(Locals) /\ call.slot \in 1 .. Len(jobSystems)
    BY <1>1, <2>1 DEF TypeOK
  <2>3. Registered(jobSystems[call.slot])
    BY <2>2, ElementAt DEF Registered
  <2>4. /\ BeginRelease(jobSystems[call.slot], [call EXCEPT !.slot = @ + 1])
        /\ UNCHANGED <<jobSystems, queue>>
    BY <1>12, <2>1 DEF ReleaseSlot
  <2>5. call'.at = "setData" /\ call'.local = jobSystems[call.slot]
    BY <1>1, <2>4 DEF BeginRelease
  <2> QED
    BY <2>3, <2>4, <2>5 DEF QueuesInv, Registered
<1> QED
  BY <1>2, <1>3, <1>4, <1>5, <1>6, <1>7, <1>8, <1>9, <1>10, <1>11, <1>12 DEF MainStep

\* A client starts no release of its own in these calls, nor schedules a job.
LEMMA OtherCallsQueuesInv ==
  ASSUME ManagerInv, QueuesInv, UNCHANGED queue,
         ToSet(jobSystems) \subseteq ToSet(jobSystems'),
         call' = call \/ (call'.then # "remove" /\ call'.at \notin {"cancel", "unlock", "erase"})
  PROVE  QueuesInv'
BY QueuesKept DEF ManagerInv, BeingReleased, Releasing, At

\* What the rules of Client leave of its calls.
LEMMA RulesOf ==
  ASSUME RulesOnly, Client(Calls)
  PROVE  \/ \E n \in 0 .. Hardware + 1 : InitManager(n)
         \/ /\ phase = "up"
            /\ \/ \E s \in Locals, n \in 0 .. Hardware : CreateLocalJobSystem(s, n)
               \/ \E s \in Systems, n \in 0 .. Hardware :
                    (s = Main \/ Registered(s)) /\ ReseveThreads(s, n)
               \/ \E s \in Locals : Registered(s) /\ ReleaseJobSystem(s)
               \/ \E s \in Systems, j \in Jobs :
                    (s = Main \/ Registered(s)) /\ ScheduleJob(s, j)
               \/ \E s \in Locals :
                    (\A t \in Threads : handle[t] # "joinable") /\ Drop(s)
               \/ \E blocking \in BOOLEAN : Shutdown(blocking)
               \/ held = {} /\ Len(jobSystems) <= 1 /\ DestroyManager
<1>1. /\ "uninitialised" \notin Calls /\ "reserveReleased" \notin Calls
      /\ "releaseAgain" \notin Calls /\ "dropEarly" \notin Calls /\ "destroyMany" \notin Calls
  BY DEF RulesOnly
<1> QED
  BY <1>1, Zenon DEF Client

LEMMA ClientRulesInv ==
  ASSUME ManagerInv, JobsInv, RulesInv, RulesOnly, Client(Calls)
  PROVE  RulesInv'
<1> SafeInv /\ QueuesInv
  BY DEF RulesInv
<1> USE DEF systemVars, jobVars
<1>1. ASSUME NEW n \in 0 .. Hardware + 1, InitManager(n) PROVE RulesInv'
  <2>1. call' = call \/ (call'.then = "idle" /\ call'.at = "spawn")
    BY <1>1 DEF InitManager, InitReturns, Idle
  <2>2. UNCHANGED <<queue, jobSystems>>
    BY <1>1 DEF InitManager, InitReturns
  <2> QED
    BY <1>1, <2>1, <2>2, InitManagerSafeInv, OtherCallsQueuesInv DEF RulesInv
<1>2. ASSUME phase = "up", NEW s \in Locals, NEW n \in 0 .. Hardware, CreateLocalJobSystem(s, n)
      PROVE  RulesInv'
  <2>1. call' = call \/ (call'.then = "register" /\ call'.at = "setData")
    BY <1>2 DEF CreateLocalJobSystem, MoveThreads, Idle
  <2>2. UNCHANGED queue /\ (UNCHANGED jobSystems \/ jobSystems' = Append(jobSystems, s))
    BY <1>2 DEF CreateLocalJobSystem
  <2> QED
    BY <1>2, <2>1, <2>2, CreatedSystems, CreateLocalJobSystemSafeInv, OtherCallsQueuesInv
       DEF RulesInv
<1>3. ASSUME phase = "up", NEW s \in Systems, NEW n \in 0 .. Hardware, s = Main \/ Registered(s),
             ReseveThreads(s, n)
      PROVE  RulesInv'
  <2>1. call' = call \/ (call'.then = "idle" /\ call'.at = "setData")
    BY <1>3 DEF ReseveThreads, MoveThreads, Idle
  <2>2. UNCHANGED <<queue, jobSystems>>
    BY <1>3 DEF ReseveThreads
  <2> QED
    BY <1>3, <2>1, <2>2, ReseveThreadsSafeInv, OtherCallsQueuesInv DEF RulesInv
<1>4. ASSUME phase = "up", NEW s \in Locals, Registered(s), ReleaseJobSystem(s) PROVE RulesInv'
  <2>1. call'.at = "setData" /\ call'.local = s /\ UNCHANGED <<queue, jobSystems>>
    BY <1>4 DEF ReleaseJobSystem, BeginRelease, Idle
  <2>2. QueuesInv'
    BY <1>4, <2>1 DEF QueuesInv, Registered, At
  <2> QED
    BY <1>4, <2>2, ReleaseJobSystemSafeInv DEF RulesInv
<1>5. ASSUME NEW s \in Systems, NEW j \in Jobs, s = Main \/ Registered(s), ScheduleJob(s, j)
      PROVE  RulesInv'
  <2>1. /\ At("idle") /\ queue' = [queue EXCEPT ![s] = @ \cup {j}] /\ UNCHANGED <<call, jobSystems>>
        /\ queue \in [Systems -> SUBSET Jobs] /\ Locals \subseteq Systems /\ Main \notin Locals
    BY <1>5, ManagerAssumption DEF ScheduleJob, ManagerInv, TypeOK, Systems
  <2>2. QueuesInv'
    BY <1>5, <2>1 DEF QueuesInv, Registered, BeingReleased, Releasing, At
  <2> QED
    BY <1>5, <2>2, ScheduleJobSafeInv DEF RulesInv
<1>6. ASSUME NEW s \in Locals, \A t \in Threads : handle[t] # "joinable", Drop(s) PROVE RulesInv'
  BY <1>6, DropSafeInv, OtherCallsQueuesInv DEF RulesInv, Drop
<1>7. ASSUME phase = "up", NEW blocking \in BOOLEAN, Shutdown(blocking) PROVE RulesInv'
  <2>1. call'.at = "shutdown" /\ call'.then = "idle" /\ UNCHANGED <<queue, jobSystems>>
    BY <1>7 DEF Shutdown, BeginShutdown, Idle
  <2> QED
    BY <1>7, <2>1, ShutdownSafeInv, OtherCallsQueuesInv DEF RulesInv
<1>8. ASSUME phase = "up", held = {}, Len(jobSystems) <= 1, DestroyManager PROVE RulesInv'
  <2>1. call'.at = "nextSlot" /\ call'.then = "idle" /\ UNCHANGED <<queue, jobSystems>>
    BY <1>8 DEF DestroyManager, Idle
  <2> QED
    BY <1>8, <2>1, DestroyManagerSafeInv, OtherCallsQueuesInv DEF RulesInv
<1> HIDE DEF systemVars, jobVars
<1> QED
  BY <1>1, <1>2, <1>3, <1>4, <1>5, <1>6, <1>7, <1>8, RulesOf, Zenon

LEMMA InitRulesInv ==
  ASSUME Init
  PROVE  RulesInv
<1>1. /\ call.at = "idle" /\ call.then = "idle" /\ call.ret = "idle" /\ Main \notin Locals
      /\ phase = "null" /\ jobSystems = << >> /\ fault = "none"
  BY ManagerAssumption DEF Init, Idle
<1>2. DestructorInv /\ ReleaseInv /\ NoFault
  BY <1>1 DEF DestructorInv, ReleaseInv, BeingReleased, Releasing, At, NoFault
<1>3. SystemsInv
  BY <1>1, EmptyList DEF Init, SystemsInv, Running, Registered, At, Systems
<1>4. UseInv
  BY <1>1, ManagerAssumption DEF Init, UseInv, At, Systems
<1>5. JoinInv
  BY <1>1 DEF Init, JoinInv, At
<1>6. QueuesInv
  BY <1>1 DEF Init, QueuesInv, BeingReleased, Releasing, At, Systems
<1> QED
  BY <1>2, <1>3, <1>4, <1>5, <1>6 DEF RulesInv, SafeInv

LEMMA RulesHold ==
  ASSUME RulesOnly
  PROVE  EitherSpec => [](rules => RulesInv)
<1>1. EitherInit => (rules => RulesInv)
  BY InitRulesInv DEF EitherInit
<1>2. ManagerInv /\ JobsInv /\ (rules => RulesInv) /\ [EitherNext]_<<vars, rules>>
        => (rules => RulesInv)'
  <2> SUFFICES ASSUME ManagerInv, JobsInv, rules => RulesInv, [EitherNext]_<<vars, rules>>, rules'
               PROVE  RulesInv'
    OBVIOUS
  <2>1. CASE EitherNext
    <3>1. rules /\ RulesInv
      BY <2>1 DEF EitherNext
    <3>2. CASE Next
      <4>1. SpawnMayFail \in BOOLEAN
        BY ManagerAssumption
      <4>2. CASE Client(Calls)
        BY <3>1, <4>2, ClientRulesInv
      <4>3. CASE MainStep(SpawnMayFail)
        <5>1. ~ EraseEnd
          BY <3>1 DEF EraseEnd, RulesInv, QueuesInv, BeingReleased, Releasing
        <5> QED
          BY <3>1, <4>1, <4>3, <5>1, MainSafeInv, MainQueuesInv DEF RulesInv
      <4>4. CASE \E t \in Threads : WorkerStep(t)
        <5>1. UNCHANGED <<jobSystems, call>>
          BY <4>4, WorkerKeeps DEF systemVars
        <5>2. \A s \in Systems : queue'[s] \cap Roots \subseteq queue[s] \cap Roots
          BY <4>4, WorkerWrites
        <5> QED
          BY <3>1, <4>4, <5>1, <5>2, WorkerSafeInv, QueuesKept
             DEF RulesInv, ManagerInv, BeingReleased, Releasing, At
      <4> QED
        BY <3>2, <4>2, <4>3, <4>4 DEF Next, NextWith
    <3> QED
      BY <2>1, <3>1, <3>2 DEF EitherNext
  <2>2. CASE UNCHANGED <<vars, rules>>
    <3>1. UNCHANGED vars /\ RulesInv
      BY <2>2
    <3>2. QueuesInv'
      BY <3>1 DEF RulesInv, QueuesInv, Registered, BeingReleased, Releasing, At, vars,
         systemVars, jobVars
    <3> QED
      BY <3>1, <3>2, StutterSafeInv DEF RulesInv
  <2> QED
    BY <2>1, <2>2
<1> QED
  BY <1>1, <1>2, JobsAreRight, PTL DEF EitherSpec

\* Whatever threads, systems and jobs there are, a client that keeps to the rules meets no
\* undefined behaviour, no failed assertion and no std::terminate: the workers' systems
\* exist, Shutdown reads no element behind the end of a list, the destructor finds its
\* system and deletes no thread that could be joined
\* (JobSystemManager.cpp:237, 255, 259, 357, 451).
THEOREM RulesPreventFaults == RulesOnly => (EitherSpec => []RulesAvoidFaults)
<1> SUFFICES ASSUME RulesOnly PROVE EitherSpec => []RulesAvoidFaults
  OBVIOUS
<1>1. (rules => RulesInv) => RulesAvoidFaults
  BY DEF RulesInv, SafeInv, RulesAvoidFaults
<1>2. EitherSpec => [](rules => RulesInv)
  BY RulesHold
<1> QED
  BY <1>1, <1>2, PTL

\* And Release leaves nothing the client has scheduled in a system
\* (JobSystemManager.cpp:106, 450).
THEOREM ReleaseCancelsWhatIsQueued == RulesOnly => (EitherSpec => []ReleaseCancels)
<1> SUFFICES ASSUME RulesOnly PROVE EitherSpec => []ReleaseCancels
  OBVIOUS
<1>1. (rules => RulesInv) => ReleaseCancels
  BY DEF RulesInv, QueuesInv, ReleaseCancels, OnlyLateChildrenAreLeft
<1>2. EitherSpec => [](rules => RulesInv)
  BY RulesHold
<1> QED
  BY <1>1, <1>2, PTL

\* And a blocking Shutdown has joined all threads when it returns
\* (JobSystemManager.h:191, JobSystemManager.cpp:235-238).
THEOREM BlockingShutdownWaits == RulesOnly => (EitherSpec => ShutdownJoins)
<1> SUFFICES ASSUME RulesOnly PROVE EitherSpec => ShutdownJoins
  OBVIOUS
<1>1. (rules => RulesInv) /\ [EitherNext]_<<vars, rules>>
        => [rules /\ ShutdownReturns /\ call.blocking =>
              \A t \in Threads : handle[t] # "joinable"]_<<vars, rules>>
  <2> SUFFICES ASSUME RulesInv, ShutdownReturns, call.blocking
               PROVE  \A t \in Threads : handle[t] # "joinable"
    OBVIOUS
  <2>1. At("shutdown") /\ ToSet(call.rest) = {}
    BY EmptyList DEF ShutdownReturns
  <2> QED
    BY <2>1 DEF RulesInv, SafeInv, JoinInv, At
<1>2. EitherSpec => [](rules => RulesInv)
  BY RulesHold
<1> QED
  BY <1>1, <1>2, PTL DEF EitherSpec, ShutdownJoins

------------------------------------------------------------------------------
(* The test program, on a machine with at least one processor and where     *)
(* threads can be spawned: the manager's invariants hold for its calls as   *)
(* well, and what the program does before each call keeps the rules that    *)
(* the lemmas above ask for, but one: a system may be released twice.       *)

\* hardware_concurrency() may return 0, and std::thread may throw: then Init fails, and
\* the program prints a line and goes on.
InitSucceeds == Hardware # 0 /\ ~ SpawnMayFail

------------------------------------------------------------------------------
(* The inductive invariant                                                  *)

\* The program has one local system.
OneSystem ==
  /\ ToSet(jobSystems) \subseteq {Local} /\ held \subseteq {Local}
  /\ call.local \in {Local, Main}

\* Init comes first, and has succeeded when the next call is made.
PhaseInv ==
  /\ line = "init" => phase = "null" /\ At("idle")
  /\ line = "create" => phase \in {"spawning", "up"}
  /\ line \notin {"init", "create", "done"} => phase = "up"

\* Shutdown joins the threads before the systems go, and the destructor comes last.
EndInv ==
  /\ line # "done" => call.ret = "idle"
  /\ line = "drop" =>
       \/ At("idle") /\ \A t \in Threads : handle[t] # "joinable"
       \/ (At("shutdown") \/ At("join")) /\ call.blocking
  /\ line = "destroy" => At("idle") /\ held = {}

\* Only while it fills the local system, or waits for it, are jobs of the batch queued.
BatchInv ==
  /\ line \in {"fill", "waitAll"} => At("idle")
  /\ line \notin {"fill", "waitAll"} => queue[Local] \cap Batch = {}

ProgramInv == OneSystem /\ PhaseInv /\ EndInv /\ BatchInv

TestInv ==
  /\ ManagerInv /\ JobsInv /\ BatchIsNotCanceled
  /\ fault = "eraseEnd" \/ (SafeInv /\ ProgramInv)

------------------------------------------------------------------------------
(* The steps of a call                                                      *)

\* A Shutdown that waits, and is not the destructor's.
Awaited == (At("shutdown") \/ At("join")) /\ call.blocking /\ call.ret = "idle"

\* What such a step leaves alone, of what the program relies on.
CallGoesOn ==
  /\ ~ At("idle") /\ UNCHANGED held
  /\ \A s \in Systems : queue'[s] \subseteq queue[s]
  /\ ToSet(jobSystems') \subseteq ToSet(jobSystems) \cup ({call.local} \cap Locals)
  /\ call'.local \in {call.local, Main} \cup ToSet(jobSystems)
  /\ call.ret = "idle" => call'.ret = "idle"
  /\ \/ phase' = phase
     \/ phase = "spawning" /\ phase' = "up"
     \/ phase' = "deleted" /\ call.ret # "idle"
  /\ Awaited => \/ Awaited'
                \/ At("idle")' /\ \A t \in Threads : handle'[t] # "joinable"

LEMMA MainCallGoesOn ==
  ASSUME ManagerInv, SafeInv, MainStep(FALSE)
  PROVE  CallGoesOn
<1>1. TypeOK /\ CallInv /\ DestructorInv /\ JoinInv
  BY DEF ManagerInv, SafeInv
<1> USE DEF CallGoesOn, Awaited, At, CallInv, CallType, Frames, systemVars, jobVars
<1>2. CASE Spawn
  BY <1>1, <1>2 DEF Spawn
<1>3. CASE StoreId
  <2>1. \/ call' = [call EXCEPT !.at = "spawn", !.slot = @ + 1]
        \/ \E todo : call' = [Idle EXCEPT !.at = "setData", !.todo = todo, !.then = "up"]
    BY <1>3 DEF StoreId
  <2>2. call'.local \in {call.local, Main} /\ (call.ret = "idle" => call'.ret = "idle")
    BY <1>1, <2>1 DEF Idle
  <2> QED
    BY <1>3, <2>2 DEF StoreId
<1>4. CASE SetThreadData \/ UnlockCanceled \/ QueueCleared
  BY <1>1, <1>4 DEF SetThreadData, UnlockCanceled, QueueCleared
<1>5. CASE ThreadsAdded
  <2>1. ToSet(jobSystems') \subseteq ToSet(jobSystems) \cup ({call.local} \cap Locals)
    BY <1>5, AddedSystems
  <2>2. call' = [call EXCEPT !.at = "cancel", !.then = "idle"] \/ call' = Idle
    BY <1>5 DEF ThreadsAdded
  <2>3. call'.local \in {call.local, Main} /\ (call.ret = "idle" => call'.ret = "idle")
    <3>1. CASE call' = [call EXCEPT !.at = "cancel", !.then = "idle"]
      BY <1>1, <3>1
    <3> QED
      BY <2>2, <3>1 DEF Idle
  <2>4. phase' = phase \/ (phase = "spawning" /\ phase' = "up")
    BY <1>1, <1>5 DEF ThreadsAdded, AddingOK
  <2> QED
    BY <1>5, <2>1, <2>3, <2>4 DEF ThreadsAdded
<1>6. ASSUME NEW j \in Jobs, CancelJob(j) PROVE CallGoesOn
  <2>1. \A s \in Systems : queue'[s] \subseteq queue[s]
    BY <1>1, <1>6 DEF CancelJob, TypeOK
  <2> QED
    BY <1>1, <1>6, <2>1 DEF CancelJob
<1>7. CASE EraseSystem
  <2>1. ToSet(jobSystems') \subseteq ToSet(jobSystems)
    BY <1>7, ErasedSystems
  <2>2. call' = Idle \/ call' = [call EXCEPT !.at = call.ret]
    BY <1>7 DEF EraseSystem
  <2>3. call'.local \in {call.local, Main} /\ (call.ret = "idle" => call'.ret = "idle")
    BY <1>1, <2>2 DEF Idle
  <2> QED
    BY <1>7, <2>1, <2>3 DEF EraseSystem
<1>8. CASE EraseEnd
  BY <1>8 DEF EraseEnd, Fault
<1>9. CASE ShutdownSystem \/ SystemIsDown
  BY <1>1, <1>9 DEF ShutdownSystem, SystemIsDown, Fault
<1>10. CASE Join
  <2>1. call' = call \/ call' = [call EXCEPT !.todo = Tail(@)]
    BY <1>10 DEF Join, Fault
  <2>2. Awaited => Awaited'
    BY <1>1, <2>1
  <2> QED
    BY <1>1, <1>10, <2>1, <2>2 DEF Join, Fault
<1>11. CASE ShutdownReturns
  <2>1. At("shutdown") /\ ToSet(call.rest) = {}
    BY <1>11, EmptyList DEF ShutdownReturns
  <2>2. call.blocking => \A t \in Threads : handle'[t] # "joinable"
    BY <1>1, <1>11, <2>1 DEF JoinInv, ShutdownReturns, threadVars
  <2>3. call' = IF call.ret = "idle" THEN Idle ELSE [call EXCEPT !.at = "delete"]
    BY <1>11 DEF ShutdownReturns
  <2>4. /\ call'.local \in {call.local, Main}
        /\ call.ret = "idle" => call'.ret = "idle" /\ call'.at = "idle"
    BY <1>1, <2>3 DEF Idle
  <2> QED
    BY <1>11, <2>1, <2>2, <2>4 DEF ShutdownReturns
<1>12. CASE ReleaseSlot
  <2>1. call.ret # "idle" /\ call.at = "nextSlot"
    BY <1>1, <1>12 DEF ReleaseSlot, DestructorInv
  <2>2. call'.local \in {call.local} \cup ToSet(jobSystems)
    <3>1. CASE UNCHANGED call
      BY <3>1
    <3>2. CASE /\ call.slot <= Len(jobSystems)
               /\ BeginRelease(jobSystems[call.slot], [call EXCEPT !.slot = @ + 1])
      <4>1. jobSystems \in Seq(Locals) /\ call.slot \in 1 .. Len(jobSystems)
        BY <1>1, <3>2 DEF TypeOK
      <4>2. call'.local = jobSystems[call.slot]
        BY <1>1, <3>2 DEF BeginRelease
      <4> QED
        BY <4>1, <4>2, ElementAt
    <3> QED
      BY <1>1, <1>12, <3>1, <3>2 DEF ReleaseSlot, Fault, TypeOK
  <2> QED
    BY <1>12, <2>1, <2>2 DEF ReleaseSlot, Fault
<1>13. CASE SlotsReleased \/ DeleteThreads
  <2>1. call.ret # "idle" /\ call.at \in {"nextSlot", "delete"}
    BY <1>1, <1>13 DEF SlotsReleased, DeleteThreads, DestructorInv
  <2>2. call'.local \in {call.local, Main}
    <3>1. CASE SlotsReleased
      BY <1>1, <3>1 DEF SlotsReleased, BeginShutdown
    <3>2. CASE DeleteThreads
      BY <3>2 DEF DeleteThreads, Fault, Idle
    <3> QED
      BY <1>13, <3>1, <3>2
  <2> QED
    BY <1>13, <2>1, <2>2 DEF SlotsReleased, DeleteThreads, Fault
<1> QED
  BY <1>2, <1>3, <1>4, <1>5, <1>6, <1>7, <1>8, <1>9, <1>10, <1>11, <1>12, <1>13, Zenon
     DEF MainStep

\* The batch is cancelled only by the main thread, where it finds it in a queue.
LEMMA MainCancels ==
  ASSUME ManagerInv, JobsInv, MainStep(FALSE), NEW j \in Jobs, jobState[j] # "Canceled",
         At("cancel") => j \notin queue[call.local]
  PROVE  jobState'[j] # "Canceled"
<1>1. CASE Spawn
  BY <1>1 DEF Spawn, jobVars
<1>2. CASE \E i \in Jobs : CancelJob(i)
  BY <1>2 DEF CancelJob, ManagerInv, TypeOK
<1> QED
  BY <1>1, <1>2, MainElsewhere DEF Elsewhere

LEMMA WorkersDoNotCancel ==
  ASSUME ManagerInv, NEW t \in Threads, WorkerStep(t), NEW j \in Jobs, jobState[j] # "Canceled"
  PROVE  jobState'[j] # "Canceled"
<1>1. jobState \in [Jobs -> {"Queued", "Running", "Waiting", "Finished", "Canceled"}]
  BY DEF ManagerInv, TypeOK
<1>2. CASE SendChild(t) \/ Finish(t) \/ Call(t)
  BY <1>1, <1>2 DEF SendChild, Finish, Call
<1>3. CASE UNCHANGED jobState
  BY <1>3
<1> QED
  BY <1>2, <1>3 DEF WorkerStep, Start, SetAffinity, LoopTest, GetSystem, UseAfterFree,
     ReleaseLock, TakeJob, FindNothing, FunctionReturns, Fault, jobVars

LEMMA MainTestInv ==
  ASSUME TestInv, fault = "none", MainStep(FALSE), UNCHANGED line
  PROVE  TestInv'
<1>1. /\ ManagerInv /\ JobsInv /\ BatchIsNotCanceled /\ SafeInv
      /\ OneSystem /\ PhaseInv /\ EndInv /\ BatchInv
  BY DEF TestInv, ProgramInv
<1>2. ManagerInv'
  BY <1>1, MainManagerInv
<1>3. JobsInv'
  <2>1. CASE Spawn \/ \E j \in Jobs : CancelJob(j)
    BY <1>1, <2>1, SpawnJobsInv, CancelJobJobsInv
  <2> QED
    BY <1>1, <2>1, MainElsewhere, ElsewhereJobsInv
<1>4. CallGoesOn
  BY <1>1, MainCallGoesOn
<1>5. BatchIsNotCanceled'
  <2> SUFFICES ASSUME NEW j \in Batch PROVE jobState'[j] # "Canceled"
    BY DEF BatchIsNotCanceled
  <2>1. j \in Jobs /\ j \in Roots
    BY TestProgramAssumption DEF Roots
  <2>2. queue[Local] \cap Batch = {}
    BY <1>1, <1>4 DEF BatchInv, CallGoesOn
  <2>3. At("cancel") => call.local = Local
    BY <1>1, ManagerAssumption DEF OneSystem, ManagerInv, CallInv, At
  <2> QED
    BY <1>1, <2>1, <2>2, <2>3, MainCancels DEF BatchIsNotCanceled
<1>6. CASE EraseEnd
  BY <1>2, <1>3, <1>5, <1>6 DEF EraseEnd, Fault, TestInv
<1>7. CASE ~ EraseEnd
  <2>1. SafeInv'
    BY <1>1, <1>7, MainSafeInv
  <2>2. OneSystem'
    BY <1>1, <1>4, ManagerAssumption DEF OneSystem, CallGoesOn
  <2>3. PhaseInv'
    BY <1>1, <1>4 DEF PhaseInv, EndInv, CallGoesOn
  <2>4. EndInv'
    BY <1>1, <1>4 DEF EndInv, CallGoesOn, Awaited, At
  <2>5. BatchInv'
    BY <1>1, <1>4, TestProgramAssumption DEF BatchInv, CallGoesOn, Systems
  <2> QED
    BY <1>2, <1>3, <1>5, <2>1, <2>2, <2>3, <2>4, <2>5 DEF TestInv, ProgramInv
<1> QED
  BY <1>6, <1>7

LEMMA WorkerTestInv ==
  ASSUME TestInv, fault = "none", NEW t \in Threads, WorkerStep(t), UNCHANGED line
  PROVE  TestInv'
<1>1. /\ ManagerInv /\ JobsInv /\ BatchIsNotCanceled /\ SafeInv
      /\ OneSystem /\ PhaseInv /\ EndInv /\ BatchInv
  BY DEF TestInv, ProgramInv
<1>2. ManagerInv' /\ JobsInv' /\ SafeInv'
  BY <1>1, WorkerManagerInv, WorkerJobsInv, WorkerSafeInv
<1>3. BatchIsNotCanceled'
  BY <1>1, TestProgramAssumption, WorkersDoNotCancel DEF BatchIsNotCanceled, Roots
<1>4. UNCHANGED <<phase, handle, jobSystems, held, call>>
  BY WorkerKeeps DEF systemVars
<1>5. queue'[Local] \cap Batch \subseteq queue[Local] \cap Batch
  <2>1. queue'[Local] \cap Roots \subseteq queue[Local] \cap Roots
    BY <1>1, WorkerWrites, TestProgramAssumption DEF Systems
  <2> QED
    BY <2>1, TestProgramAssumption
<1>6. OneSystem' /\ PhaseInv' /\ EndInv'
  BY <1>1, <1>4 DEF OneSystem, PhaseInv, EndInv, At
<1>7. BatchInv'
  BY <1>1, <1>4, <1>5 DEF BatchInv, At
<1> QED
  BY <1>2, <1>3, <1>6, <1>7 DEF TestInv, ProgramInv

------------------------------------------------------------------------------
(* The calls of main()                                                      *)

LEMMA UpWhenIdle ==
  ASSUME TestInv, fault = "none", line \notin {"init", "done"}, At("idle")
  PROVE  phase = "up"
BY DEF TestInv, ProgramInv, PhaseInv, ManagerInv, CallInv, SpawningOK, At

\* A call of the manager that queues no job.
LEMMA CallTestInv ==
  ASSUME TestInv, fault = "none", UNCHANGED <<queue, jobState>>,
         ManagerInv', JobsInv', SafeInv', OneSystem', PhaseInv', EndInv',
         {line, line'} \cap {"fill", "waitAll"} = {}
  PROVE  TestInv'
<1>1. BatchIsNotCanceled'
  BY DEF TestInv, BatchIsNotCanceled
<1>2. BatchInv'
  BY DEF TestInv, ProgramInv, BatchInv
<1> QED
  BY <1>1, <1>2 DEF TestInv, ProgramInv

LEMMA InitialiseTestInv ==
  ASSUME TestInv, fault = "none", InitSucceeds, Initialise
  PROVE  TestInv'
<1>1. /\ ManagerInv /\ JobsInv /\ SafeInv /\ OneSystem /\ PhaseInv /\ EndInv
      /\ InitManager(Hardware) /\ line = "init" /\ line' = "create" /\ phase = "null"
  BY DEF TestInv, ProgramInv, Initialise, Line, PhaseInv
<1>2. Hardware \in 0 .. Hardware + 1 /\ Hardware \in Threads
  BY ManagerAssumption DEF InitSucceeds, Threads
<1>3. ManagerInv' /\ SafeInv'
  BY <1>1, <1>2, InitManagerInv, InitManagerSafeInv
<1>4. /\ phase' = "spawning" /\ call' = [Idle EXCEPT !.at = "spawn", !.end = Hardware]
      /\ UNCHANGED <<threadVars, systemVars, jobVars, workerVars>>
  BY <1>1, <1>2 DEF InitManager, InitReturns
<1>5. call'.local = Main /\ call'.ret = "idle"
  BY <1>4 DEF Idle
<1>6. JobsInv'
  BY <1>1, <1>4, ElsewhereJobsInv DEF Elsewhere, threadVars, jobVars
<1>7. OneSystem' /\ PhaseInv' /\ EndInv'
  BY <1>1, <1>4, <1>5 DEF OneSystem, PhaseInv, EndInv, systemVars
<1> QED
  BY <1>1, <1>3, <1>4, <1>6, <1>7, CallTestInv DEF jobVars

\* A system with more threads than there are is created without threads.
LEMMA CreateLocalTestInv ==
  ASSUME TestInv, fault = "none", CreateLocal
  PROVE  TestInv'
<1>1. /\ ManagerInv /\ JobsInv /\ SafeInv /\ OneSystem /\ PhaseInv /\ EndInv
      /\ CreateLocalJobSystem(Local, LocalThreads) /\ line = "create" /\ line' = "keys"
      /\ Local \in Locals /\ At("idle")
  BY TestProgramAssumption DEF TestInv, ProgramInv, CreateLocal, Line
<1>2. phase = "up"
  BY <1>1, UpWhenIdle
<1>3. \E n \in 0 .. Hardware : CreateLocalJobSystem(Local, n)
  <2>1. CASE LocalThreads <= Hardware
    BY <1>1, <2>1, TestProgramAssumption, ManagerAssumption
  <2>2. CASE LocalThreads > Hardware
    <3>1. numThreads[Main] \in 0 .. Hardware
      BY <1>1 DEF ManagerInv, TypeOK, Systems
    <3>2. Hardware \in Nat /\ LocalThreads \in Nat
      BY TestProgramAssumption, ManagerAssumption
    <3>3. ~ MayReserve(LocalThreads) /\ ~ MayReserve(Hardware)
      BY <2>2, <3>1, <3>2 DEF MayReserve
    <3>4. CreateLocalJobSystem(Local, Hardware)
      BY <1>1, <3>3 DEF CreateLocalJobSystem
    <3> QED
      BY <3>2, <3>4
  <2> QED
    BY <2>1, <2>2, TestProgramAssumption, ManagerAssumption
<1>4. ManagerInv' /\ SafeInv'
  BY <1>1, <1>2, <1>3, CreateLocalJobSystemManagerInv, CreateLocalJobSystemSafeInv
<1>5. JobsInv'
  BY <1>1, ElsewhereJobsInv DEF CreateLocalJobSystem, Elsewhere, threadVars, jobVars
<1>6. /\ UNCHANGED <<phase, queue, jobState>> /\ held' = held \cup {Local}
      /\ UNCHANGED jobSystems \/ jobSystems' = Append(jobSystems, Local)
      /\ UNCHANGED call \/ MoveThreads(Local, LocalThreads, "register")
  BY <1>1 DEF CreateLocalJobSystem, jobVars
<1>7. ToSet(jobSystems') \subseteq {Local}
  BY <1>1, <1>6, CreatedSystems DEF OneSystem
<1>8. call'.local \in {Local, Main} /\ call'.ret = "idle"
  <2>1. CASE UNCHANGED call
    BY <1>1, <2>1 DEF OneSystem, EndInv
  <2>2. CASE MoveThreads(Local, LocalThreads, "register")
    BY <2>2 DEF MoveThreads, Idle
  <2> QED
    BY <1>6, <2>1, <2>2
<1>9. OneSystem' /\ PhaseInv' /\ EndInv'
  BY <1>1, <1>2, <1>6, <1>7, <1>8 DEF OneSystem, PhaseInv, EndInv
<1> QED
  BY <1>1, <1>4, <1>5, <1>6, <1>9, CallTestInv

LEMMA ReleaseTestInv ==
  ASSUME TestInv, fault = "none", ReleaseLocal \/ EndRelease
  PROVE  TestInv'
<1>1. /\ ManagerInv /\ JobsInv /\ SafeInv /\ OneSystem /\ PhaseInv /\ EndInv
      /\ ReleaseJobSystem(Local) /\ line \in {"release", "endRelease"}
      /\ line' \in {"reserve", "shutdown"} /\ Local \in Locals
  BY TestProgramAssumption DEF TestInv, ProgramInv, ReleaseLocal, EndRelease, Line
<1>2. phase = "up"
  BY <1>1 DEF PhaseInv
<1>3. ManagerInv' /\ SafeInv'
  BY <1>1, <1>2, ReleaseJobSystemManagerInv, ReleaseJobSystemSafeInv
<1>4. JobsInv'
  BY <1>1, ElsewhereJobsInv DEF ReleaseJobSystem, Elsewhere, threadVars, jobVars
<1>5. /\ UNCHANGED <<phase, jobSystems, held, queue, jobState>>
      /\ call'.local = Local /\ call'.ret = "idle"
  BY <1>1 DEF ReleaseJobSystem, BeginRelease, Idle, jobVars
<1>6. OneSystem' /\ PhaseInv' /\ EndInv'
  BY <1>1, <1>2, <1>5 DEF OneSystem, PhaseInv, EndInv
<1> QED
  BY <1>1, <1>3, <1>4, <1>5, <1>6, CallTestInv

LEMMA ReserveOneTestInv ==
  ASSUME TestInv, fault = "none", InitSucceeds, ReserveOne
  PROVE  TestInv'
<1>1. /\ ManagerInv /\ JobsInv /\ SafeInv /\ OneSystem /\ PhaseInv /\ EndInv
      /\ ReseveThreads(Main, 1) /\ line = "reserve" /\ line' = "schedule"
  BY DEF TestInv, ProgramInv, ReserveOne, Line
<1>2. phase = "up" /\ 1 \in 0 .. Hardware /\ Main \in Systems
  BY <1>1, ManagerAssumption DEF PhaseInv, InitSucceeds, Systems
<1>3. ManagerInv' /\ SafeInv'
  BY <1>1, <1>2, ReseveThreadsManagerInv, ReseveThreadsSafeInv
<1>4. JobsInv'
  BY <1>1, ElsewhereJobsInv DEF ReseveThreads, Elsewhere, threadVars, jobVars
<1>5. /\ UNCHANGED <<phase, jobSystems, held, queue, jobState>>
      /\ UNCHANGED call \/ MoveThreads(Main, 1, "idle")
  BY <1>1 DEF ReseveThreads, jobVars
<1>6. call'.local \in {Local, Main} /\ call'.ret = "idle"
  <2>1. CASE UNCHANGED call
    BY <1>1, <2>1 DEF OneSystem, EndInv
  <2>2. CASE MoveThreads(Main, 1, "idle")
    BY <2>2 DEF MoveThreads, Idle
  <2> QED
    BY <1>5, <2>1, <2>2
<1>7. OneSystem' /\ PhaseInv' /\ EndInv'
  BY <1>1, <1>2, <1>5, <1>6 DEF OneSystem, PhaseInv, EndInv
<1> QED
  BY <1>1, <1>3, <1>4, <1>5, <1>7, CallTestInv

LEMMA EndShutdownTestInv ==
  ASSUME TestInv, fault = "none", EndShutdown
  PROVE  TestInv'
<1>1. /\ ManagerInv /\ JobsInv /\ SafeInv /\ OneSystem /\ PhaseInv /\ EndInv
      /\ Shutdown(TRUE) /\ line = "shutdown" /\ line' = "drop"
  BY DEF TestInv, ProgramInv, EndShutdown, Line
<1>2. phase = "up"
  BY <1>1 DEF PhaseInv
<1>3. ManagerInv' /\ SafeInv'
  BY <1>1, <1>2, ShutdownManagerInv, ShutdownSafeInv
<1>4. JobsInv'
  BY <1>1, ElsewhereJobsInv DEF Shutdown, Elsewhere, threadVars, jobVars
<1>5. /\ UNCHANGED <<phase, jobSystems, held, queue, jobState>>
      /\ call'.local = Main /\ call'.ret = "idle" /\ call'.at = "shutdown" /\ call'.blocking
  BY <1>1 DEF Shutdown, BeginShutdown, Idle, systemVars, jobVars
<1>6. OneSystem' /\ PhaseInv' /\ EndInv'
  BY <1>1, <1>2, <1>5 DEF OneSystem, PhaseInv, EndInv, At
<1> QED
  BY <1>1, <1>3, <1>4, <1>5, <1>6, CallTestInv

LEMMA DropLocalTestInv ==
  ASSUME TestInv, fault = "none", DropLocal
  PROVE  TestInv'
<1>1. /\ ManagerInv /\ JobsInv /\ SafeInv /\ OneSystem /\ PhaseInv /\ EndInv
      /\ Drop(Local) /\ line = "drop" /\ line' = "destroy" /\ At("idle") /\ Local \in Locals
  BY TestProgramAssumption DEF TestInv, ProgramInv, DropLocal, Line
<1>2. \A t \in Threads : handle[t] # "joinable"
  BY <1>1 DEF EndInv, At
<1>3. ManagerInv' /\ SafeInv'
  BY <1>1, <1>2, DropManagerInv, DropSafeInv
<1>4. JobsInv'
  BY <1>1, ElsewhereJobsInv DEF Drop, Elsewhere, threadVars, jobVars
<1>5. UNCHANGED <<phase, jobSystems, call, queue, jobState>> /\ held' = held \ {Local}
  BY <1>1 DEF Drop, jobVars
<1>6. OneSystem' /\ PhaseInv' /\ EndInv'
  BY <1>1, <1>5 DEF OneSystem, PhaseInv, EndInv, At
<1> QED
  BY <1>1, <1>3, <1>4, <1>5, <1>6, CallTestInv

LEMMA DestroyAllTestInv ==
  ASSUME TestInv, fault = "none", DestroyAll
  PROVE  TestInv'
<1>1. /\ ManagerInv /\ JobsInv /\ SafeInv /\ OneSystem /\ PhaseInv /\ EndInv
      /\ DestroyManager /\ line = "destroy" /\ line' = "done"
  BY DEF TestInv, ProgramInv, DestroyAll, Line
<1>2. phase = "up" /\ held = {}
  BY <1>1 DEF PhaseInv, EndInv
<1>3. Len(jobSystems) <= 1
  <2> SUFFICES ASSUME Len(jobSystems) > 1 PROVE FALSE
    BY <1>1 DEF ManagerInv, TypeOK
  <2>1. jobSystems \in Seq(Locals) /\ IsInjective(jobSystems)
    BY <1>1 DEF ManagerInv, TypeOK, LifeInv
  <2>2. 1 \in 1 .. Len(jobSystems) /\ 2 \in 1 .. Len(jobSystems)
    BY <2>1
  <2>3. jobSystems[1] = Local /\ jobSystems[2] = Local
    BY <1>1, <2>1, <2>2, ElementAt DEF OneSystem
  <2>4. 1 \in DOMAIN jobSystems /\ 2 \in DOMAIN jobSystems /\ 1 # 2
    BY <2>1, <2>2
  <2> QED
    BY <2>1, <2>3, <2>4, Zenon DEF IsInjective
<1>4. ManagerInv' /\ SafeInv'
  BY <1>1, <1>2, <1>3, DestroyManagerInv, DestroyManagerSafeInv
<1>5. JobsInv'
  BY <1>1, ElsewhereJobsInv DEF DestroyManager, Elsewhere, threadVars, jobVars
<1>6. /\ UNCHANGED <<phase, jobSystems, held, queue, jobState>>
      /\ call'.local = Main
  BY <1>1 DEF DestroyManager, Idle, systemVars, jobVars
<1>7. OneSystem' /\ PhaseInv' /\ EndInv'
  BY <1>1, <1>6 DEF OneSystem, PhaseInv, EndInv
<1> QED
  BY <1>1, <1>4, <1>5, <1>6, <1>7, CallTestInv

\* What the program schedules in the main system is no job of the batch, and the batch goes
\* to the local system while main() fills it.
LEMMA ScheduleTestInv ==
  ASSUME TestInv, fault = "none", NEW s \in Systems, NEW j \in Jobs, ScheduleJob(s, j),
         \/ s = Main /\ line = "schedule" /\ line' = "keys"
         \/ line = "fill" /\ line' = "fill"
  PROVE  TestInv'
<1>1. /\ ManagerInv /\ JobsInv /\ BatchIsNotCanceled /\ SafeInv
      /\ OneSystem /\ PhaseInv /\ EndInv /\ BatchInv
  BY DEF TestInv, ProgramInv
<1>2. ManagerInv' /\ JobsInv' /\ SafeInv'
  BY <1>1, ScheduleJobManagerInv, ScheduleJobJobsInv, ScheduleJobSafeInv
<1>3. /\ UNCHANGED <<phase, jobSystems, held, call, jobState, handle>>
      /\ queue' = [queue EXCEPT ![s] = @ \cup {j}]
  BY DEF ScheduleJob, systemVars, threadVars
<1>4. OneSystem' /\ PhaseInv' /\ EndInv'
  BY <1>1, <1>3 DEF OneSystem, PhaseInv, EndInv
<1>5. BatchInv'
  <2>1. s = Main => queue'[Local] = queue[Local]
    BY <1>1, <1>3, TestProgramAssumption, ManagerAssumption DEF ManagerInv, TypeOK
  <2> QED
    BY <1>1, <1>3, <2>1 DEF BatchInv, At
<1>6. BatchIsNotCanceled'
  BY <1>1, <1>3 DEF BatchIsNotCanceled
<1> QED
  BY <1>2, <1>4, <1>5, <1>6 DEF TestInv, ProgramInv

\* Where main() does nothing but go on.
LEMMA GoOnTestInv ==
  ASSUME TestInv, fault = "none", UNCHANGED vars, At("idle"),
         line = line' \/ (line \notin {"init", "create", "done"}
                          /\ line' \notin {"init", "create", "done", "drop", "destroy"}),
         line \in {"fill", "waitAll"} /\ line' \notin {"fill", "waitAll"} => queue[Local] = {}
  PROVE  TestInv'
<1>1. /\ ManagerInv /\ JobsInv /\ BatchIsNotCanceled /\ SafeInv
      /\ OneSystem /\ PhaseInv /\ EndInv /\ BatchInv
  BY DEF TestInv, ProgramInv
<1>2. ManagerInv' /\ SafeInv'
  BY <1>1, StutterManagerInv, StutterSafeInv
<1>3. JobsInv'
  BY <1>1, ElsewhereJobsInv DEF Elsewhere, vars, threadVars, jobVars
<1>4. UNCHANGED <<phase, jobSystems, held, call, jobState, handle, queue>>
  BY DEF vars, systemVars, threadVars, jobVars
<1>5. OneSystem' /\ PhaseInv' /\ EndInv'
  BY <1>1, <1>4 DEF OneSystem, PhaseInv, EndInv, At
<1>6. BatchInv' /\ BatchIsNotCanceled'
  BY <1>1, <1>4 DEF BatchInv, BatchIsNotCanceled, At
<1> QED
  BY <1>2, <1>3, <1>5, <1>6 DEF TestInv, ProgramInv

LEMMA MainProgramTestInv ==
  ASSUME TestInv, fault = "none", InitSucceeds, MainProgram
  PROVE  TestInv'
<1>1. CASE Initialise \/ CreateLocal
  BY <1>1, InitialiseTestInv, CreateLocalTestInv
<1>2. CASE ReleaseLocal \/ EndRelease \/ ReserveOne
  BY <1>2, ReleaseTestInv, ReserveOneTestInv
<1>3. CASE EndShutdown \/ DropLocal \/ DestroyAll
  BY <1>3, EndShutdownTestInv, DropLocalTestInv, DestroyAllTestInv
<1>4. CASE ScheduleStarting
  <2>1. Main \in Systems /\ Starting \in Jobs
    BY TestProgramAssumption DEF Systems, Roots
  <2>2. CASE ScheduleJob(Main, Starting)
    BY <1>4, <2>1, <2>2, ScheduleTestInv DEF ScheduleStarting, Line
  <2>3. CASE UNCHANGED vars
    BY <1>4, <2>3, GoOnTestInv DEF ScheduleStarting, Line
  <2> QED
    BY <1>4, <2>2, <2>3 DEF ScheduleStarting
<1>5. CASE ScheduleBatch
  <2>1. PICK j \in Batch : ScheduleJob(Local, j)
    BY <1>5 DEF ScheduleBatch
  <2>2. Local \in Systems /\ j \in Jobs
    BY TestProgramAssumption DEF Systems, Roots
  <2> QED
    BY <1>5, <2>1, <2>2, ScheduleTestInv DEF ScheduleBatch, Line
<1>6. CASE PressReturn \/ PressShift \/ PressSpace
  BY <1>6, GoOnTestInv DEF PressReturn, PressShift, PressSpace, Press, Line
<1>7. CASE BatchScheduled \/ WaitForAllReturns
  BY <1>7, GoOnTestInv DEF BatchScheduled, WaitForAllReturns, Line
<1> QED
  BY <1>1, <1>2, <1>3, <1>4, <1>5, <1>6, <1>7 DEF MainProgram

------------------------------------------------------------------------------
(* Every behaviour                                                          *)

LEMMA InitTestInv ==
  ASSUME TestInit
  PROVE  TestInv
<1>1. ManagerInv /\ SafeInv
  BY InitManagerInvHolds, InitRulesInv DEF TestInit, RulesInv
<1>2. JobsInv
  BY DEF TestInit, Init, JobsInv, InOnePlace, CanceledInv, Free, ChildInv, WorkersInv
<1>3. OneSystem /\ PhaseInv /\ EndInv
  BY EmptyList DEF TestInit, Init, Idle, OneSystem, PhaseInv, EndInv, At
<1>4. BatchInv /\ BatchIsNotCanceled
  BY TestProgramAssumption
     DEF TestInit, Init, BatchInv, BatchIsNotCanceled, Systems, Roots
<1> QED
  BY <1>1, <1>2, <1>3, <1>4 DEF TestInv, ProgramInv

LEMMA TestInvHolds ==
  ASSUME InitSucceeds
  PROVE  TestSpec => []TestInv
<1>1. TestInit => TestInv
  BY InitTestInv
<1>2. TestInv /\ [TestNext]_testVars => TestInv'
  <2> SUFFICES ASSUME TestInv, [TestNext]_testVars PROVE TestInv'
    OBVIOUS
  <2>1. CASE TestNext
    <3>1. fault = "none"
      BY <2>1 DEF TestNext
    <3>2. CASE MainProgram
      BY <3>1, <3>2, MainProgramTestInv
    <3>3. CASE MainStep(SpawnMayFail) /\ UNCHANGED line
      <4>1. SpawnMayFail = FALSE
        BY ManagerAssumption DEF InitSucceeds
      <4> QED
        BY <3>1, <3>3, <4>1, MainTestInv
    <3>4. CASE (\E t \in Threads : WorkerStep(t)) /\ UNCHANGED line
      BY <3>1, <3>4, WorkerTestInv
    <3> QED
      BY <2>1, <3>2, <3>3, <3>4 DEF TestNext
  <2>2. CASE UNCHANGED testVars
    <3>1. UNCHANGED vars /\ UNCHANGED line
      BY <2>2 DEF testVars
    <3>2. ManagerInv' /\ (SafeInv => SafeInv')
      BY <3>1, StutterManagerInv, StutterSafeInv DEF TestInv
    <3>3. JobsInv'
      BY <3>1, ElsewhereJobsInv DEF TestInv, Elsewhere, vars, threadVars, jobVars
    <3>4. UNCHANGED <<phase, jobSystems, held, call, jobState, handle, queue, fault, line>>
      BY <3>1 DEF vars, systemVars, threadVars, jobVars
    <3>5. BatchIsNotCanceled' /\ (ProgramInv => ProgramInv')
      BY <3>4 DEF TestInv, BatchIsNotCanceled, ProgramInv, OneSystem, PhaseInv, EndInv, BatchInv,
                  At
    <3> QED
      BY <3>2, <3>3, <3>4, <3>5 DEF TestInv
  <2> QED
    BY <2>1, <2>2
<1> QED
  BY <1>1, <1>2, PTL DEF TestSpec

\* Whatever keys are pressed, and however many threads and jobs there are: when Init succeeds,
\* the program meets no failed assertion, no use of a destroyed system and no std::terminate,
\* up to and in the destructor of the manager.  The one undefined behaviour left is the
\* erase(end()) of a system that is released twice (main.cpp:68-208, JobSystemManager.cpp:357).
THEOREM ProgramMeetsNoOtherFault == InitSucceeds => (TestSpec => []NoFaultInProgram)
<1> SUFFICES ASSUME InitSucceeds PROVE TestSpec => []NoFaultInProgram
  OBVIOUS
<1>1. TestInv => NoFaultInProgram
  BY DEF TestInv, SafeInv, NoFault, NoFaultInProgram
<1>2. TestSpec => []TestInv
  BY TestInvHolds
<1> QED
  BY <1>1, <1>2, PTL

\* And WaitForAll keeps every job of the batch from the Release that would cancel it
\* (main.cpp:170-183, 201).
THEOREM BatchIsKept == InitSucceeds => (TestSpec => []BatchIsNotCanceled)
<1> SUFFICES ASSUME InitSucceeds PROVE TestSpec => []BatchIsNotCanceled
  OBVIOUS
<1>1. TestInv => BatchIsNotCanceled
  BY DEF TestInv
<1>2. TestSpec => []TestInv
  BY TestInvHolds
<1> QED
  BY <1>1, <1>2, PTL
==============================================================================
