------------------------ MODULE HostCoresCheckProofs ------------------------
(***************************************************************************)
(* What HostCoresCheck says of one scheduling decision, for any number of  *)
(* cores, any share and limit, and any request.  There is one step, so the *)
(* invariant says that the plan is the one the code computes: the proofs   *)
(* are about its arithmetic.                                               *)
(***************************************************************************)
EXTENDS HostCoresCheck, HostCoresProofs

-----------------------------------------------------------------------------
\* The plan is computed from the cores and the request, or not yet made.
Decided ==
    /\ remain \in [Cores -> 0 .. CoreShare]
    /\ ask \in Asks
    /\ plan = NoPlan \/ (PlanDefined(remain, ask) /\ plan = PlanFor(remain, ask))

\* The plan is what get_container_cores computes from the cores it was asked
\* about, or is not made yet.
THEOREM DecisionKept == Spec => []Decided
<1>1. Init => Decided
  BY DEF Init, Decided
<1>2. Decided /\ [Next]_vars => Decided'
  <2>1. Decided /\ Schedule => Decided'
    BY DEF Decided, Schedule
  <2>2. Decided /\ UNCHANGED vars => Decided'
    BY DEF Decided, vars
  <2> QED
    BY <2>1, <2>2 DEF Next
<1> QED
  BY <1>1, <1>2, PTL DEF Spec

\* The parts of a request.
LEMMA AskParts ==
  ASSUME NEW a \in Asks
  PROVE  /\ a.n \in Nat /\ a.n # 0 /\ a.ncore \in Nat /\ a.nshare \in Nat
         /\ a.nshare < CoreShare /\ (a.ncore # 0 \/ a.nshare # 0)
<1>1. a \in [n : 1 .. MaxContainers, ncore : 0 .. 2, nshare : 0 .. CoreShare - 1]
      /\ (a.ncore > 0 \/ a.nshare > 0)
  BY DEF Asks
<1>2. a.n \in 1 .. MaxContainers /\ a.ncore \in 0 .. 2 /\ a.nshare \in 0 .. CoreShare - 1
  BY <1>1
<1> QED
  BY <1>1, <1>2, ShareAssumption, MaxContainersAssumption

\* A decision that was made.
LEMMA PlanParts ==
  ASSUME Decided, plan # NoPlan
  PROVE  LET total == Smaller(ask.n, MaxContainerCount(remain, ask.ncore, ask.nshare))
         IN  /\ remain \in [Cores -> Int] /\ \A c \in Cores : remain[c] >= 0
             /\ CountDefined(remain, ask.ncore, ask.nshare)
             /\ MaxContainerCount(remain, ask.ncore, ask.nshare) \in Int
             /\ plan.total = total /\ total \in Int /\ total <= ask.n
             /\ plan.cores = ContainerCores(remain, total, ask.ncore, ask.nshare)
             /\ plan = [total |-> plan.total, cores |-> plan.cores]
             /\ CoresDefined(remain, total, ask.ncore, ask.nshare)
             /\ plan.cores \in AllocationType
<1> DEFINE M == MaxContainerCount(remain, ask.ncore, ask.nshare)
           total == Smaller(ask.n, M)
<1>1. remain \in [Cores -> Int] /\ \A c \in Cores : remain[c] >= 0
  BY ShareAssumption DEF Decided
<1>2. /\ ask.n \in Nat /\ ask.ncore \in Nat /\ ask.nshare \in Nat
      /\ ask.nshare < CoreShare
  BY AskParts DEF Decided
<1>3. PlanDefined(remain, ask) /\ plan = PlanFor(remain, ask)
  BY DEF Decided
<1>4. CountDefined(remain, ask.ncore, ask.nshare)
      /\ CoresDefined(remain, total, ask.ncore, ask.nshare)
  BY <1>3 DEF PlanDefined
<1>5. M \in Int
  BY <1>1, <1>2, <1>4, CountInt
<1>6. plan = [total |-> total,
              cores |-> ContainerCores(remain, total, ask.ncore, ask.nshare)]
  BY <1>3 DEF PlanFor
<1>7. total \in Int /\ total <= ask.n
  <2> HIDE DEF M
  <2> QED
    BY <1>2, <1>5 DEF Smaller
<1> HIDE DEF total
<1>8. ContainerCores(remain, total, ask.ncore, ask.nshare) \in AllocationType
  BY <1>1, <1>2, <1>4, <1>7, PlanType
<1> QED
  BY <1>1, <1>4, <1>5, <1>6, <1>7, <1>8 DEF total

\* The host's count is never more than what is asked for, and the plan is two
\* lists of cores (Host.get_container_cores).
THEOREM TypeCorrect == Spec => []TypeOK
<1>1. Decided => TypeOK
  <2> SUFFICES ASSUME Decided PROVE TypeOK
    OBVIOUS
  <2>1. CASE plan = NoPlan
    <3>1. NoCores \in AllocationType
      BY DEF NoCores, AllocationType
    <3>2. plan = [total |-> 0, cores |-> NoCores]
      BY <2>1 DEF NoPlan
    <3>3. ask.n \in Nat
      BY AskParts DEF Decided
    <3> QED
      BY <3>1, <3>2, <3>3 DEF TypeOK, Decided
  <2>2. CASE plan # NoPlan
    BY <2>2, PlanParts DEF TypeOK, Decided
  <2> QED
    BY <2>1, <2>2
<1> QED
  BY <1>1, DecisionKept, PTL

\* Nothing is planned that is not free, whatever the cores and the request:
\* a core in both lists would be taken twice (Host.get_container_cores).
THEOREM NothingPromisedTwice == Spec => []PlanFitsCores
<1>1. Decided => PlanFitsCores
  <2> SUFFICES ASSUME Decided, plan # NoPlan, NEW c \in Cores
               PROVE  Draw(plan.cores, ask.nshare, c) <= remain[c]
    BY DEF PlanFitsCores
  <2> DEFINE total == Smaller(ask.n, MaxContainerCount(remain, ask.ncore, ask.nshare))
  <2>1. /\ remain \in [Cores -> Int] /\ remain[c] >= 0
        /\ total \in Int /\ CoresDefined(remain, total, ask.ncore, ask.nshare)
        /\ plan.cores = ContainerCores(remain, total, ask.ncore, ask.nshare)
    BY PlanParts
  <2>2. ask.ncore \in Nat /\ ask.nshare \in Nat /\ ask.nshare < CoreShare
    BY AskParts DEF Decided
  <2> HIDE DEF total
  <2> QED
    BY <2>1, <2>2, PlanFits
<1> QED
  BY <1>1, DecisionKept, PTL

-----------------------------------------------------------------------------
(* Cutting a plan into chunks.                                             *)

\* A plan of at least one container has a share for each.
LEMMA PlanCut ==
  ASSUME Decided, Planned
  PROVE  /\ plan # NoPlan /\ plan.total \in Nat \ {0}
         /\ plan.cores \in AllocationType
         /\ IterDefined(plan.cores, plan.total)
         /\ Divisible(plan.cores, plan.total)
<1>1. plan # NoPlan
  BY DEF Planned, NoPlan
<1> DEFINE M == MaxContainerCount(remain, ask.ncore, ask.nshare)
           total == Smaller(ask.n, M)
<1>2. /\ remain \in [Cores -> Int] /\ M \in Int
      /\ CountDefined(remain, ask.ncore, ask.nshare)
      /\ plan.total = total /\ total \in Int
      /\ plan.cores = ContainerCores(remain, total, ask.ncore, ask.nshare)
      /\ CoresDefined(remain, total, ask.ncore, ask.nshare)
      /\ plan.cores \in AllocationType
  BY <1>1, PlanParts
<1>3. /\ ask.n \in Nat /\ ask.ncore \in Nat /\ ask.nshare \in Nat
      /\ ask.nshare < CoreShare
  BY AskParts DEF Decided
<1>4. total > 0
  BY <1>2 DEF Planned
<1>5. ask.ncore # 0 => total <= Len(FullCores(remain))
  <2>1. ask.ncore # 0 => M <= Len(FullCores(remain))
    BY <1>2, <1>3, CountAtMost
  <2>2. Len(FullCores(remain)) \in Nat
    BY <1>2, FullCoresList
  <2>3. total <= M
    <3> HIDE DEF M
    <3> QED
      BY <1>2, <1>3 DEF Smaller
  <2> HIDE DEF total, M
  <2> QED
    BY <1>2, <2>1, <2>2, <2>3
<1> HIDE DEF total
<1>6. total \in Nat /\ total # 0
  BY <1>2, <1>4
<1>7. Divisible(ContainerCores(remain, total, ask.ncore, ask.nshare), total)
  BY <1>2, <1>3, <1>5, <1>6, PlanDivisible
<1> QED
  BY <1>1, <1>2, <1>6, <1>7 DEF IterDefined

\* How many chunks there are.
LEMMA ChunksLength ==
  ASSUME NEW A \in AllocationType, NEW n \in Nat \ {0}
  PROVE  LET m == Len(IterCores(A, n))
         IN  /\ m \in Nat /\ DOMAIN IterCores(A, n) = 1 .. m
             /\ A = NoCores => m = n
             /\ A # NoCores =>
                   /\ m >= ChunkCount(A.full, Len(A.full) \div n)
                   /\ m >= ChunkCount(A.part, Len(A.part) \div n)
<1> DEFINE f == Len(A.full) \div n
           p == Len(A.part) \div n
           x == ChunkCount(A.full, f)
           y == ChunkCount(A.part, p)
<1>1. CASE A = NoCores
  <2>1. IterCores(A, n) = [i \in 1 .. n |-> NoCores]
    BY <1>1 DEF IterCores
  <2> QED
    BY <1>1, <2>1
<1>2. CASE A # NoCores
  <2>1. IterCores(A, n) = [i \in 1 .. Max({x, y}) |->
                              [full |-> Chunk(A.full, f, i), part |-> Chunk(A.part, p, i)]]
    BY <1>2 DEF IterCores
  <2>2. x \in Nat /\ y \in Nat
    <3>1. ASSUME NEW s \in Seq(Cores) PROVE ChunkCount(s, Len(s) \div n) \in Nat
      <4> DEFINE size == Len(s) \div n
      <4>1. Len(s) \in Nat
        BY Places
      <4>2. size \in Nat
        BY <4>1, Quotient
      <4> HIDE DEF size
      <4>3. size # 0 => Len(s) + size - 1 \in Nat
        BY <4>1, <4>2
      <4>4. size # 0 => (Len(s) + size - 1) \div size \in Nat
        BY <4>2, <4>3, Quotient
      <4>5. ChunkCount(s, size) \in Nat
        BY <4>4 DEF ChunkCount
      <4> QED
        BY <4>5 DEF size
    <3>2. A.full \in Seq(Cores) /\ A.part \in Seq(Cores)
      BY DEF AllocationType
    <3> QED
      BY <3>1, <3>2
  <2> HIDE DEF x, y, f, p
  <2>3. Max({x, y}) \in Nat /\ Max({x, y}) >= x /\ Max({x, y}) >= y
    <3>1. \E z \in {x, y} : \A w \in {x, y} : z >= w
      BY <2>2
    <3>2. Max({x, y}) \in {x, y} /\ \A w \in {x, y} : Max({x, y}) >= w
      BY <3>1 DEF Max
    <3> QED
      BY <2>2, <3>2
  <2>4. Len(IterCores(A, n)) = Max({x, y}) /\ DOMAIN IterCores(A, n) = 1 .. Max({x, y})
    BY <2>1, <2>3
  <2> QED
    BY <1>2, <2>3, <2>4 DEF x, y, f, p
<1> QED
  BY <1>1, <1>2

\* Each chunk is an allocation, cut from the two lists.
LEMMA ChunkAt ==
  ASSUME NEW A \in AllocationType, NEW n \in Nat \ {0}, NEW i \in 1 .. Len(IterCores(A, n))
  PROVE  /\ IterCores(A, n)[i] \in AllocationType
         /\ IterCores(A, n)[i].full = Chunk(A.full, Len(A.full) \div n, i)
         /\ IterCores(A, n)[i].part = Chunk(A.part, Len(A.part) \div n, i)
<1>1. n \in Int /\ IterDefined(A, n)
  BY DEF IterDefined
<1>2. Len(IterCores(A, n)) \in Nat
  BY <1>1, ChunksOf
<1>3. i \in Nat \ {0} /\ i <= Len(IterCores(A, n))
  BY <1>2
<1> QED
  BY <1>1, <1>3, ChunksOf

\* The first k chunks and what is left over make up the allocation.
LEMMA ChunksTaken ==
  ASSUME NEW A \in AllocationType, NEW n \in Nat \ {0}, IterDefined(A, n),
         NEW nshare \in Nat, NEW c, NEW d,
         \A i \in 1 .. Len(IterCores(A, n)) : d[i] = Draw(IterCores(A, n)[i], nshare, c),
         NEW k \in Nat, k <= Len(IterCores(A, n))
  PROVE  SumOver(d, 1 .. k) + LeftOver(A, n, k, nshare, c) = Draw(A, nshare, c)
<1> DEFINE m == Len(IterCores(A, n))
           P(j) == SumOver(d, 1 .. j) + LeftOver(A, n, j, nshare, c) = Draw(A, nshare, c)
           Bad == {j \in 0 .. m : ~P(j)}
<1>1. m \in Nat
  BY ChunksOf
<1>2. \A i \in 1 .. m : d[i] \in Nat
  <2> SUFFICES ASSUME NEW i \in 1 .. m PROVE d[i] \in Nat
    OBVIOUS
  <2>1. IterCores(A, n)[i] \in AllocationType
    BY ChunkAt
  <2> QED
    BY <2>1, DrawNat
<1>3. \A j \in 0 .. m : IsFiniteSet(1 .. j) /\ Ints(d, 1 .. j)
  <2> SUFFICES ASSUME NEW j \in 0 .. m PROVE IsFiniteSet(1 .. j) /\ Ints(d, 1 .. j)
    OBVIOUS
  <2>1. IsFiniteSet(1 .. j)
    BY <1>1, FS_Interval
  <2>2. \A i \in 1 .. j : i \in 1 .. m
    BY <1>1
  <2> QED
    BY <1>2, <2>1, <2>2 DEF Ints
<1>4. P(0)
  <2>1. 1 .. 0 = {}
    OBVIOUS
  <2>2. SumOver(d, 1 .. 0) = 0
    BY <2>1, SumEmpty
  <2>3. LeftOver(A, n, 0, nshare, c) = Draw(A, nshare, c) /\ Draw(A, nshare, c) \in Nat
    BY LeftOverAll, DrawNat
  <2> QED
    BY <2>2, <2>3
<1>5. ASSUME NEW j \in 0 .. m, j # 0, P(j - 1) PROVE P(j)
  <2>1. j \in Nat \ {0} /\ j <= m /\ j - 1 \in 0 .. m
    BY <1>1, <1>5
  <2>2. LeftOver(A, n, j - 1, nshare, c)
            = Draw(IterCores(A, n)[j], nshare, c) + LeftOver(A, n, j, nshare, c)
    BY <2>1, ChunkDraw
  <2>3. SumOver(d, 1 .. j) = d[j] + SumOver(d, 1 .. j - 1)
    <3>1. 1 .. j = (1 .. j - 1) \cup {j} /\ j \notin 1 .. j - 1
      BY <2>1
    <3>2. IsFiniteSet(1 .. j - 1) /\ Ints(d, (1 .. j - 1) \cup {j})
      BY <1>3, <2>1, <3>1
    <3> QED
      BY <3>1, <3>2, SumInsert
  <2>4. d[j] = Draw(IterCores(A, n)[j], nshare, c) /\ d[j] \in Nat
    BY <1>1, <1>2, <2>1
  <2>5. SumOver(d, 1 .. j - 1) \in Int
    BY <1>3, <2>1, SumInt
  <2>6. LeftOver(A, n, j, nshare, c) \in Nat /\ Draw(A, nshare, c) \in Nat
    BY LeftOverNat, DrawNat
  <2> QED
    BY <1>5, <2>2, <2>3, <2>4, <2>5, <2>6
<1>6. Bad = {}
  <2> SUFFICES ASSUME Bad # {} PROVE FALSE
    OBVIOUS
  <2> HIDE DEF P
  <2>1. PICK j \in Bad : \A i \in Bad : j <= i
    <3>1. Bad \subseteq Nat
      BY <1>1
    <3> QED
      BY <3>1, LeastNat
  <2>2. j \in 0 .. m /\ ~P(j) /\ j # 0
    BY <1>4, <2>1
  <2>3. j - 1 \in 0 .. m /\ j - 1 \notin Bad
    BY <1>1, <2>1, <2>2
  <2> QED
    BY <1>5, <2>2, <2>3
<1>7. k \in 0 .. m
  BY <1>1
<1> HIDE DEF P
<1>8. P(k)
  BY <1>6, <1>7
<1> QED
  BY <1>8 DEF P

\* Every fragment the API occupied for a task is in some container's chunk, so
\* that it comes back when the containers go (_iter_cores).
THEOREM NothingLostBetween == Spec => []ChunksLoseNothing
<1>1. Decided => ChunksLoseNothing
  <2> SUFFICES ASSUME Decided, Planned, NEW c \in Cores
               PROVE  SumFunction([i \in DOMAIN Chunks |-> Draw(Chunks[i], ask.nshare, c)])
                          = Draw(plan.cores, ask.nshare, c)
    BY DEF ChunksLoseNothing
  <2> DEFINE A == plan.cores
             n == plan.total
             m == Len(IterCores(A, n))
             d == [i \in DOMAIN Chunks |-> Draw(Chunks[i], ask.nshare, c)]
  <2>1. n \in Nat \ {0} /\ A \in AllocationType /\ IterDefined(A, n) /\ Divisible(A, n)
    BY PlanCut
  <2>2. ask.nshare \in Nat
    BY AskParts DEF Decided
  <2>3. m \in Nat /\ DOMAIN Chunks = 1 .. m
    BY <2>1, ChunksLength DEF Chunks
  <2>4. DOMAIN d = 1 .. m
        /\ \A i \in 1 .. m : d[i] = Draw(IterCores(A, n)[i], ask.nshare, c)
    BY <2>3 DEF Chunks
  <2>5. SumFunction(d) = SumOver(d, 1 .. m)
    BY <2>4 DEF SumFunction, SumOver
  <2> HIDE DEF A, n, d
  <2>6. SumOver(d, 1 .. m) + LeftOver(A, n, m, ask.nshare, c) = Draw(A, ask.nshare, c)
    BY <2>1, <2>2, <2>3, <2>4, ChunksTaken
  <2>7. LeftOver(A, n, m, ask.nshare, c) = 0
    BY <2>1, <2>2, <2>3, CutsWhole
  <2>8. SumOver(d, 1 .. m) \in Int
    <3>1. \A i \in 1 .. m : d[i] \in Int
      <4> SUFFICES ASSUME NEW i \in 1 .. m PROVE d[i] \in Int
        OBVIOUS
      <4>1. IterCores(A, n)[i] \in AllocationType
        BY <2>1, ChunkAt
      <4> QED
        BY <2>2, <2>4, <4>1, DrawNat
    <3>2. IsFiniteSet(1 .. m)
      BY <2>3, FS_Interval
    <3> QED
      BY <3>1, <3>2, SumInt DEF Ints
  <2>9. SumFunction(d) = Draw(A, ask.nshare, c)
    BY <2>5, <2>6, <2>7, <2>8
  <2> QED
    BY <2>9 DEF d, A
<1> QED
  BY <1>1, DecisionKept, PTL

-----------------------------------------------------------------------------
(* What each container gets.                                               *)

\* The first n chunks are whole ones, and there are n unless they are empty.
LEMMA WholeChunks ==
  ASSUME NEW S, NEW s \in Seq(S), NEW n \in Nat \ {0}, NEW i \in 1 .. n
  PROVE  LET f == Len(s) \div n
         IN  /\ f \in Nat
             /\ Len(Chunk(s, f, i)) = f
             /\ f # 0 => ChunkCount(s, f) >= n
<1> DEFINE f == Len(s) \div n
           a == (i - 1) * f
<1>1. Len(s) \in Nat
  BY Places
<1>2. f \in Nat /\ n * f <= Len(s) /\ Len(s) < n * f + n
  BY <1>1, Division, Quotient
<1> HIDE DEF f
<1>3. i \in Nat /\ i >= 1 /\ n - i \in Nat
  OBVIOUS
<1>4. a \in Nat /\ i * f = a + f /\ i * f \in Nat
  BY <1>2, <1>3, Product
<1>5. i * f <= n * f /\ n * f \in Nat
  <2>1. (n - i) * f \in Nat /\ n * f \in Nat
    BY <1>2, <1>3, Product
  <2>2. (n - i) * f = n * f - i * f
    BY <1>2, <1>3
  <2> QED
    BY <1>4, <2>1, <2>2
<1> HIDE DEF a
<1>6. Smaller(i * f, Len(s)) = a + f /\ a + f <= Len(s)
  <2>1. i * f <= Len(s)
    BY <1>1, <1>2, <1>4, <1>5
  <2> QED
    BY <1>1, <1>4, <2>1 DEF Smaller
<1>7. Chunk(s, f, i) = SubSeq(s, a + 1, a + f)
  BY <1>6 DEF Chunk, a
<1>8. Len(SubSeq(s, a + 1, a + f)) = f
  <2>1. \A j \in a + 1 .. a + f : s[j] \in S
    <3>1. \A j \in 1 .. Len(s) : s[j] \in S
      BY LenProperties
    <3>2. \A j \in a + 1 .. a + f : j \in 1 .. Len(s)
      BY <1>1, <1>2, <1>4, <1>6
    <3> QED
      BY <3>1, <3>2
  <2>2. Len(SubSeq(s, a + 1, a + f)) = IF a + 1 <= a + f THEN a + f - (a + 1) + 1 ELSE 0
    BY <1>2, <1>4, <2>1, SubSeqProperties
  <2> QED
    BY <1>2, <1>4, <2>2
<1>9. ASSUME f # 0 PROVE ChunkCount(s, f) >= n
  <2> DEFINE b == Len(s) + f - 1
             c == b \div f
  <2>1. b \in Nat /\ f \in Nat \ {0} /\ b \in Int
    BY <1>1, <1>2, <1>9
  <2>2. c \in Nat /\ b < f * c + f
    <3> HIDE DEF b
    <3> QED
      BY <2>1, Division, Quotient
  <2>3. ChunkCount(s, f) = c
    BY <1>9 DEF ChunkCount
  <2> HIDE DEF c
  <2>4. f * c \in Nat
    BY <2>1, <2>2, Product
  <2>5. n * f - 1 < f * c
    BY <1>1, <1>2, <1>5, <2>2, <2>4
  <2>6. CASE c < n
    <3>1. n - c - 1 \in Nat
      BY <2>2, <2>6
    <3>2. f * (n - c - 1) \in Nat
      BY <2>1, <3>1, Product
    <3>3. f * (n - c - 1) = n * f - f * c - f
      BY <2>1, <2>2
    <3> QED
      BY <1>5, <2>1, <2>4, <2>5, <3>2, <3>3
  <2> QED
    BY <2>2, <2>3, <2>6
<1> QED
  BY <1>2, <1>7, <1>8, <1>9 DEF f

\* The whole cores of as many containers as the host counts room for are all
\* there (Host.get_max_container_count).
LEMMA WholeCoresThere ==
  ASSUME NEW r \in [Cores -> Int], NEW ncore \in Nat, ncore # 0, NEW nshare \in Nat,
         CountDefined(r, ncore, nshare)
  PROVE  ncore * MaxContainerCount(r, ncore, nshare) <= Len(FullCores(r))
<1> DEFINE whole == Len(FullCores(r))
           budget == ShareBudget(r)
           room == FragmentRoom(r, nshare)
           best(i) == Smaller((whole - i) \div ncore, room + (CoreShare \div nshare) * i)
           most == MaxContainerCount(r, ncore, nshare)
<1>1. whole \in Nat /\ ncore \in Nat \ {0}
  BY FullCoresList
<1>2. most \in Nat
  BY CountAtMost
<1>3. CASE nshare = 0
  <2>1. most = whole \div ncore
    BY <1>3 DEF MaxContainerCount
  <2> HIDE DEF whole, most
  <2>2. ncore * (whole \div ncore) <= whole
    BY <1>1, Division
  <2>3. ncore * most <= whole
    BY <2>1, <2>2
  <2> QED
    BY <2>3 DEF whole, most
<1>4. CASE nshare # 0 /\ MaxShareCore = 0
  <2>1. most = 0
    BY <1>4 DEF MaxContainerCount
  <2>2. ncore * 0 = 0
    OBVIOUS
  <2>3. ncore * most <= whole
    <3> HIDE DEF most, whole
    <3> QED
      BY <1>1, <2>1, <2>2
  <2> QED
    BY <2>3
<1>5. CASE nshare # 0 /\ MaxShareCore # 0
  <2>1. PICK i \in 0 .. budget : most = best(i)
    BY <1>5, MixedCount DEF ServedWith
  <2>2. budget \in Int
    BY FragmentsList, FullCoresList, ShareAssumption DEF ShareBudget
  <2> DEFINE x == (whole - i) \div ncore
             y == room + (CoreShare \div nshare) * i
  <2>3. x \in Int /\ ncore * x <= whole - i
    <3>1. whole - i \in Int
      BY <1>1, <2>2
    <3> HIDE DEF whole
    <3> QED
      BY <1>1, <3>1, Division
  <2>4. most = Smaller(x, y)
    BY <2>1
  <2>5. y \in Int
    <3>1. room \in Nat
      BY <1>5, RoomNat
    <3>2. CoreShare \div nshare \in Nat
      BY <1>5, Quotient, ShareAssumption
    <3>3. (CoreShare \div nshare) * i \in Nat
      BY <2>2, <3>2, Product
    <3> QED
      BY <3>1, <3>3
  <2> HIDE DEF most, x, y, whole, budget
  <2>6. x - most \in Nat
    BY <1>2, <2>3, <2>4, <2>5 DEF Smaller
  <2>7. ncore * (x - most) \in Nat
    BY <2>6, Product
  <2>8. ncore * (x - most) = ncore * x - ncore * most
    BY <1>2, <2>3
  <2>9. ncore * x \in Int /\ ncore * most \in Int
    <3>1. \A u, v \in Int : u * v \in Int
      OBVIOUS
    <3> QED
      BY <1>2, <2>3, <3>1
  <2>10. ncore * most <= whole
    BY <1>1, <2>2, <2>3, <2>7, <2>8, <2>9
  <2> QED
    BY <2>10 DEF most, whole
<1> QED
  BY <1>3, <1>4, <1>5

\* The first n chunks of an allocation, when each list is long enough for n.
LEMMA ServingChunks ==
  ASSUME NEW A \in AllocationType, NEW n \in Nat \ {0}, A # NoCores,
         \/ Len(A.full) >= n
         \/ Len(A.part) >= n
  PROVE  /\ Len(IterCores(A, n)) >= n
         /\ \A i \in 1 .. n :
               /\ Len(IterCores(A, n)[i].full) = Len(A.full) \div n
               /\ Len(IterCores(A, n)[i].part) = Len(A.part) \div n
<1> DEFINE f == Len(A.full) \div n
           p == Len(A.part) \div n
           m == Len(IterCores(A, n))
<1>1. A.full \in Seq(Cores) /\ A.part \in Seq(Cores)
  BY DEF AllocationType
<1>2. Len(A.full) \in Nat /\ Len(A.part) \in Nat
  BY <1>1, Places
<1>3. m \in Nat /\ m >= ChunkCount(A.full, f) /\ m >= ChunkCount(A.part, p)
  BY ChunksLength
<1>4. 1 \in 1 .. n
  OBVIOUS
<1>5. /\ f # 0 => ChunkCount(A.full, f) >= n
      /\ p # 0 => ChunkCount(A.part, p) >= n
  BY <1>1, <1>4, WholeChunks
<1>6. ASSUME NEW a \in Nat, a >= n PROVE a \div n # 0
  <2>1. n * 0 = 0
    OBVIOUS
  <2> DEFINE q == a \div n
  <2>2. q \in Int /\ a < n * q + n
    BY Division
  <2> HIDE DEF q
  <2>3. q # 0
    BY <1>6, <2>1, <2>2
  <2> QED
    BY <2>3 DEF q
<1>7. f # 0 \/ p # 0
  BY <1>2, <1>6
<1>8. /\ f # 0 => ChunkCount(A.full, f) \in Nat
      /\ p # 0 => ChunkCount(A.part, p) \in Nat
  <2>1. ASSUME NEW s \in Seq(Cores), NEW size \in Nat, size # 0
        PROVE  ChunkCount(s, size) \in Nat
    <3>1. Len(s) + size - 1 \in Nat
      BY <2>1, Places
    <3>2. (Len(s) + size - 1) \div size \in Nat
      BY <2>1, <3>1, Quotient
    <3> QED
      BY <2>1, <3>2 DEF ChunkCount
  <2>2. f \in Nat /\ p \in Nat
    BY <1>2, Quotient
  <2> HIDE DEF f, p
  <2> QED
    BY <1>1, <2>1, <2>2
<1>9. m >= n
  <2> HIDE DEF f, p, m
  <2> QED
    BY <1>3, <1>5, <1>7, <1>8
<1>10. ASSUME NEW i \in 1 .. n
       PROVE  /\ Len(IterCores(A, n)[i].full) = f
              /\ Len(IterCores(A, n)[i].part) = p
  <2>1. i \in 1 .. m
    <3> HIDE DEF m
    <3> QED
      BY <1>3, <1>9
  <2>2. /\ IterCores(A, n)[i].full = Chunk(A.full, f, i)
        /\ IterCores(A, n)[i].part = Chunk(A.part, p, i)
    BY <2>1, ChunkAt
  <2> QED
    BY <1>1, <2>2, WholeChunks
<1> QED
  BY <1>9, <1>10

\* Every container of a plan has all its whole cores, and a core to share when
\* it asks for fragments (get_container_cores, then _iter_cores).
THEOREM AllServed == Spec => []EveryContainerIsServed
<1>1. Decided => EveryContainerIsServed
  <2> SUFFICES ASSUME Decided, Planned
               PROVE  /\ Len(Chunks) >= plan.total
                      /\ \A i \in 1 .. plan.total :
                            /\ Len(Chunks[i].full) = ask.ncore
                            /\ ask.nshare > 0 => Chunks[i].part # <<>>
    BY DEF EveryContainerIsServed
  <2> DEFINE A == plan.cores
             n == plan.total
             W == FullCores(remain)
             M == MaxContainerCount(remain, ask.ncore, ask.nshare)
             total == Smaller(ask.n, M)
  <2>1. /\ plan # NoPlan /\ n \in Nat \ {0} /\ A \in AllocationType
    BY PlanCut
  <2>2. /\ remain \in [Cores -> Int] /\ M \in Int
        /\ CountDefined(remain, ask.ncore, ask.nshare)
        /\ n = total
        /\ A = ContainerCores(remain, total, ask.ncore, ask.nshare)
        /\ CoresDefined(remain, total, ask.ncore, ask.nshare)
    BY <2>1, PlanParts
  <2>3. /\ ask.n \in Nat /\ ask.ncore \in Nat /\ ask.nshare \in Nat
        /\ ask.nshare < CoreShare /\ (ask.ncore # 0 \/ ask.nshare # 0)
    BY AskParts DEF Decided
  <2>4. W \in Seq(Cores) /\ Len(W) \in Nat
    BY <2>2, FullCoresList
  <2>5. n <= M
    <3> HIDE DEF M, n
    <3> QED
      BY <2>2, <2>3 DEF Smaller
  <2>6. /\ A = ContainerCores(remain, n, ask.ncore, ask.nshare)
        /\ CoresDefined(remain, n, ask.ncore, ask.nshare)
    BY <2>2, Zenon
  <2> HIDE DEF A, n, W, M, total
  <2>7. ask.ncore # 0 => Len(A.full) = n * ask.ncore /\ Len(A.full) >= n
    <3> SUFFICES ASSUME ask.ncore # 0
                 PROVE  Len(A.full) = n * ask.ncore /\ Len(A.full) >= n
      OBVIOUS
    <3>1. ask.ncore * M <= Len(W)
      BY <2>2, <2>3, WholeCoresThere DEF M, W
    <3>2. ask.ncore * (M - n) \in Nat /\ M - n \in Nat
      <4>1. M - n \in Nat
        BY <2>1, <2>2, <2>5
      <4> QED
        BY <2>3, <4>1, Product
    <3>3. ask.ncore * (M - n) = ask.ncore * M - ask.ncore * n
      BY <2>1, <2>2, <2>3
    <3>4. /\ n * ask.ncore \in Nat /\ n * ask.ncore = ask.ncore * n
          /\ ask.ncore * M \in Int
      <4>1. M \in Nat
        BY <2>1, <2>2, <2>5
      <4>2. n * ask.ncore \in Nat /\ ask.ncore * M \in Nat
        BY <2>1, <2>3, <4>1, Product
      <4>3. n * ask.ncore = ask.ncore * n
        BY <2>1, <2>3
      <4> QED
        BY <4>2, <4>3
    <3>5. n * ask.ncore <= Len(W)
      BY <2>4, <3>1, <3>2, <3>3, <3>4
    <3>6. A.full = Prefix(W, n * ask.ncore)
      BY <2>6 DEF ContainerCores, W
    <3>7. Len(A.full) = Smaller(n * ask.ncore, Len(W))
      BY <2>4, <3>4, <3>6, PrefixLength
    <3>8. n * ask.ncore >= n
      <4>1. ask.ncore * n = (ask.ncore - 1) * n + n /\ (ask.ncore - 1) * n \in Nat
        BY <2>1, <2>3, Product
      <4> QED
        BY <2>1, <3>4, <4>1
    <3> QED
      BY <2>1, <2>4, <3>4, <3>5, <3>7, <3>8 DEF Smaller
  <2>8. ask.nshare # 0 => Len(A.part) >= n
    BY <2>1, <2>2, <2>3, <2>6, PartEnough
  <2>9. A # NoCores
    <3>1. Len(NoCores.full) = 0 /\ Len(NoCores.part) = 0
      BY DEF NoCores
    <3> QED
      BY <2>1, <2>3, <2>7, <2>8, <3>1
  <2>10. /\ Len(IterCores(A, n)) >= n
         /\ \A i \in 1 .. n :
               /\ Len(IterCores(A, n)[i].full) = Len(A.full) \div n
               /\ Len(IterCores(A, n)[i].part) = Len(A.part) \div n
    BY <2>1, <2>3, <2>7, <2>8, <2>9, ServingChunks
  <2>11. Len(A.full) \div n = ask.ncore
    <3>1. CASE ask.ncore = 0
      <4>1. A.full = <<>>
        BY <2>6, <3>1 DEF ContainerCores
      <4>2. Len(A.full) = 0 /\ n * 0 = 0
        BY <2>1, <4>1
      <4> QED
        BY <2>1, <3>1, <4>2, QuotientIs
    <3>2. CASE ask.ncore # 0
      <4> DEFINE a == n * ask.ncore
      <4>1. a \in Nat /\ Len(A.full) = a
        BY <2>1, <2>3, <2>7, <3>2, Product
      <4>2. n * ask.ncore <= a /\ a < n * ask.ncore + n /\ a \in Int
        <5>1. a < a + n /\ a <= a
          <6> HIDE DEF a
          <6> QED
            BY <2>1, <4>1
        <5> QED
          BY <4>1, <5>1
      <4> HIDE DEF a
      <4>3. a \div n = ask.ncore
        BY <2>1, <2>3, <4>2, QuotientIs
      <4> QED
        BY <4>1, <4>3
    <3> QED
      BY <3>1, <3>2
  <2>12. ASSUME ask.nshare > 0, NEW i \in 1 .. n PROVE IterCores(A, n)[i].part # <<>>
    <3> DEFINE q == Len(A.part) \div n
    <3>1. Len(A.part) >= n /\ Len(A.part) \in Int
      <4>1. A.part \in Seq(Cores)
        BY <2>1 DEF AllocationType
      <4> QED
        BY <2>3, <2>8, <2>12, <4>1, Places
    <3>2. q \in Int /\ Len(A.part) < n * q + n
      BY <2>1, <3>1, Division
    <3>3. n * 0 = 0
      BY <2>1
    <3>4. Len(IterCores(A, n)[i].part) = q
      BY <2>10
    <3> HIDE DEF q
    <3>5. q # 0
      BY <2>1, <3>1, <3>2, <3>3
    <3> QED
      BY <3>4, <3>5
  <2>13. /\ Len(IterCores(A, n)) >= n
         /\ \A i \in 1 .. n :
               /\ Len(IterCores(A, n)[i].full) = ask.ncore
               /\ ask.nshare > 0 => IterCores(A, n)[i].part # <<>>
    BY <2>10, <2>11, <2>12
  <2> QED
    BY <2>13 DEF Chunks, A, n
<1> QED
  BY <1>1, DecisionKept, PTL

-----------------------------------------------------------------------------
(* The count is the best one.                                              *)

\* A finite set has a subset of each size up to its own.
LEMMA SubsetOfSize ==
  ASSUME NEW S, IsFiniteSet(S), NEW n \in 0 .. Cardinality(S)
  PROVE  \E T \in SUBSET S : Cardinality(T) = n
<1> DEFINE P(i) == \E T \in SUBSET S : Cardinality(T) = i
           Bad == {i \in 0 .. Cardinality(S) : ~P(i)}
<1>1. Cardinality(S) \in Nat
  BY FS_CardinalityType
<1>2. P(0)
  <2>1. {} \in SUBSET S /\ Cardinality({}) = 0
    BY FS_EmptySet
  <2> QED
    BY <2>1
<1>3. ASSUME NEW i \in 0 .. Cardinality(S), i # 0, P(i - 1) PROVE P(i)
  <2>1. PICK T \in SUBSET S : Cardinality(T) = i - 1
    BY <1>3
  <2>2. T # S
    BY <1>1, <1>3, <2>1
  <2>3. PICK x \in S : x \notin T
    BY <2>1, <2>2
  <2>4. IsFiniteSet(T)
    BY FS_Subset
  <2>5. Cardinality(T \cup {x}) = Cardinality(T) + 1
    BY <2>3, <2>4, FS_AddElement
  <2>6. T \cup {x} \in SUBSET S /\ Cardinality(T \cup {x}) = i
    BY <1>1, <2>1, <2>3, <2>5
  <2> QED
    BY <2>6
<1>4. Bad = {}
  <2> SUFFICES ASSUME Bad # {} PROVE FALSE
    OBVIOUS
  <2> HIDE DEF P
  <2>1. PICK j \in Bad : \A i \in Bad : j <= i
    <3>1. Bad \subseteq Nat
      BY <1>1
    <3> QED
      BY <3>1, LeastNat
  <2>2. j \in 0 .. Cardinality(S) /\ ~P(j) /\ j # 0
    BY <1>2, <2>1
  <2>3. j - 1 \in 0 .. Cardinality(S) /\ j - 1 \notin Bad
    BY <1>1, <2>1, <2>2
  <2> QED
    BY <1>3, <2>2, <2>3
<1> HIDE DEF P
<1>5. P(n)
  BY <1>4
<1> QED
  BY <1>5 DEF P

\* The cores of a state of the host: how many are whole, how many are shared,
\* and how many containers the shared ones can serve (Host.get_free_cores).
LEMMA HostState ==
  ASSUME remain \in [Cores -> Int]
  PROVE  /\ IsFiniteSet(Whole) /\ Len(FullCores(remain)) = Cardinality(Whole)
         /\ Cardinality(Whole) \in Nat
         /\ IsFiniteSet(SharedNow(remain))
         /\ Len(Fragments(remain)) = Cardinality(SharedNow(remain))
         /\ Cardinality(SharedNow(remain)) \in Nat
         /\ ToSet(Fragments(remain)) = SharedNow(remain)
         /\ Whole \cap SharedNow(remain) = {}
<1>1. /\ IsListOf(FullCores(remain), Whole)
      /\ IsListOf(Fragments(remain), SharedNow(remain))
      /\ IsFiniteSet(Whole) /\ IsFiniteSet(SharedNow(remain))
  BY CoreLists DEF Whole, SharedNow
<1>2. /\ Len(FullCores(remain)) = Cardinality(Whole) /\ Cardinality(Whole) \in Nat
  BY <1>1, ListOf
<1> DEFINE s == Fragments(remain)
           S == SharedNow(remain)
<1> HIDE DEF s, S
<1>3. /\ s \in Seq(S) /\ Len(s) = Cardinality(S) /\ Len(s) \in Nat
      /\ \A i \in 1 .. Len(s) : s[i] \in S
      /\ \A c \in S : \E i \in 1 .. Len(s) : s[i] = c
  BY <1>1, ListOf DEF s, S
<1>4. DOMAIN s = 1 .. Len(s)
  BY <1>3, LenProperties
<1>5. ToSet(s) = S
  BY <1>3, <1>4 DEF ToSet
<1>6. \A c \in Whole : c \notin SharedNow(remain)
  BY ShareAssumption DEF Whole, SharedNow
<1> QED
  BY <1>1, <1>2, <1>3, <1>5, <1>6 DEF s, S

\* Places on the shared cores once some whole ones are shared too.
LEMMA PlacesOpened ==
  ASSUME remain \in [Cores -> Int], NEW nshare \in Nat \ {0}, NEW opened \in SUBSET Whole
  PROVE  SumFunction([c \in opened \cup SharedNow(remain) |-> remain[c] \div nshare])
             = FragmentRoom(remain, nshare) + (CoreShare \div nshare) * Cardinality(opened)
<1> DEFINE S == SharedNow(remain)
           m == CoreShare \div nshare
           g == [c \in opened \cup S |-> remain[c] \div nshare]
           h == [c \in S |-> remain[c] \div nshare]
<1>1. /\ IsFiniteSet(opened) /\ Cardinality(opened) \in Nat /\ IsFiniteSet(S)
      /\ opened \cap S = {} /\ opened \cup S \subseteq Cores
  <2>1. IsFiniteSet(Whole) /\ IsFiniteSet(S) /\ Whole \cap S = {}
    BY HostState
  <2>2. IsFiniteSet(opened) /\ Cardinality(opened) \in Nat
    BY <2>1, FS_Subset, FS_CardinalityType
  <2> QED
    BY <2>1, <2>2 DEF Whole, SharedNow
<1>2. m \in Int
  BY Division, ShareAssumption
<1>3. \A c \in opened : g[c] = m
  BY DEF Whole
<1>4. \A c \in S : g[c] \in Int /\ h[c] = g[c]
  <2> SUFFICES ASSUME NEW c \in S PROVE g[c] \in Int /\ h[c] = g[c]
    OBVIOUS
  <2>1. remain[c] \in Int
    BY <1>1
  <2>2. remain[c] \div nshare \in Int
    BY <2>1, Division
  <2> QED
    BY <2>2
<1>5. SumFunction(g) = SumOver(g, opened \cup S)
  BY DEF SumFunction, SumOver
<1>6. FragmentRoom(remain, nshare) = SumOver(h, S)
  <2>1. ToSet(Fragments(remain)) = S
    BY HostState
  <2>2. FragmentRoom(remain, nshare) = SumFunction(h)
    BY <2>1 DEF FragmentRoom
  <2> QED
    BY <2>2 DEF SumFunction, SumOver
<1> HIDE DEF S, m, g, h
<1>7. Ints(g, S)
  BY <1>4 DEF Ints
<1>8. SumOver(h, S) = SumOver(g, S) /\ SumOver(g, S) \in Int
  BY <1>1, <1>4, <1>7, SumSame, SumInt
<1>9. SumOver(g, opened \cup S) = m * Cardinality(opened) + SumOver(g, S)
  BY <1>1, <1>2, <1>3, <1>7, SumOfEqual
<1>10. m * Cardinality(opened) \in Int
  <2>1. \A u, v \in Int : u * v \in Int
    OBVIOUS
  <2> QED
    BY <1>1, <1>2, <2>1
<1>11. SumFunction(g) = FragmentRoom(remain, nshare) + m * Cardinality(opened)
  BY <1>5, <1>6, <1>8, <1>9, <1>10
<1> QED
  BY <1>11 DEF g, m, S

\* k fits into a quotient when k times the divisor fits.
LEMMA FitsQuotient ==
  ASSUME NEW a \in Int, NEW n \in Nat \ {0}, NEW k \in Nat
  PROVE  k * n <= a <=> k <= a \div n
<1> DEFINE x == a \div n
<1>1. x \in Int /\ n * x <= a /\ a < n * x + n
  BY Division
<1> HIDE DEF x
<1>2. n * x \in Int /\ n * k \in Int
  <2>1. \A u, v \in Int : u * v \in Int
    OBVIOUS
  <2> QED
    BY <1>1, <2>1
<1>3. k * n = n * k
  OBVIOUS
<1>4. ASSUME k <= x PROVE n * k <= a
  <2>1. x - k \in Nat
    BY <1>1, <1>4
  <2>2. n * (x - k) \in Nat
    BY <2>1, Product
  <2>3. n * (x - k) = n * x - n * k
    BY <1>1
  <2> QED
    BY <1>1, <1>2, <2>2, <2>3
<1>5. ASSUME x < k PROVE a < n * k
  <2>1. k - x - 1 \in Nat
    BY <1>1, <1>5
  <2>2. n * (k - x - 1) \in Nat
    BY <2>1, Product
  <2>3. n * (k - x - 1) = n * k - n * x - n
    BY <1>1
  <2> QED
    BY <1>1, <1>2, <2>2, <2>3
<1>6. k <= x <=> n * k <= a
  BY <1>1, <1>2, <1>4, <1>5
<1> QED
  BY <1>3, <1>6 DEF x

\* Whole cores only: k fit when there are cores for k.
LEMMA FitsWhole ==
  ASSUME remain \in [Cores -> Int], ask.ncore \in Nat \ {0}, ask.nshare = 0, NEW k \in Nat
  PROVE  Fits(k) <=> k <= MaxContainerCount(remain, ask.ncore, ask.nshare)
<1> DEFINE W == Cardinality(Whole)
<1>1. IsFiniteSet(Whole) /\ W \in Nat /\ Len(FullCores(remain)) = W
  BY HostState
<1>2. MaxContainerCount(remain, ask.ncore, ask.nshare) = W \div ask.ncore
  BY <1>1 DEF MaxContainerCount
<1>3. Fits(k) <=> k = 0 \/ W >= k * ask.ncore
  <2>1. Whole \ {} = Whole /\ {} \in SUBSET Whole
    OBVIOUS
  <2>2. ASSUME Fits(k), k # 0 PROVE W >= k * ask.ncore
    <3>1. PICK opened \in SUBSET Whole :
            Cardinality(Whole \ opened) >= k * ask.ncore /\ opened = {}
      BY <2>2 DEF Fits
    <3>2. Whole \ opened = Whole
      BY <3>1
    <3> QED
      BY <3>1, <3>2
  <2>3. ASSUME W >= k * ask.ncore PROVE Fits(k)
    <3>1. Cardinality(Whole \ {}) >= k * ask.ncore
      BY <2>1, <2>3
    <3>2. ~(ask.nshare > 0)
      OBVIOUS
    <3> QED
      BY <2>1, <3>1, <3>2 DEF Fits
  <2>4. k = 0 => Fits(k)
    BY DEF Fits
  <2> QED
    BY <2>2, <2>3, <2>4
<1>4. k * ask.ncore <= W <=> k <= W \div ask.ncore
  BY <1>1, FitsQuotient
<1>5. k = 0 => k * ask.ncore <= W
  <2>1. 0 * ask.ncore = 0
    OBVIOUS
  <2> QED
    BY <1>1, <2>1
<1>6. k * ask.ncore \in Int /\ (W >= k * ask.ncore <=> k * ask.ncore <= W)
  <2>1. k * ask.ncore \in Nat
    BY Product
  <2> QED
    BY <1>1, <2>1
<1> HIDE DEF W
<1> QED
  BY <1>2, <1>3, <1>4, <1>5, <1>6

\* Opening i cores serves what the code computes for i, no more.
LEMMA ServedWithIs ==
  ASSUME remain \in [Cores -> Int], NEW ncore \in Nat \ {0}, NEW nshare \in Nat \ {0},
         NEW opened \in SUBSET Whole, NEW k \in Nat
  PROVE  k <= ServedWith(remain, ncore, nshare, Cardinality(opened)) <=>
             /\ Cardinality(Whole \ opened) >= k * ncore
             /\ k <= SumFunction([c \in opened \cup SharedNow(remain) |->
                                     remain[c] \div nshare])
<1> DEFINE W == Cardinality(Whole)
           i == Cardinality(opened)
           x == (W - i) \div ncore
           y == FragmentRoom(remain, nshare) + (CoreShare \div nshare) * i
<1>1. IsFiniteSet(Whole) /\ W \in Nat /\ Len(FullCores(remain)) = W
  BY HostState
<1>2. /\ IsFiniteSet(opened) /\ i \in Nat
      /\ IsFiniteSet(Whole \ opened) /\ Cardinality(Whole \ opened) = W - i
  <2>1. IsFiniteSet(opened) /\ i \in Nat
    BY <1>1, FS_Subset, FS_CardinalityType
  <2>2. IsFiniteSet(Whole \ opened) /\ Cardinality(Whole \ opened) \in Nat
    BY <1>1, FS_Subset, FS_CardinalityType
  <2>3. opened \cap (Whole \ opened) = {} /\ opened \cup (Whole \ opened) = Whole
    OBVIOUS
  <2>4. W = i + Cardinality(Whole \ opened)
    BY <2>1, <2>2, <2>3, Disjoint
  <2> QED
    BY <2>1, <2>2, <2>4
<1>3. SumFunction([c \in opened \cup SharedNow(remain) |-> remain[c] \div nshare]) = y
  BY PlacesOpened
<1>4. ServedWith(remain, ncore, nshare, i) = Smaller(x, y)
  BY <1>1 DEF ServedWith
<1>5. x \in Int /\ y \in Int
  <2>1. W - i \in Int
    BY <1>1, <1>2
  <2> HIDE DEF W, i
  <2>2. x \in Int
    BY <2>1, Division
  <2>3. FragmentRoom(remain, nshare) \in Nat
    BY RoomNat
  <2>4. CoreShare \div nshare \in Nat
    BY ShareAssumption, Quotient
  <2>5. (CoreShare \div nshare) * i \in Nat
    BY <1>2, <2>4, Product
  <2>6. y \in Int
    BY <2>3, <2>5
  <2> QED
    BY <2>2, <2>6
<1>6. k * ncore <= W - i <=> k <= x
  <2>1. W - i \in Int
    BY <1>1, <1>2
  <2> HIDE DEF W, i
  <2> QED
    BY <2>1, FitsQuotient
<1>7. k * ncore \in Int /\ W - i \in Int
  <2>1. k * ncore \in Nat
    BY Product
  <2> QED
    BY <1>1, <1>2, <2>1
<1> HIDE DEF x, y, W, i
<1>8. k <= Smaller(x, y) <=> k <= x /\ k <= y
  BY <1>5 DEF Smaller
<1>9. Cardinality(Whole \ opened) >= k * ncore <=> k <= x
  BY <1>2, <1>6, <1>7
<1>10. k <= ServedWith(remain, ncore, nshare, i) <=>
             /\ Cardinality(Whole \ opened) >= k * ncore
             /\ k <= SumFunction([c \in opened \cup SharedNow(remain) |->
                                     remain[c] \div nshare])
  BY <1>3, <1>4, <1>8, <1>9, Zenon
<1> QED
  BY <1>10 DEF i

\* Whole cores and fragments, on a host that shares some cores: the numbers of
\* cores the code tries are those of the sets that may be opened.
LEMMA FitsMixed ==
  ASSUME remain \in [Cores -> Int], ask.ncore \in Nat \ {0}, ask.nshare \in Nat \ {0},
         MaxShareCore > 0, CountDefined(remain, ask.ncore, ask.nshare), NEW k \in Nat
  PROVE  Fits(k) <=> k <= MaxContainerCount(remain, ask.ncore, ask.nshare)
<1> DEFINE M == MaxContainerCount(remain, ask.ncore, ask.nshare)
           S == SharedNow(remain)
           B == ShareBudget(remain)
           served(i) == ServedWith(remain, ask.ncore, ask.nshare, i)
<1>1. /\ IsFiniteSet(Whole) /\ Cardinality(Whole) \in Nat
      /\ IsFiniteSet(S) /\ Cardinality(S) \in Nat
      /\ Len(FullCores(remain)) = Cardinality(Whole)
      /\ Len(Fragments(remain)) = Cardinality(S) /\ Whole \cap S = {}
  BY HostState
<1>2. MaxShareCore \in Nat /\ MaxShareCore # 0
  BY ShareAssumption
<1>3. B = MaxShareCore - Cardinality(S)
  BY <1>1, <1>2 DEF ShareBudget
<1>4. /\ B \in Nat
      /\ \E i \in 0 .. B : M = served(i)
      /\ \A i \in 0 .. B : served(i) \in Int /\ served(i) <= M
  BY <1>2, MixedCount
<1>5. \A opened \in SUBSET Whole :
        /\ Cardinality(opened) \in Nat
        /\ Cardinality(opened \cup S) = Cardinality(opened) + Cardinality(S)
  <2> SUFFICES ASSUME NEW opened \in SUBSET Whole
               PROVE  /\ Cardinality(opened) \in Nat
                      /\ Cardinality(opened \cup S) = Cardinality(opened) + Cardinality(S)
    OBVIOUS
  <2>1. IsFiniteSet(opened) /\ Cardinality(opened) \in Nat
    BY <1>1, FS_Subset, FS_CardinalityType
  <2>2. opened \cap S = {}
    BY <1>1
  <2> QED
    BY <1>1, <2>1, <2>2, Disjoint
<1>6. M \in Nat
  BY CountAtMost
<1> HIDE DEF M, S, B
<1>7. Fits(k) <=> k = 0 \/ \E opened \in SUBSET Whole :
                              Cardinality(opened) <= B /\ k <= served(Cardinality(opened))
  <2>1. \A opened \in SUBSET Whole :
           Cardinality(opened \cup S) <= MaxShareCore <=> Cardinality(opened) <= B
    BY <1>1, <1>2, <1>3, <1>5
  <2>2. \A opened \in SUBSET Whole :
           k <= served(Cardinality(opened)) <=>
             /\ Cardinality(Whole \ opened) >= k * ask.ncore
             /\ k <= SumFunction([c \in opened \cup S |-> remain[c] \div ask.nshare])
    BY ServedWithIs DEF S
  <2>3. MaxShareCore >= 0 /\ ask.nshare # 0 /\ ask.nshare > 0
    BY <1>2
  <2>4. Fits(k) <=> k = 0 \/ \E opened \in SUBSET Whole :
          /\ Cardinality(Whole \ opened) >= k * ask.ncore
          /\ Cardinality(opened \cup S) <= MaxShareCore
          /\ k <= SumFunction([c \in opened \cup S |-> remain[c] \div ask.nshare])
    BY <2>3 DEF Fits, S
  <2> HIDE DEF served
  <2> QED
    BY <2>1, <2>2, <2>4
<1>8. ASSUME Fits(k) PROVE k <= M
  <2>1. CASE k = 0
    BY <1>6, <2>1
  <2>2. CASE k # 0
    <3>1. PICK opened \in SUBSET Whole :
             Cardinality(opened) <= B /\ k <= served(Cardinality(opened))
      BY <1>7, <1>8, <2>2
    <3>2. Cardinality(opened) \in 0 .. B
      <4>1. Cardinality(opened) \in Nat
        BY <1>5
      <4> QED
        BY <1>4, <3>1, <4>1
    <3> DEFINE v == served(Cardinality(opened))
    <3>3. k <= v /\ v \in Int /\ v <= M
      BY <1>4, <3>1, <3>2
    <3> HIDE DEF v
    <3> QED
      BY <1>6, <3>3
  <2> QED
    BY <2>1, <2>2
<1>9. ASSUME k <= M PROVE Fits(k)
  <2>1. PICK i \in 0 .. B : M = served(i)
    BY <1>4
  <2>2. i <= Cardinality(Whole)
    <3> DEFINE W == Cardinality(Whole)
               x == (W - i) \div ask.ncore
               y == FragmentRoom(remain, ask.nshare) + (CoreShare \div ask.nshare) * i
    <3>1. M = Smaller(x, y)
      BY <1>1, <2>1 DEF ServedWith
    <3>2. W - i \in Int /\ i \in Int
      BY <1>1, <1>4
    <3>3. x \in Int /\ ask.ncore * x <= W - i
      <4> HIDE DEF W
      <4> QED
        BY <3>2, Division
    <3>4. y \in Int
      <4>1. FragmentRoom(remain, ask.nshare) \in Nat
        BY RoomNat
      <4>2. CoreShare \div ask.nshare \in Nat
        BY ShareAssumption, Quotient
      <4>3. (CoreShare \div ask.nshare) * i \in Nat
        BY <1>4, <4>2, Product
      <4> QED
        BY <4>1, <4>3
    <3> HIDE DEF x, y, W
    <3>5. x \in Nat
      BY <1>6, <3>1, <3>3, <3>4 DEF Smaller
    <3>6. ask.ncore * x \in Nat
      BY <3>5, Product
    <3>7. i <= W
      BY <1>1, <3>2, <3>3, <3>6 DEF W
    <3> QED
      BY <3>7 DEF W
  <2>3. i \in 0 .. Cardinality(Whole)
    BY <1>1, <1>4, <2>2
  <2>4. PICK opened \in SUBSET Whole : Cardinality(opened) = i
    BY <1>1, <2>3, SubsetOfSize
  <2>5. Cardinality(opened) <= B /\ k <= served(Cardinality(opened))
    BY <1>4, <1>9, <2>1, <2>4
  <2> QED
    BY <1>7, <2>5
<1> QED
  BY <1>8, <1>9 DEF M

\* Fragments on a host that shares no core: none fit.
LEMMA FitsNone ==
  ASSUME remain \in [Cores -> Int], ask.ncore \in Nat, ask.nshare \in Nat \ {0},
         MaxShareCore = 0, NEW k \in Nat
  PROVE  Fits(k) <=> k <= MaxContainerCount(remain, ask.ncore, ask.nshare)
<1>1. MaxContainerCount(remain, ask.ncore, ask.nshare) = 0
  BY DEF MaxContainerCount
<1>2. ASSUME Fits(k), k # 0 PROVE FALSE
  <2>1. PICK opened \in SUBSET Whole :
          /\ Cardinality(opened \cup SharedNow(remain)) <= 0
          /\ k <= SumFunction([c \in opened \cup SharedNow(remain) |->
                                  remain[c] \div ask.nshare])
    <3>1. ask.nshare > 0 /\ MaxShareCore >= 0
      OBVIOUS
    <3>2. \E opened \in SUBSET Whole :
            /\ Cardinality(opened \cup SharedNow(remain)) <= MaxShareCore
            /\ k <= SumFunction([c \in opened \cup SharedNow(remain) |->
                                    remain[c] \div ask.nshare])
      BY <1>2, <3>1, Zenon DEF Fits
    <3> QED
      BY <3>2, Zenon
  <2> DEFINE U == opened \cup SharedNow(remain)
             g == [c \in U |-> remain[c] \div ask.nshare]
  <2>2. IsFiniteSet(U)
    BY HostState, FS_Subset, FS_Union
  <2>3. U = {}
    <3>1. Cardinality(U) \in Nat /\ Cardinality(U) <= 0
      BY <2>1, <2>2, FS_CardinalityType
    <3>2. Cardinality(U) = 0
      BY <3>1
    <3> QED
      BY <2>2, <3>2, FS_EmptySet
  <2>4. SumFunction(g) = SumOver(g, U)
    BY DEF SumFunction, SumOver
  <2> HIDE DEF U
  <2>5. SumFunction(g) = 0
    BY <2>3, <2>4, SumEmpty
  <2>6. k <= SumFunction(g)
    BY <2>1 DEF U
  <2> QED
    BY <1>2, <2>5, <2>6
<1>3. k = 0 => Fits(k)
  BY DEF Fits
<1> QED
  BY <1>1, <1>2, <1>3

\* The host serves as many containers as fit beside each other, no fewer and
\* no more: the best over the sets of cores that may be opened for sharing,
\* which the code finds by trying their numbers (Host.get_max_container_count).
THEOREM BestServed == Spec => []ServesAsManyAsFit
<1>1. Decided => ServesAsManyAsFit
  <2> SUFFICES ASSUME Decided, plan # NoPlan, OrdinaryAsk
               PROVE  plan.total = Best
    BY DEF ServesAsManyAsFit
  <2> DEFINE M == MaxContainerCount(remain, ask.ncore, ask.nshare)
             t == Smaller(ask.n, M)
             good == {k \in 0 .. ask.n : Fits(k)}
  <2>1. /\ remain \in [Cores -> Int] /\ M \in Int
        /\ CountDefined(remain, ask.ncore, ask.nshare)
        /\ plan.total = t
    BY PlanParts
  <2>2. /\ ask.n \in Nat /\ ask.ncore \in Nat \ {0} /\ ask.nshare \in Nat
    BY AskParts DEF Decided, OrdinaryAsk
  <2>3. M \in Nat
    BY <2>1, <2>2, CountAtMost
  <2>4. \A k \in Nat : Fits(k) <=> k <= M
    <3>1. CASE ask.nshare = 0
      BY <2>1, <2>2, <3>1, FitsWhole
    <3>2. CASE ask.nshare # 0 /\ MaxShareCore = 0
      BY <2>1, <2>2, <3>2, FitsNone
    <3>3. CASE ask.nshare # 0 /\ MaxShareCore # 0
      <4>1. MaxShareCore > 0 /\ ask.nshare \in Nat \ {0}
        BY <2>2, <3>3, ShareAssumption DEF OrdinaryAsk
      <4> QED
        BY <2>1, <2>2, <4>1, FitsMixed
    <3> QED
      BY <3>1, <3>2, <3>3
  <2> HIDE DEF M
  <2>5. t \in good /\ \A k \in good : t >= k
    <3>1. t \in Nat /\ t <= ask.n /\ t <= M
      BY <2>2, <2>3 DEF Smaller
    <3>2. \A k \in 0 .. ask.n : k <= M => k <= t
      BY <2>2, <2>3 DEF Smaller
    <3> HIDE DEF t
    <3> QED
      BY <2>2, <2>4, <3>1, <3>2
  <2> HIDE DEF t
  <2>6. Max(good) \in good /\ \A k \in good : Max(good) >= k
    BY <2>5 DEF Max
  <2>7. good \subseteq Int
    OBVIOUS
  <2> HIDE DEF good
  <2>8. Max(good) = t
    <3>1. Max(good) \in Int /\ t \in Int
      BY <2>5, <2>6, <2>7
    <3>2. Max(good) >= t /\ t >= Max(good)
      BY <2>5, <2>6
    <3> QED
      BY <3>1, <3>2
  <2> QED
    BY <2>1, <2>8 DEF Best, good
<1> QED
  BY <1>1, DecisionKept, PTL

=============================================================================
