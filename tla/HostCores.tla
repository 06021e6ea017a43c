----------------------------- MODULE HostCores -----------------------------
(***************************************************************************)
(* How eru divides the cores of one host among containers: the arithmetic  *)
(* of eru/models/host.py (get_free_cores, get_max_container_count,         *)
(* get_container_cores) and of the worker that hands the chosen cores to   *)
(* containers (_iter_cores in eru/async/task.py).                          *)
(*                                                                         *)
(* A host's cores are a Redis sorted set: the member is the core's label,  *)
(* the score is how many of its CoreShare fragments are free.  Here that   *)
(* is a function  remain \in [Cores -> Int].  The label order of the       *)
(* sorted set is the order of the integers in Cores (at most ten cores,    *)
(* for which "0".."9" sort the same way as text).                          *)
(*                                                                         *)
(* A request asks for ncore whole cores and nshare fragments of one more   *)
(* core, for each container.  Python exceptions are not values: each       *)
(* operator that the code can leave by raising has a ...Defined companion. *)
(***************************************************************************)
EXTENDS Integers, Sequences, FiniteSetsExt, SequencesExt

CONSTANTS Cores,         \* labels of the cores of a host
          CoreShare,     \* Pod.core_share: fragments per core
          MaxShareCore   \* Pod.max_share_core: cores that may be shared, -1: any

ASSUME CoresAssumption == Cores \subseteq Nat /\ IsFiniteSet(Cores)
ASSUME ShareAssumption == CoreShare \in Nat \ {0} /\ MaxShareCore \in Nat \cup {-1}

AllocationType == [full : Seq(Cores), part : Seq(Cores)]
NoCores == [full |-> <<>>, part |-> <<>>]

-----------------------------------------------------------------------------
(* Reading the sorted set.                                                 *)

Smaller(a, b) == IF a < b THEN a ELSE b

\* The members of S in an order, given as the pairs of which the first is before.
InOrder(S, order) ==
    [i \in 1 .. Cardinality(S) |->
        CHOOSE c \in S : Cardinality({d \in S : <<d, c>> \in order}) = i - 1]

ByLabel == {p \in Cores \X Cores : p[1] < p[2]}

\* zrangebyscore returns by score, then by label.
ByScore(remain) ==
    {p \in Cores \X Cores : \/ remain[p[1]] < remain[p[2]]
                            \/ remain[p[1]] = remain[p[2]] /\ p[1] < p[2]}

FullCores(remain) == InOrder({c \in Cores : remain[c] = CoreShare}, ByLabel)

Fragments(remain) ==
    InOrder({c \in Cores : 0 < remain[c] /\ remain[c] < CoreShare}, ByScore(remain))

\* How many containers the fragments of the already shared cores can serve.
FragmentRoom(remain, nshare) ==
    SumFunction([c \in ToSet(Fragments(remain)) |-> remain[c] \div nshare])

\* How many more cores the host may start to share.
ShareBudget(remain) ==
    (IF MaxShareCore = -1 THEN Len(FullCores(remain)) ELSE MaxShareCore)
        - Len(Fragments(remain))

-----------------------------------------------------------------------------
(* Host.get_max_container_count.                                           *)

\* The code divides by ncore when nothing else is asked for, and takes the
\* max of an empty generator when more cores are shared than may be.
CountDefined(remain, ncore, nshare) ==
    IF nshare = 0 THEN ncore > 0
    ELSE MaxShareCore = 0 \/ ncore = 0 \/ ShareBudget(remain) >= 0

\* Mutant: for whole cores with fragments, the free fragments are not counted.
MutantMaxContainerCount(remain, ncore, nshare) ==
    IF nshare = 0 THEN Len(FullCores(remain)) \div ncore
    ELSE IF ncore = 0 THEN FragmentRoom(remain, nshare)
                           + (ShareBudget(remain) * CoreShare) \div nshare
    ELSE Max({Smaller((Len(FullCores(remain)) - i) \div ncore, (CoreShare \div nshare) * i) :
                 i \in 0 .. ShareBudget(remain)})

MaxContainerCount(remain, ncore, nshare) ==
    LET whole  == Len(FullCores(remain))
        budget == ShareBudget(remain)
        room   == FragmentRoom(remain, nshare)
    IN  CASE nshare = 0 -> whole \div ncore
          [] nshare > 0 /\ MaxShareCore = 0 -> 0
          [] nshare > 0 /\ MaxShareCore # 0 /\ ncore = 0 ->
                room + (budget * CoreShare) \div nshare
          [] OTHER ->
                Max({Smaller((whole - i) \div ncore,
                             room + (CoreShare \div nshare) * i) : i \in 0 .. budget})

-----------------------------------------------------------------------------
(* Host.get_container_cores.  The count and the cores are two reads of the *)
(* sorted set, so the count is a parameter here.                           *)

\* s[:k] of Python: a negative k counts from the end.
Prefix(s, k) ==
    SubSeq(s, 1, IF k >= 0 THEN Smaller(k, Len(s)) ELSE Len(s) + k)

\* Mutant: one place too many in each shared core.
MutantSharedSlots(remain, nshare) ==
    FlattenSeq([i \in DOMAIN Fragments(remain) |->
        LET c == Fragments(remain)[i] IN [k \in 1 .. remain[c] \div nshare + 1 |-> c]])

\* Every shared core, once for each container its free fragments can serve.
SharedSlots(remain, nshare) ==
    FlattenSeq([i \in DOMAIN Fragments(remain) |->
        LET c == Fragments(remain)[i] IN [k \in 1 .. remain[c] \div nshare |-> c]])

StillNeeded(remain, total, nshare) == total - Len(SharedSlots(remain, nshare))

\* Mutant: cores are opened from the start of the list, not past the whole ones.
MutantOpenedCore(total, ncore, nshare, j) == 1 + (j - 1) \div (CoreShare \div nshare)

\* Index in FullCores of the whole core that becomes shared for the j-th
\* container the fragments could not serve.
OpenedCore(total, ncore, nshare, j) ==
    total * ncore + 1 + (j - 1) \div (CoreShare \div nshare)

\* exclusive_cores[offset] raises IndexError past the end of the list.
CoresDefined(remain, total, ncore, nshare) ==
    nshare > 0 =>
        LET missing == StillNeeded(remain, total, nshare)
        IN  missing > 0 => OpenedCore(total, ncore, nshare, missing)
                               <= Len(FullCores(remain))

ContainerCores(remain, total, ncore, nshare) ==
    [full |-> IF ncore = 0 THEN <<>> ELSE Prefix(FullCores(remain), total * ncore),
     part |-> IF nshare = 0 THEN <<>>
              ELSE SharedSlots(remain, nshare) \o
                   [j \in 1 .. StillNeeded(remain, total, nshare) |->
                       FullCores(remain)[OpenedCore(total, ncore, nshare, j)]]]

-----------------------------------------------------------------------------
(* Host.occupy_cores and Host.release_cores.                               *)

Times(s, c) == Cardinality({i \in DOMAIN s : s[i] = c})

\* Fragments of core c that an allocation takes.
Draw(cores, nshare, c) == CoreShare * Times(cores.full, c) + nshare * Times(cores.part, c)

Occupied(remain, cores, nshare) == [c \in Cores |-> remain[c] - Draw(cores, nshare, c)]
Released(remain, cores, nshare) == [c \in Cores |-> remain[c] + Draw(cores, nshare, c)]

-----------------------------------------------------------------------------
(* _iter_cores: the allocation of a task cut into one chunk per container. *)

\* Mutant: the incomplete chunk at the end of a list is dropped.
MutantChunkCount(s, size) == IF size = 0 THEN 0 ELSE Len(s) \div size

\* chunked(s, 0) yields nothing; chunked with a negative size raises.
ChunkCount(s, size) == IF size = 0 THEN 0 ELSE (Len(s) + size - 1) \div size
Chunk(s, size, i) == SubSeq(s, (i - 1) * size + 1, Smaller(i * size, Len(s)))

IterDefined(cores, ncontainer) ==
    cores = NoCores \/ ncontainer > 0

\* Mutant: the size of a chunk is rounded up.
MutantIterCores(cores, ncontainer) ==
    LET f == (Len(cores.full) + ncontainer - 1) \div ncontainer
        p == (Len(cores.part) + ncontainer - 1) \div ncontainer
    IN  IF cores = NoCores THEN [i \in 1 .. ncontainer |-> NoCores]
        ELSE [i \in 1 .. Max({ChunkCount(cores.full, f), ChunkCount(cores.part, p)}) |->
                [full |-> Chunk(cores.full, f, i), part |-> Chunk(cores.part, p, i)]]

IterCores(cores, ncontainer) ==
    LET f == Len(cores.full) \div ncontainer
        p == Len(cores.part) \div ncontainer
    IN  IF cores = NoCores THEN [i \in 1 .. ncontainer |-> NoCores]
        ELSE [i \in 1 .. Max({ChunkCount(cores.full, f), ChunkCount(cores.part, p)}) |->
                [full |-> Chunk(cores.full, f, i), part |-> Chunk(cores.part, p, i)]]

\* How often core c is in list s beyond its first k places.
Beyond(s, k, c) == Cardinality({i \in DOMAIN s : i > k /\ s[i] = c})

\* What an allocation cut for n containers still holds after k of them.
LeftOver(A, n, k, nshare, c) ==
    CoreShare * Beyond(A.full, k * (Len(A.full) \div n), c)
        + nshare * Beyond(A.part, k * (Len(A.part) \div n), c)

=============================================================================
