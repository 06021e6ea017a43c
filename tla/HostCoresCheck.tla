--------------------------- MODULE HostCoresCheck ---------------------------
(***************************************************************************)
(* One scheduling decision on one host, over every state of the host's     *)
(* cores and every request: Schedule is Host.get_container_cores followed  *)
(* by the worker's _iter_cores, with nobody else touching the cores.  The  *)
(* properties compare the result with what the request means.              *)
(***************************************************************************)
EXTENDS HostCores

CONSTANTS MaxContainers   \* the most containers one request asks for

ASSUME MaxContainersAssumption == MaxContainers \in Nat \ {0}

VARIABLES remain,   \* free fragments of each core before the decision
          ask,      \* the request: n containers, each ncore cores and nshare fragments
          plan      \* what get_container_cores returned, or NoPlan
vars == <<remain, ask, plan>>

NoPlan == [total |-> 0, cores |-> NoCores]

\* Pod.get_core_allocation yields a whole part and a remainder; a request for
\* neither is left out (the code divides by zero, see CountDefined).
Asks == {a \in [n : 1 .. MaxContainers, ncore : 0 .. 2, nshare : 0 .. CoreShare - 1] :
            a.ncore > 0 \/ a.nshare > 0}

\* Cores shared at this moment, which may be more than MaxShareCore: fragments
\* that come back to a core used up share it again (README, section 5).
SharedNow(r) == {c \in Cores : 0 < r[c] /\ r[c] < CoreShare}

TypeOK ==
    /\ remain \in [Cores -> 0 .. CoreShare]
    /\ ask \in Asks
    /\ plan \in [total : Int, cores : AllocationType]
    /\ plan.total <= ask.n

Init ==
    /\ remain \in [Cores -> 0 .. CoreShare]
    /\ ask \in Asks
    /\ plan = NoPlan

PlanFor(r, a) ==
    LET total == Smaller(a.n, MaxContainerCount(r, a.ncore, a.nshare))
    IN  [total |-> total, cores |-> ContainerCores(r, total, a.ncore, a.nshare)]

PlanDefined(r, a) ==
    /\ CountDefined(r, a.ncore, a.nshare)
    /\ CoresDefined(r, Smaller(a.n, MaxContainerCount(r, a.ncore, a.nshare)),
                    a.ncore, a.nshare)

Schedule ==
    /\ plan = NoPlan
    /\ PlanDefined(remain, ask)
    /\ plan' = PlanFor(remain, ask)
    /\ UNCHANGED <<remain, ask>>

Next == Schedule
Spec == Init /\ [][Next]_vars

-----------------------------------------------------------------------------
(* What the request means, said without the code's arithmetic.             *)

Whole == {c \in Cores : remain[c] = CoreShare}

\* k containers fit if some free cores can be opened for sharing so that the
\* others make up the whole cores and the shared ones have k places; none
\* always fit.
Fits(k) ==
    k = 0 \/ \E opened \in SUBSET Whole :
        /\ Cardinality(Whole \ opened) >= k * ask.ncore
        /\ ask.nshare = 0 => opened = {}
        /\ ask.nshare > 0 =>
              /\ MaxShareCore >= 0 =>
                    Cardinality(opened \cup SharedNow(remain)) <= MaxShareCore
              /\ k <= SumFunction([c \in opened \cup SharedNow(remain) |->
                                      remain[c] \div ask.nshare])

Best == Max({k \in 0 .. ask.n : Fits(k)})

Chunks == IterCores(plan.cores, plan.total)
Planned == plan.total > 0

\* A limit that is used: with -1, and for requests of fragments only, the
\* count the code computes is not the best one (README, "Known disagreements").
OrdinaryAsk == ask.ncore > 0 /\ (ask.nshare > 0 => MaxShareCore >= 0)

\* The host serves as many containers as fit, neither fewer (cores stay
\* idle) nor more (cores are promised twice): get_max_container_count.
ServesAsManyAsFit == plan # NoPlan /\ OrdinaryAsk => plan.total = Best

\* Nothing is taken that is not free, and a core is never both given whole to
\* one container and shared by another: get_container_cores, whose slots come
\* from two lists by two offsets.
PlanFitsCores ==
    plan # NoPlan => \A c \in Cores : Draw(plan.cores, ask.nshare, c) <= remain[c]

\* Whatever the API occupies for a task the worker hands to a container, so
\* that it is given back when the container goes: cutting the lists into
\* chunks loses nothing (_iter_cores divides two lists of different lengths).
ChunksLoseNothing ==
    Planned => \A c \in Cores :
        SumFunction([i \in DOMAIN Chunks |-> Draw(Chunks[i], ask.nshare, c)])
            = Draw(plan.cores, ask.nshare, c)

\* Each of the planned containers gets its whole cores and a shared core.
EveryContainerIsServed ==
    Planned =>
        /\ Len(Chunks) >= plan.total
        /\ \A i \in 1 .. plan.total :
              /\ Len(Chunks[i].full) = ask.ncore
              /\ ask.nshare > 0 => Chunks[i].part # <<>>

=============================================================================
