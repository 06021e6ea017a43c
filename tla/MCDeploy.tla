------------------------------ MODULE MCDeploy ------------------------------
(* Values for the constants of Deploy.                                     *)
EXTENDS Deploy

CONSTANTS h1, h2, r1, r2

TwoCores == 0 .. 1
OneRequest == {1}
TwoRequests == {1, 2}
ThreeRequests == {1, 2, 3}

Ask(n, ncore, nshare, strategy, on) ==
    [n |-> n, ncore |-> ncore, nshare |-> nshare, strategy |-> strategy, on |-> on]

\* Less than one fragment: the code divides by zero.
TooLittle == Ask(1, 0, 0, "average", AnyHost)

\* Whole cores, over hosts of two cores and of one: both strategies and
\* requests that name their host.
AllCores == [h \in Hosts |-> Cores]
UnequalHosts == [h \in Hosts |-> IF h = h1 THEN Cores ELSE {0}]
WholeCoreAsks ==
    {TooLittle, Ask(3, 1, 0, "average", AnyHost), Ask(3, 1, 0, "centralized", AnyHost),
     Ask(4, 1, 0, "average", AnyHost), Ask(2, 1, 0, "average", h2)}

\* Fragments, alone and with a whole core.
SharingAsks ==
    {Ask(n, 0, 1, "centralized", AnyHost) : n \in {1, 3}}
        \cup {Ask(1, 1, 1, "centralized", AnyHost), Ask(2, 1, 0, "centralized", AnyHost)}

\* One request for whole cores, one for a fragment.
FewAsks == {Ask(2, 1, 0, "average", AnyHost), Ask(1, 0, 1, "centralized", AnyHost)}

\* Fragments by both strategies: a removal can make a core count as shared.
SpinAsks == {Ask(3, 0, 1, "centralized", AnyHost), Ask(2, 0, 1, "average", AnyHost)}

AllFaults == FaultKinds
\* All but a Docker daemon that refuses to remove a container being cleaned up.
CleanableFaults == FaultKinds \ {"cleaning"}
AllTasks == TaskIds
=============================================================================
