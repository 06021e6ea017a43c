---------------------------- MODULE MCLifecycle ----------------------------
(* Values for the constants of Lifecycle: of three containers one is on    *)
(* another host than the other two.                                        *)
EXTENDS Lifecycle, TLC

CONSTANTS c1, c2, c3, w1, w2, h1, h2

Home == [c \in {c1, c2, c3} |-> IF c = c3 THEN h2 ELSE h1]

NeighboursAndWorkers == Permutations(Workers) \cup Permutations({c1, c2})
=============================================================================
