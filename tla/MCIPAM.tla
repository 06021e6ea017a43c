------------------------------- MODULE MCIPAM -------------------------------
(* Values for the constants of IPAM: two networks, the first with two       *)
(* addresses, the second with one.                                          *)
EXTENDS IPAM, TLC

CONSTANTS n1, n2, a1, a2, b1, c1, c2, w1, w2, p1

TwoNetworks == (a1 :> n1) @@ (a2 :> n1) @@ (b1 :> n2)
Symmetric ==
    Permutations(Workers) \cup Permutations(Containers) \cup Permutations({a1, a2})
=============================================================================
