----------------------------- MODULE MCHostNet -----------------------------
(* Values for the constants of HostNet: two hosts, two containers on the      *)
(* first and one, on the network of its host, on the second.                *)
EXTENDS HostNet, TLC

CONSTANTS h1, h2, c1, c2, c3, e1, e2, g1, g2, w1, w2, w3

Placed == (c1 :> h1) @@ (c2 :> h2) @@ (c3 :> h1)

\* No step reads both the gateways and the elastic IPs: each are explored while
\* the others rest, two requests at a time for these, three for those.
Requested == {w \in Workers : ~At(w, "idle")}
ForGateways == {w \in Workers : job[w].pc \in GatePlaces}
EipsRest == ForGateways = Requested /\ wiped = {} /\ pool = Eips \ {NewEip}
            /\ (\A h \in Hosts : eips[h] = {}) /\ (\A c \in Containers : state[c] = "alive")
GatewaysRest == ForGateways = {} /\ gates = Gates /\ Cardinality(Requested) <= 2
Apart == EipsRest \/ GatewaysRest

WorkersAlike == Permutations(Workers)
=============================================================================
