SPECIFICATION Spec
CONSTANTS
    h1 = h1
    h2 = h2
    c1 = c1
    c2 = c2
    c3 = c3
    e1 = e1
    e2 = e2
    g1 = g1
    g2 = g2
    w1 = w1
    w2 = w2
    w3 = w3
    Hosts = {h1, h2}
    Containers = {c1, c2, c3}
    Eips = {e1, e2}
    Gates = {g1, g2}
    Workers = {w1, w2, w3}
    HostOf <- Placed
    OnHostNet = {c2}
    NewEip = e2
    Failing = {"bind"}
    Overlapping = FALSE
    Starved = {c1}
    None = None
INVARIANT TypeOK
INVARIANT EipsConserved
INVARIANT OneOwner
INVARIANT MarksAgree
INVARIANT GatesConserved
CONSTRAINT Apart
SYMMETRY WorkersAlike
