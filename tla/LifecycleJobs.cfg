SPECIFICATION Spec
CONSTANTS
    c1 = c1
    c2 = c2
    c3 = c3
    w1 = w1
    w2 = w2
    Containers = {c1, c2, c3}
    Workers = {w1, w2}
    h1 = h1
    h2 = h2
    Hosts = {h1, h2}
    HostOf <- Home
    NoHost = NoHost
    Calico = TRUE
    Faults = {"create", "boot", "network", "removal", "launch", "etcd"}
    MaxEvents = 3
    NoContainer = NoContainer
INVARIANT TypeOK
INVARIANT NoOrphan
INVARIANT BackendsAgree
INVARIANT PublishedAgrees
INVARIANT ReplacedOnce
SYMMETRY NeighboursAndWorkers
