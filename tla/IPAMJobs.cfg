SPECIFICATION ProviderSpec
CONSTANTS
    n1 = n1
    n2 = n2
    a1 = a1
    a2 = a2
    b1 = b1
    c1 = c1
    c2 = c2
    w1 = w1
    w2 = w2
    Providers = {"macvlan", "calico"}
    Networks = {n1, n2}
    Addresses = {a1, a2, b1}
    Containers = {c1, c2}
    Workers = {w1, w2}
    NetworkOf <- TwoNetworks
    MaxTries = 2
    PartialAgent = FALSE
    Names = {p1}
    p1 = p1
    NoName = NoName
    NoNetwork = NoNetwork
    NoAddress = NoAddress
    NoContainer = NoContainer
    Nobody = Nobody
    NoRow = NoRow
    Unassigned = Unassigned
INVARIANT TypeOK
INVARIANT AddressesConserved
INVARIANT NothingLeaked
INVARIANT NoAddressTwice
INVARIANT EndpointsHeld
INVARIANT HeldForSomebody
INVARIANT NamedIsWhole
PROPERTY KeepsTheBook
SYMMETRY Symmetric
