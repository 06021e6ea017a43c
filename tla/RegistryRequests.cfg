SPECIFICATION Spec
CONSTANTS
    full = full
    begin = begin
    other = other
    web = web
    daemon = daemon
    r1 = r1
    r2 = r2
    r3 = r3
    Requests = {r1, r2, r3}
    Shas = {full, begin, other}
    Extends <- Prefixes
    Short <- Shorts
    Entries = {web, daemon}
    Yamls <- Files
    MaxCrashes = 1
    None = None
INVARIANT TypeOK
INVARIANT ConfigsAreWhole
INVARIANT AcknowledgedIsDeployable
INVARIANT DeployedIsWhole
SYMMETRY Alike
