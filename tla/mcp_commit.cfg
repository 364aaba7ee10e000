\* Two requests, two servers whose tools may collide.
CONSTANTS
    Requests = {r1, r2}
    Names <- TwoServers
    Groups <- TwoGroups
    Asked <- JobsOnTwo
    Tools = {t1, t2}
    Builtins = {}
    MayOffer <- Claims
    Hub = Hub
    None = None
    Missing = Missing
    Garbage = Garbage
    Faults = {"hub", "restart", "slow", "upstream"}
    search = search
    reader = reader
    home = home
    family = family
    t1 = t1
    t2 = t2
SPECIFICATION Spec
INVARIANTS AttestedIsServed
PROPERTIES AtomicCommit OkMeansServed
\* Every request is sent once; then only faults remain.
CHECK_DEADLOCK FALSE
