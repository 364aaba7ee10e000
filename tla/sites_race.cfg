\* Two requests on one site, interleaved at every call.
SPECIFICATION Spec
CONSTANTS
    k1 = k1
    k2 = k2
    e1 = e1
    r1 = r1
    r2 = r2
    a = a
    b = b
    m = m
    n = n
    u = u
    v = v
    home = home
    family = family
    None = None
    Sites = {a}
    DirectSites = {}
    Names = {m, n}
    Upstreams = {u, v}
    Groups = {home, family}
    Keys = {}
    Entries = {}
    Requests = {r1, r2}
    Asked <- RaceJobs
    Habits = {}
    Faults = {"refused", "lists"}
    First <- OnePortal
    FirstId = 3
    LastId = 4
INVARIANTS
    PromisesKept
SYMMETRY RequestSymmetry
CHECK_DEADLOCK FALSE
