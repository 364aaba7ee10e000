\* Every edit of sites and groups, one request at a time.  No keys here:
\* what they are bound to disturbs no deployment.
SPECIFICATION Spec
CONSTANTS
    k1 = k1
    k2 = k2
    e1 = e1
    r1 = r1
    r2 = r2
    a = a
    b = b
    m = m
    n = n
    u = u
    v = v
    home = home
    family = family
    None = None
    Sites = {a, b}
    DirectSites = {b}
    Names = {m, n}
    Upstreams = {u, v}
    Groups = {home, family}
    Keys = {}
    Entries = {}
    Requests = {r1}
    Asked <- SerialJobs
    Habits = {"serial"}
    Faults = {"refused", "lost", "noId", "onboardd"}
    First <- TestPortals
    FirstId = 3
    LastId = 4
PROPERTIES
    OkKeepsAgreement
    DirectTakesBack
CHECK_DEADLOCK FALSE
