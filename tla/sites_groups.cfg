\* Groups over sites, keys and MCP entries, one request at a time.  Two keys,
\* so that a rename can fail after it has moved one.
SPECIFICATION Spec
CONSTANTS
    k1 = k1
    k2 = k2
    e1 = e1
    r1 = r1
    r2 = r2
    a = a
    b = b
    m = m
    n = n
    u = u
    v = v
    home = home
    family = family
    None = None
    Sites = {a, b}
    DirectSites = {b}
    Names = {m}
    Upstreams = {u}
    Groups = {home, family}
    Keys = {k1, k2}
    Entries = {e1}
    Requests = {r1}
    Asked <- AllGroups
    Habits = {"serial"}
    Faults = {"refused", "lost", "onboardd", "mcp"}
    First <- TestPortals
    FirstId = 3
    LastId = 4
INVARIANTS
    TypeOK
    RenameWidensNothing
PROPERTIES
    RenameKeepsReach
    DeleteStrandsNobody
SYMMETRY KeySymmetry
CHECK_DEADLOCK FALSE
