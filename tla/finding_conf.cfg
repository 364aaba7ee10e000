\* Peers survive in wg0.conf.
CONSTANTS
    None = None
    Sites = {a, b}
    Tokens = {t1, t2}
    Keys = {k1, k2}
    IPs <- TwoIPs
    Models = {}
    Addresses = {}
    ConfirmReqs = {c1}
    RevokeReqs = {r1}
    Habits = {"serial", "freshKeys"}
    Faults = {}
    MaxDeps = 2
    MaxBlocks = 2
SPECIFICATION Spec
INVARIANT PeersArePersisted
CHECK_DEADLOCK FALSE
