\* One install after the other; wg commands may fail.
CONSTANTS
    None = None
    Sites = {a, b}
    Tokens = {t1, t2, t3}
    Keys = {k1, k2, k3}
    IPs <- TwoIPs
    Models = {m}
    Addresses = {}
    ConfirmReqs = {c1}
    RevokeReqs = {r1}
    Habits = {"serial", "freshKeys", "noReissue"}
    Faults = {"wg", "restart"}
    MaxDeps = 3
    MaxBlocks = 2
SPECIFICATION Spec
SYMMETRY Symmetry
INVARIANTS
    NoDuplicateDeployment
    NoForeignDeployment
    NoForeignPeer
\* Nobody has to use the portal, and the supply of tokens is bounded.
CHECK_DEADLOCK FALSE
