\* Tokens, rows and tunnel under every interleaving and failure.
CONSTANTS
    None = None
    Sites = {a, b}
    Tokens = {t1, t2, t3}
    Keys = {k1, k2}
    IPs <- TwoIPs
    Models = {}
    Addresses = {}
    ConfirmReqs = {c1}
    RevokeReqs = {r1}
    Habits = {}
    Faults = {"wg", "crash", "restart"}
    MaxDeps = 0
    MaxBlocks = 2
SPECIFICATION Spec
SYMMETRY Symmetry
INVARIANTS
    AddressesExclusive
    CutPeerStaysOff
PROPERTIES
    OneShotToken
\* Nobody has to use the portal, and the supply of tokens is bounded.
CHECK_DEADLOCK FALSE
