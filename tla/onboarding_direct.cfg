\* Direct and WireGuard sites, one request at a time, LiteLLM refuses.
CONSTANTS
    None = None
    Sites = {a, b}
    Tokens = {t1, t2}
    Keys = {k1, k2}
    IPs <- TwoIPs
    Models = {m}
    Addresses = {h}
    ConfirmReqs = {c1}
    RevokeReqs = {r1}
    Habits = {"serial"}
    Faults = {"litellm"}
    MaxDeps = 1
    MaxBlocks = 2
SPECIFICATION Spec
SYMMETRY Symmetry
INVARIANTS
    TypeOK
    OneOwnerPerAddress
    ActiveSiteIsRouted
PROPERTIES
    DirectLeavesNoRoutes
    RevokedMeansGone
\* Nobody has to use the portal, and the supply of tokens is bounded.
CHECK_DEADLOCK FALSE
