\* Two answers, one collector; unreadable policies, failed writes and a restart.
CONSTANTS
    None = None
    collector = collector
    key = key
    r1 = r1
    r2 = r2
    Requests = {r1, r2}
    Clients = {collector}
    Home <- OneHome
    Bodies <- SomeBodies
    KeyOf <- OneKey
    ReplayLimit = 2
    QueueLimit = 1
    Faults = {"reads", "writes", "crash"}
    MaxVersion = 3
    MaxRestarts = 1
SPECIFICATION Spec
INVARIANTS
    TypeOK
    StreamComplete
    ListingComplete
PROPERTIES
    CaptureFollowsPolicy
    StoredIsKept
    StoredOrReported
\* Nobody has to use the portal.
CHECK_DEADLOCK FALSE
