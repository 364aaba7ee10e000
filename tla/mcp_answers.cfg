\* Two requests for one server; no deadline passes early.
CONSTANTS
    Requests = {r1, r2}
    Names <- OneServer
    Groups <- OneGroup
    Asked <- JobsOnOne
    Tools = {t1}
    Builtins = {}
    MayOffer <- UpOrDown
    Hub = Hub
    None = None
    Missing = Missing
    Garbage = Garbage
    Faults = {"restart", "disk", "edit", "upstream", "crash"}
    search = search
    reader = reader
    home = home
    family = family
    t1 = t1
    t2 = t2
SPECIFICATION Spec
INVARIANTS TypeOK
PROPERTIES EveryRequestAnswered
\* Every request is sent once; then only faults remain.
CHECK_DEADLOCK FALSE
