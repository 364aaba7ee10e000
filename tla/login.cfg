\* Two requests under way, from one address, over three steps of the clock.
CONSTANTS
    None = None
    r1 = r1
    r2 = r2
    a = a
    s1 = s1
    s2 = s2
    Requests = {r1, r2}
    Addresses = {a}
    Sessions = {s1}
    Limit = 2
    Window = 2
    TTL = 1
    MaxClock = 3
    MaxSecrets = 2
SPECIFICATION Spec
SYMMETRY Symmetry
INVARIANTS
    CodeOnce
    GuessesBounded
PROPERTIES
    LoginProven
\* The clock stops at its bound.
CHECK_DEADLOCK FALSE
