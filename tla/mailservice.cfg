\* Two clients, two requests at once, timeouts of 10 s and 15 s in ticks of 5 s.
SPECIFICATION Spec
CONSTANTS
    w1 = w1
    w2 = w2
    r1 = r1
    r2 = r2
    Worker = {w1, w2}
    Row = {r1, r2}
    Undeliverable = {}
    Malformed = {r2}
    MaxCopies = 1
    Job = {1, 2}
    ClientTimeout = 2
    ShutdownTimeout = 3
    Nobody = Nobody
INVARIANTS TypeOK StopCutsNobodyOff
PROPERTIES KeepsCallContract CallsEnd ServiceStops
