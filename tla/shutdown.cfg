\* One request, two workers, one connection, a hanging call.
SPECIFICATION AppFairSpec
CONSTANTS
    h1 = h1
    h2 = h2
    c1 = c1
    c2 = c2
    Main = Main
    Handler = {h1}
    Cron = {c1, c2}
    Recovering = {h1}
    Writer <- MCWriter
    MaxConns = 1
    WorkerEvents = 2
    BufferSize = 2
    BatchSize = 2
    MaxEvents = 7
INVARIANTS AppTypeOK Accounted GaugeTracks NothingLeft WorkersSilentAfterClose NoQueryAfterPool
PROPERTIES BatchesEnd ShutdownEnds
CHECK_DEADLOCK FALSE
