\* The last log line of app.Run.
SPECIFICATION AppSpec
CONSTANTS
    h1 = h1
    h2 = h2
    c1 = c1
    c2 = c2
    Main = Main
    Handler = {}
    Cron = {c1}
    Recovering = {}
    Writer <- MCWriter
    MaxConns = 1
    WorkerEvents = 0
    BufferSize = 2
    BatchSize = 2
    MaxEvents = 9
INVARIANT NeverPanics
CHECK_DEADLOCK FALSE
