SPECIFICATION ShutdownSpec
CONSTANTS
    Callers = {c1, c2}
    Workers = {w1, w2}
    JobQueueCapacity = 1
    NoJob = NoJob
    Closers = {run, test}
INVARIANTS
    JobsAccounted
    GracefulForClients
    QuietAfterClose
PROPERTIES
    ShutdownEnds
CHECK_DEADLOCK FALSE
