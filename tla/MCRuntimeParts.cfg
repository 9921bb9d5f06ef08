\* Every job, call and task may be over.
SPECIFICATION PartsSpec
CONSTANTS
    Jobs = {j1, j2, j3, j4}
    Submitters = {h1, h2, h3}
    Workers = {a1, a2, a3}
    MaxWorkers = 3
    Tasks = {t1, t2, t3, t4}
    Permits <- SomePermits
    Waiters = {w1, w2, w3}
    Deltas <- SomeDeltas
    MaxChanges = 6
    MaxCalls = 4
    MaxDepth = 2
    MaxWork = 4
    None = None
INVARIANTS
    CountersAgree
    NoJobStranded
    PermitsAreConserved
    NobodyLeftBehind
    OneFrame
    CloseRunsFinally
PROPERTIES
    QueuedJobStarts
    WaitersAreServed
    NullMarksTheEndIfUncut
    CallsAreAnswered
CHECK_DEADLOCK FALSE
