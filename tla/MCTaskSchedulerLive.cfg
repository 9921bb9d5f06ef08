\* The program may end, or await a handle that nobody settles.
SPECIFICATION FairSpec
CONSTANTS
    Cells = {c1, c2, c3}
    None = None
    Generations = 1
    SweepFloor = 1
    MaxParallel = 2
    Kinds = {"task", "host"}
    Entry = "module"
PROPERTIES
    RunnableRuns
    HostOutcomeArrives
CHECK_DEADLOCK FALSE
