\* The program may end, or await a handle that nobody settles.
SPECIFICATION Spec
CONSTANTS
    Cells = {c1, c2, c3}
    None = None
    Generations = 11
    SweepFloor = 1
    MaxParallel = 2
    Kinds = {"task", "settled", "host", "gather"}
    Entry = "test"
SYMMETRY Symmetry
INVARIANTS
    OneHome
    ParkedIsWatched
    SlabAccounting
    GatherExact
    HostTokenDue
    SleepsOnlyWhenIdle
PROPERTIES
    OutcomeIsFinal
    ImplementsTaskHandles
CHECK_DEADLOCK FALSE
