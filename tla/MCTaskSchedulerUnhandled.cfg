\* The program may end, or await a handle that nobody settles.
SPECIFICATION Spec
CONSTANTS
    Cells = {c1, c2, c3}
    None = None
    Generations = 8
    SweepFloor = 1
    MaxParallel = 2
    Kinds = {"task"}
    Entry = "test"
SYMMETRY Symmetry
INVARIANTS
    UnobservedRejectionFails
CHECK_DEADLOCK FALSE
