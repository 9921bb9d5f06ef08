\* Every call may be answered or displaced.
SPECIFICATION StreamSpec
CONSTANTS
    Reads = {r1, r2}
    Writes = {x1, x2}
    Connect = c
    Cancellable = {c, r1, x1}
    WriteSize = 2
    BufferSize = 2
    u1 = u1
    u2 = u2
    Sent <- TwoUnits
    None = None
INVARIANTS
    EveryWaitHasAnAnswerer
    BytesAreKept
PROPERTIES
    ReadsEnd
CHECK_DEADLOCK FALSE
