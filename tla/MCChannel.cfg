\* Every call may have been made and every handle settled.
SPECIFICATION CSpec
CONSTANTS
    Sends = {s1, s2, s3, s4}
    Receives = {r1, r2, r3}
    Isolates = {i1, i2}
    Capacity = 2
    None = None
SYMMETRY Symmetry
INVARIANTS
    NobodyWaitsInVain
    MessagesAreKept
PROPERTIES
    KeepsMessagesInLine
CHECK_DEADLOCK FALSE
