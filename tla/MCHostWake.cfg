\* Every promise and every sleep may be over.
SPECIFICATION HostSpec
CONSTANTS
    Promises = {p1, p2, p3}
    Hosts = {h1, h2}
    VM = VM
    MaxSleeps = 2
    PollCap = 2
    PurgeEvery = 2
    MaxTime = 3
    None = None
INVARIANTS
    OneTokenPerSlot
    CompletionAgrees
    SleeperIsToldOfTokens
    NoSleepLost
PROPERTIES
    AwaitedCompletionArrives
    SleepsEndInOrder
CHECK_DEADLOCK FALSE
