SPECIFICATION FlowSpec
CONSTANTS
    Labels = {"a"}
    Nestings = {"after", "if", "while", "switch"}
    MaxNest = 2
    None = None
INVARIANTS
    NoWayPastReturn
CHECK_DEADLOCK FALSE
