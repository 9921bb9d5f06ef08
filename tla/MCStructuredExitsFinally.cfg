SPECIFICATION ExitsSpec
CONSTANTS
    Labels = {"a"}
    Nestings = {"while", "for", "walk", "using", "body", "handler", "finally"}
    MaxNest = 3
    MaxChoices = 1
    MaxTurns = 2
    None = None
INVARIANTS
    FinallyAlwaysRuns
CHECK_DEADLOCK FALSE
