SPECIFICATION ExitsSpec
CONSTANTS
    Labels = {"a"}
    Nestings = {"while", "do", "for", "walk", "using", "body", "handler"}
    MaxNest = 3
    MaxChoices = 1
    MaxTurns = 2
    None = None
INVARIANTS
    LoweringKeepsMeaning
CHECK_DEADLOCK FALSE
