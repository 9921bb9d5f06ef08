SPECIFICATION FlowSpec
CONSTANTS
    Labels = {"a"}
    Nestings = {"before", "after", "if", "while", "do", "for", "switch", "body", "handler", "finally", "scope"}
    MaxNest = 3
    None = None
INVARIANTS
    EveryPathReturns
    FieldsAreAssigned
    LocalsAreAssigned
CHECK_DEADLOCK FALSE
