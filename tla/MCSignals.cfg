SPECIFICATION SSpec
CONSTANTS
    s1 = s1
    s2 = s2
    c1 = c1
    c2 = c2
    e1 = e1
    e2 = e2
    None = None
    Signals = {s1, s2}
    Computeds = {c1, c2}
    Effects = {e1, e2}
    Schedules <- SomeSchedules
    Programs <- Sound
    MaxRounds = 4
    MaxCalls = 6
INVARIANTS
    EffectsAreCurrent
    ReadsAreFresh
    LinksAgree
PROPERTIES
    RunsOnlyForChange
CHECK_DEADLOCK FALSE
