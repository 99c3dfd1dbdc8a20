SPECIFICATION Spec
CONSTANTS
    Modes = {"hybrid"}
    Wakes = {"none"}
    SaveFirst = TRUE
    MapPointerOnly = FALSE
    Duration = 1
    Timeout = 1
    Grace = 0
    Edge = 0
    MaxAttempts = 2
CHECK_DEADLOCK FALSE
INVARIANT
    FirstFrameSaved
