\* Three attempts, each call of Windows and each event free to fail, a kill
\* anywhere, in every mode and with every kind of wake.
SPECIFICATION Spec
CONSTANTS
    Modes = {"dxgi", "hybrid", "list"}
    Wakes = {"none", "cursor", "window"}
    SaveFirst = TRUE
    MapPointerOnly = FALSE
    Duration = 2
    Timeout = 1
    Grace = 1
    Edge = 2
    MaxAttempts = 3
CHECK_DEADLOCK FALSE
INVARIANTS
    TypeOK
    ReleaseOrder
    NothingKept
    SummaryAddsUp
    SavedIsFirst
    CursorPutBack
