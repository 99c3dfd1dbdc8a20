\* A strip of three blocks at 1, 3 and 6 frames per second, over two recovery
\* periods: a scene burst of three frames and a periodic one of two every
\* twelve meet in every order.
SPECIFICATION Spec
CONSTANTS
    Rows = 1
    Cols = 3
    FpsValues = {1, 3, 6}
    Strategies = {"Naive", "RotatingRefresh", "Warmup", "HoldExpanded", "Recovery"}
    Frames = 27
    HoldFrames = 2
    RecoverySeconds = 2
    RecoveryFrames = 2
    ScenePercent = 60
CHECK_DEADLOCK FALSE
INVARIANTS
    TypeOK
    ChangedIsActive
    BoundedNeglect
    FullWhenDue
    BurstEnds
