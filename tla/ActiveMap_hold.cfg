\* A two by three grid: corners, edges and blocks that are not neighbours.
SPECIFICATION Spec
CONSTANTS
    Rows = 2
    Cols = 3
    FpsValues = {2}
    Strategies = {"HoldExpanded"}
    Frames = 5
    HoldFrames = 2
    RecoverySeconds = 1
    RecoveryFrames = 1
    ScenePercent = 60
CHECK_DEADLOCK FALSE
INVARIANT
    HoldIsRecency
PROPERTY
    WindowSpec
