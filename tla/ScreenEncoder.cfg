\* Two blocks of two samples: slow fades up to a drift of 2 before the refresh
\* of a two-frames-per-second corpus comes round.
SPECIFICATION EncoderSpec
CONSTANTS
    Rows = 1
    Cols = 2
    FpsValues = {2}
    Strategies = {"Naive", "RotatingRefresh", "Warmup", "HoldExpanded", "Recovery"}
    Frames = 5
    HoldFrames = 1
    RecoverySeconds = 1
    RecoveryFrames = 1
    ScenePercent = 60
    Sample = {s1, s2}
    MaxLuma = 2
CHECK_DEADLOCK FALSE
INVARIANTS
    DriftBound
