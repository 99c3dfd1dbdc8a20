\* Two recordings to one path whose files are equally long, and a replay; the
\* clock cannot reach MaxTime before both have ended.
SPECIFICATION FairSpec
CONSTANTS
    Shapes <- LargeOrSmall
    MaxGen = 2
    IdleTimeout = 2
    Poll = 1
    Grace = 1
    MaxTime = 30
CHECK_DEADLOCK FALSE
INVARIANTS
    TypeOK
    RecordedIsOpenable
    ReadsTheFrameAskedFor
    TimeoutIsIdle
    ToolsUseEveryPicture
PROPERTIES
    PublicationSpec
    RecordingEnds
