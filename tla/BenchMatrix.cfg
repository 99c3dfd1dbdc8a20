\* Both programs, every configuration free to fail at any step.
SPECIFICATION FairSpec
CONSTANTS
    OptionValues <- AllOptions
    MaxPictures = 2
    MaxPackets = 2
CHECK_DEADLOCK FALSE
INVARIANTS
    TypeOK
    RowsFollowMatrix
    FrameIsAligned
    RowsAddUp
    DecodesFromKey
PROPERTIES
    EveryStepLeadsOn
    RunEnds
