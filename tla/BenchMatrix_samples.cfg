SPECIFICATION Spec
CONSTANTS
    OptionValues <- OnlyWithoutBaseline
    MaxPictures = 1
    MaxPackets = 1
CHECK_DEADLOCK FALSE
INVARIANT
    SourceBesideDecoded
