\* Colours, indexes and command lines of up to four arguments.
SPECIFICATION Spec
CONSTANTS
    Pixels <- PixelsOnEdges
    Words16 <- TwoBytes
    Yuv <- Samples
    Layouts <- LayoutsOfSides
    Rows <- SmallRows
    Sizes <- PictureSizes
    SceneFrames = {0, 1, 15, 30, 44}
    Lengths = {1, 2, 3, 10, 99, 100, 101, 250}
    Tokens <- TokensOf
    MaxArgs = 4
CHECK_DEADLOCK FALSE
INVARIANTS
    ColoursAreRight
    IndexesStayInside
    OptionsAreRead
