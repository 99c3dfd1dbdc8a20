\* Two processes of up to two windows that come and go, up to two samples with
\* no pause between them.
SPECIFICATION FairSpec
CONSTANTS
    Pid = {1, 2}
    Commands = 1
    Duration = 2
    Interval = 0
    Hang = 1
    Windows = 2
    Work = 1
    Grace = 1
CHECK_DEADLOCK FALSE
INVARIANTS
    TypeOK
    SamplesSurvive
    FinishedIsComplete
    NothingLeftSilently
    DumpsFollowListing
PROPERTY
    ProbeEnds
