SPECIFICATION Spec
CONSTANTS
    first = first
    second = second
    Starter = {first, second}
    Settings <- Chosen
    MaxTime = 2
CHECK_DEADLOCK FALSE
INVARIANT
    HardenedRunFails
