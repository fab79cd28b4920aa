SPECIFICATION Spec
CONSTANTS
    Trans = {t1, t2}
    Frames = 3
    Burst = 4
    Header = 2
    PacketSize = 3
    LowWater = 4
    DataLens = {3, 8}
    SubmitFails = TRUE
    Smp = TRUE
    InCall = 3
    Cancels = TRUE
    ActiveBound = 7
INVARIANTS
    TransHonest
CHECK_DEADLOCK FALSE
