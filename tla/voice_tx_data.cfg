SPECIFICATION FairSpec
CONSTANTS
    Trans = {t1, t2, t3}
    Frames = 3
    Burst = 4
    Header = 2
    PacketSize = 2
    LowWater = 4
    DataLens = {1, 4, 7, 8}
    SubmitFails = FALSE
    Smp = FALSE
    InCall = 2
    Cancels = FALSE
    ActiveBound = 9
INVARIANTS
    PacketSent
    ActiveExact
PROPERTIES
    CallReturns
