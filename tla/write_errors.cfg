SPECIFICATION FairSpec
CONSTANTS
    Packets <- EveryKind
    Stream <- EveryStream
    Start <- EveryStart
    Hdr = 2
    MaxSize = 5
    Pool = 1
    Split = FALSE
    DiagOut = FALSE
    AutoPm = FALSE
    Fails = TRUE
    Lite = TRUE
INVARIANTS
    WholePackets
PROPERTIES
    WriteReturns
CHECK_DEADLOCK FALSE
