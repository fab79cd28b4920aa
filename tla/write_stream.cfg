SPECIFICATION Spec
CONSTANTS
    Packets <- Mixed
    Stream <- MixedStream
    Start <- MixedStart
    Hdr = 2
    MaxSize = 5
    Pool = 2
    Split = TRUE
    DiagOut = TRUE
    AutoPm = TRUE
    Fails = TRUE
    Lite = FALSE
INVARIANTS
    StreamKept
    TransHonest
    
CHECK_DEADLOCK FALSE
