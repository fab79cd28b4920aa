SPECIFICATION FairSpec
CONSTANTS
    File <- Three
    Start <- Starts
    Events <- TwoEvents
    BufSize = 12
    Cuts <- Anywhere
    ReadFails = FALSE
INVARIANTS
    NothingElse
    EventWhole
    InBounds
PROPERTIES
    ImplementsExchange
    Finishes
\* the loop ends
CHECK_DEADLOCK FALSE
