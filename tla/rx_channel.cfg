SPECIFICATION FairSpec
CONSTANTS
    Events = {e1}
    Acls = {a1}
    Diags = {}
    Pkts = {k1}
    Chans = {c1}
    Procs = {p1}
    None = None
    MaxLen = 2
    Voice = TRUE
    SerialOpen = TRUE
    Pm = FALSE
    Faults = FALSE
    ProbeFails = FALSE
PROPERTIES
    ImplementsChannel
    SleeperServed
    UnplugCompletes
    UnplugNotifiesSelect
\* the device may be gone and every file closed
CHECK_DEADLOCK FALSE
