SPECIFICATION Spec
SYMMETRY Symmetry
CONSTANTS
    Events = {e1}
    Acls = {}
    Diags = {d1, d2}
    Pkts = {}
    Chans = {}
    Procs = {p1}
    None = None
    MaxLen = 1
    Voice = TRUE
    SerialOpen = TRUE
    Pm = TRUE
    Faults = TRUE
    ProbeFails = TRUE
INVARIANTS
    QueueHonest
    NoLostWakeup
\* the device may be gone and every file closed
CHECK_DEADLOCK FALSE
