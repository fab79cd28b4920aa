SPECIFICATION Spec
SYMMETRY Symmetry
CONSTANTS
    Events = {e1}
    Acls = {a1}
    Diags = {}
    Pkts = {k1, k2}
    Chans = {c1}
    Procs = {p1, p2}
    None = None
    MaxLen = 1
    Voice = TRUE
    SerialOpen = TRUE
    Pm = FALSE
    Faults = FALSE
    ProbeFails = FALSE
INVARIANTS
    TypeOK
    UrbOneOwner
    UrbConserved
    PktConserved
    KrefExact
    FreedUnused
\* the device may be gone and every file closed
CHECK_DEADLOCK FALSE
