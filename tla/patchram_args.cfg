SPECIFICATION Spec
CONSTANTS
    Low = 115200
    Rates = {115200, 1500000}
    Addrs = {a1, a2}
    Android = TRUE
    MaxArgs = 3
    MaxFaults = 2
INVARIANTS
    CopyHonest
    AddrDurable
PROPERTIES
    AddrPersists
\* the program exits, or goes on with the open port
CHECK_DEADLOCK FALSE
