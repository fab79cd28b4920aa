SPECIFICATION FairSpec
CONSTANTS
    MaxNotes = 2
    MaxVolume = 3
    Steps = {1, 2}
INVARIANTS
    LedFollows
PROPERTIES
    RecoveryAsked
\* the device may be rebooted
CHECK_DEADLOCK FALSE
