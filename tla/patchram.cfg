SPECIFICATION FairSpec
CONSTANTS
    Low = 115200
    Rates = {115200, 1500000}
    Records = 2
    TwoBytes = TRUE
    Apart = FALSE
    Cold = TRUE
    Errors = TRUE
    MaxResends = 2
INVARIANTS
    TypeOK
    EventLag
    RatesAgree
    InSync
PROPERTIES
    ImplementsExchange
    Finishes
\* the program ends
CHECK_DEADLOCK FALSE
