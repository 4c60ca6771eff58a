CONSTANTS
    Rates <- MCRates
    InitRate = 5
    IntMax = 31
SPECIFICATION HeartbeatSpec
INVARIANTS
    HeartbeatTypeOK
    HeartbeatInTime
\* A rate of 0 may end the process.
CHECK_DEADLOCK FALSE
