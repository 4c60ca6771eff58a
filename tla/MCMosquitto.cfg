CONSTANTS
    ServerTopics <- MCServerTopics
    SensorTopic = "sensor"
SPECIFICATION Spec
INVARIANTS
    TypeOK
    ReturnsAccepted
    HasItsCallback
    Announced
PROPERTIES
    ConnectReturns
\* A wild pointer ends the process.
CHECK_DEADLOCK FALSE
