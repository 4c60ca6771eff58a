CONSTANTS
    OnLost = FALSE
    MaxLosses = 2
SPECIFICATION Spec
PROPERTIES
    ReconnectsAutomatically
CHECK_DEADLOCK FALSE
