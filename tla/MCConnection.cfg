CONSTANTS
    OnLost = TRUE
    MaxLosses = 3
SPECIFICATION Spec
INVARIANTS
    TypeOK
    OneConnect
PROPERTIES
    Repaired
\* Nothing happens on a link that holds, once no more losses are counted.
CHECK_DEADLOCK FALSE
