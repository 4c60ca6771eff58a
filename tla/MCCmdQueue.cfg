\* The ring with stores in program order.
CONSTANTS
    MaxCmds = 4
    Cmds = {c1, c2}
    Fields = {cmdId, body}
    NoCmd = NoCmd
SPECIFICATION Spec
INVARIANTS
    TypeOK
    QueuedSlotsWhole
    NeverSameSlot
    AppliedIsNeverRefused
PROPERTIES
    ImplementsFifo
    EveryCommandReached
