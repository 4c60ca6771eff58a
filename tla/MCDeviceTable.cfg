CONSTANTS
    s1 = s1
    s2 = s2
    Sensors = {s1, s2}
    Gateway = gateway
    None = none
    MaxDevices = 2
    MaxItems = 2
    Defaults <- MCDefaults
    Specs <- MCSpecs
    SlashNames <- MCSlashNames
    Long <- MCLong
    MaxCalls = 3
    MaxLosses = 1
    MaxCommands = 1
SPECIFICATION Spec
INVARIANTS
    TypeOK
    OneEntryEach
    NewestArray
    ToldOnlyWhenFull
    ListRight
PROPERTIES
    CrashOnlyInCalls
    CapabilityRepairs
\* The application stops when its calls are used up.
CHECK_DEADLOCK FALSE
