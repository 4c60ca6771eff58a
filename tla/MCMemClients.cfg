CONSTANTS
    MaxBuffer = 20480
    MaxAlloc = 8192
    Growth = 4096
    Header = 4
    Sensors = 2
SPECIFICATION ClientsSpec
INVARIANTS
    TypeOK
    BlocksApart
    UsesLive
    FreshIsZero
