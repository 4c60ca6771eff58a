\* Three requests, a ring with room for two of them.
CONSTANTS
    temp = temp
    name = name
    MaxCmds = 3
    Items <- MCItems
    Type <- MCType
    Setter = {name}
    Getter <- MCGetter
    NoName = NoName
    MaxReq = 3
    MaxWrites = 1
SPECIFICATION Spec
INVARIANTS
    TypeOK
    RepliesInOrder
    AppliedIsAnswered
    GetNotStale
PROPERTIES
    EventuallyAnswered
