CONSTANTS
    sensorName = sensorName
    temp = temp
    tempMax = tempMax
    tempMax2 = tempMax2
    blob = blob
    nameAsNumber = nameAsNumber
    Items <- MCItems
    NameOf <- MCNameOf
    TypeOf <- MCTypeOf
    Readable = {sensorName, tempMax2, blob}
    Default = {sensorName}
    FirstTables <- MCFirstTables
    Arrays <- MCArrays
    Slots = 3
    Room = 2
    MaxRequests = 2
    MaxCalls = 2
SPECIFICATION Spec
INVARIANTS
    TypeOK
    SlotKeepsName
    ReachesItsTarget
    CrashHasCause
    NothingKept
\* The requests and the calls are bounded, and a crash ends everything.
CHECK_DEADLOCK FALSE
