CONSTANTS
    Clients = {c1}
    Burst = 1
    Unit = 2
    MaxTick = 1
    NoBucket = NoBucket
    Processes = {p1, p2}
    Scripts = 2
    Names = {boot, t1}
    Bootstrap = boot
    Handlers = {h1}
    MaxSecrets = 5
    MaxFaults = 2
    NoToken = NoToken
    NoFile = NoFile
SPECIFICATION Spec
INVARIANTS
    TypeOK
    ServesFullSchema
    FileOpensTheDoor
    RevokedNeverReturns
PROPERTY
    EventuallyServes
