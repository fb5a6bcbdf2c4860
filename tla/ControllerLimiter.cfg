CONSTANTS
    Clients = {c1}
    Burst = 1
    Unit = 2
    MaxTick = 4
    NoBucket = NoBucket
    Processes = {p1}
    Scripts = 1
    Names = {boot}
    Bootstrap = boot
    Handlers = {h1, h2}
    MaxSecrets = 3
    MaxFaults = 1
    NoToken = NoToken
    NoFile = NoFile
SPECIFICATION Spec
INVARIANT AdmissionBounded
