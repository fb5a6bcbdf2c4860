CONSTANTS
    NumMappings = 2
    Addresses = {"wg", "ssh"}
    NumRouteSets = 1
    Ifaces = {"wg0"}
    Systemctl = TRUE
    MaxChanges = 3
    MaxFaults = 2
SPECIFICATION Spec
INVARIANTS
    TypeOK
    OneDestination
    FaultFreeIsExact
PROPERTIES
    UndoRestores
    InterfacesKept
