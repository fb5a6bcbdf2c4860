CONSTANTS
    NumMappings = 1
    Addresses = {"wg", "ssh"}
    NumRouteSets = 1
    Ifaces = {"wg0"}
    Systemctl = FALSE
    MaxChanges = 3
    MaxFaults = 2
SPECIFICATION FairSpec
PROPERTY
    EventuallyConverged
