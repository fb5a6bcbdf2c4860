CONSTANTS
    Contents = {"c0", "c1", "c2", "bad"}
    Good = {"c0", "c1", "c2"}
    First = "c0"
    Procs = {"svc", "manual"}
    MaxWrites = 4
    MaxStarts = 1
    MaxFaults = 2
SPECIFICATION FairSpec
CHECK_DEADLOCK FALSE
INVARIANTS
    TypeOK
    IdleIsSynced
PROPERTY
    ComesToRest
