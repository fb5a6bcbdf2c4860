CONSTANTS
    Agents = {"a1"}
    LiveAgents = {"a1"}
    NumBackends = 4
    WGTun = {1, 2, 4}
    SSHTun = {1, 2, 3, 4}
    Address <- SecondOther
    Threshold <- ThresholdOne
    AutoFailback <- LastManual
    PrimarySnaps <- TwoPrimarySnaps
    FallbackSnaps <- TwoFallbackSnaps
    MaxRequests = 1
    MaxFailures = 1
    MaxFaults = 0
    Outages = {}
SPECIFICATION Spec
INVARIANTS
    TypeOK
    RouteMatchesState
    FailoverOnlyWhereAllowed
PROPERTIES
    FailedCutoverKeepsOwnEntry
    ImplementsPolicy
