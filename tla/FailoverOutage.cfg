CONSTANTS
    Agents = {"a1"}
    LiveAgents = {"a1"}
    NumBackends = 2
    WGTun = {1, 2}
    SSHTun = {1, 2}
    Address <- AllWG
    Threshold <- ThresholdOne
    AutoFailback <- AllAutomatic
    PrimarySnaps <- TwoPrimarySnaps
    FallbackSnaps <- TwoFallbackSnaps
    MaxRequests = 0
    MaxFailures = 2
    MaxFaults = 2
    Outages = {"wgdown"}
SPECIFICATION FairSpec
PROPERTY
    EventuallyOnSSH
