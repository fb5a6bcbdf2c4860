CONSTANTS
    Agents = {"a1", "dry"}
    LiveAgents = {"a1"}
    NumBackends = 1
    WGTun = {1}
    SSHTun = {1}
    Address <- AllWG
    Threshold <- ThresholdTwo
    AutoFailback <- AllAutomatic
    PrimarySnaps <- EdgePrimarySnaps
    FallbackSnaps <- EdgeFallbackSnaps
    MaxRequests = 1
    MaxFailures = 2
    MaxFaults = 1
    Outages = {"wgup"}
SPECIFICATION FairSpec
INVARIANTS
    NoLostUpdate
    ThresholdRespected
PROPERTY
    RequestServed
