CONSTANTS
    PolicyBackends = {b1, b2}
    Failing = {b2}
    StaleAfter = 0
    Versions = 2
    MaxChanges = 2
    MaxFaults = 1
    NoRow = NoRow
SPECIFICATION Spec
INVARIANT
    TypeOK
    
PROPERTIES
    TroubleShown
    FallbackVisible
    PlanSettles
