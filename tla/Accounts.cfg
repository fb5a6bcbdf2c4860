CONSTANTS
    Users = {u1, u2}
    Handlers = {h1, h2}
    Sessions = {s1, s2}
    Roles = {"administrator", "operator"}
    MaxSecrets = 2
    MaxCodes = 2
    MaxRestarts = 1
    MaxRequests = 4
    NoRow = NoRow
    NoSession = NoSession
SYMMETRY Symmetry
SPECIFICATION Spec
INVARIANTS
    TypeOK
    AdministratorRemains
    CodeUsedOnce
    CodesMatchEnrolment
    OnlyVerifiedSecrets
    SecondFactorGiven
CHECK_DEADLOCK FALSE
