CONSTANTS
    Nodes = {n1, n2}
    Backends = {b1, b2}
    Tunnels = {t1}
    Mappings = {m1, m2}
    Routes = {r1}
    Foreigns = {f1}
    Names = {x1, x2}
    Ports = {p1, p2}
    Handlers = {h1, h2}
    MaxRequests = 3
    NoRow = NoRow
    NoName = NoName
SPECIFICATION Spec
SYMMETRY Symmetry
CHECK_DEADLOCK FALSE
INVARIANTS
    TypeOK
    OmittedFieldsKept
    SniLeadsWhereSaved
    RulesHaveBackends
