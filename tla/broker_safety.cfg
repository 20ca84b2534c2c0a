SPECIFICATION Spec
INVARIANTS
    TypeOK
    PortExclusive
    ProxyHasLease
    LeaseWithinCapability
PROPERTIES
    EndedStaysEnded
    TenantIsolation
    ImplementsPool
SYMMETRY Symmetry
CONSTANTS
    Users = {u1}
    Runs = {r1}
    Handlers = {h1, h2}
    PortStart = 8000
    PortEnd = 8001
    DefaultTTL = 1
    MaximumTTL = 2
    MaximumRun = 3
    MaximumUser = 3
    Waits = {1}
    Contended = {8001}
    StoreMayFail = TRUE
    MaxTime = 2
    MaxCapabilities = 2
    MaxLeases = 2
    MaxPorts = 2
