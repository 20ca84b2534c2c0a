SPECIFICATION Spec
INVARIANTS
    LeaseIsForwarded
    WithinQuota
PROPERTIES
    RestartKeepsLeases
SYMMETRY Symmetry
CONSTANTS
    Users = {u1}
    Runs = {r1, r2}
    Handlers = {h1}
    PortStart = 8000
    PortEnd = 8003
    DefaultTTL = 1
    MaximumTTL = 2
    MaximumRun = 2
    MaximumUser = 3
    Waits = {0}
    Contended = {8000, 8001}
    StoreMayFail = FALSE
    MaxTime = 2
    MaxCapabilities = 2
    MaxLeases = 2
    MaxPorts = 2
