SPECIFICATION Spec
PROPERTIES
    RestartComesUp
SYMMETRY Symmetry
CONSTANTS
    Users = {u1}
    Runs = {r1}
    Handlers = {h1}
    PortStart = 8000
    PortEnd = 8001
    DefaultTTL = 1
    MaximumTTL = 2
    MaximumRun = 2
    MaximumUser = 2
    Waits = {0}
    Contended = {8001}
    StoreMayFail = FALSE
    MaxTime = 2
    MaxCapabilities = 2
    MaxLeases = 2
    MaxPorts = 1
