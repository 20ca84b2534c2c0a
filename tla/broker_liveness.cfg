SPECIFICATION FairSpec
INVARIANTS
    NoLostWakeup
PROPERTIES
    AllocateReturns
    ExpiredIsReaped
CONSTANTS
    Users = {u1}
    Runs = {r1}
    Handlers = {h1, h2}
    PortStart = 8000
    PortEnd = 8001
    DefaultTTL = 1
    MaximumTTL = 2
    MaximumRun = 4
    MaximumUser = 4
    Waits = {0, 1}
    Contended = {}
    StoreMayFail = FALSE
    MaxTime = 2
    MaxCapabilities = 1
    MaxLeases = 2
    MaxPorts = 2
