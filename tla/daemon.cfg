SPECIFICATION FairSpec
INVARIANTS
    TypeOK
    LeaseHasJob
    ErrorTakesNothing
    DrainedIsQuiet
PROPERTIES
    StopIsBounded
    ImplementsBook
CONSTANTS
    Handlers = {h1, h2}
    Capabilities = {c1}
    Capacity = 1
    MaximumWait = 1
    Seconds = {0, 3, 11}
    SecondUnit = 12
    WordSize = 64
    MaxTTL = 2
    MaxTime = 1
    MaxLeases = 2
