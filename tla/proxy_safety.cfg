SPECIFICATION Spec
INVARIANTS
    TypeOK
    ClosedDropsClients
    AnswerIsDelivered
PROPERTIES
    ClosedCarriesNothing
SYMMETRY Symmetry
CONSTANTS
    Clients = {c1, c2}
    MaxSent = 1
    AcceptMayFail = TRUE
    Resetting = {"client", "target"}
    Stalling = {}
CHECK_DEADLOCK FALSE
