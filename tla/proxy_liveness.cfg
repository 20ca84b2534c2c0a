SPECIFICATION FairSpec
PROPERTIES
    CloseEndsForwarding
    BacklogIsServed
CONSTANTS
    Clients = {c1, c2}
    MaxSent = 1
    AcceptMayFail = FALSE
    Resetting = {}
    Stalling = {"client"}
CHECK_DEADLOCK FALSE
