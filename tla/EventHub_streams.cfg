SPECIFICATION FairSpec
CONSTANTS
    Clients = {c1, c2}
    ClientBuffer = 2
    RegisterBuffer = 1
    EventBuffer = 2
    MaxEvents = 3
    Stoppable = TRUE
CHECK_DEADLOCK FALSE
INVARIANTS TypeOK RegisteredIsOpen NoSilentGap
PROPERTIES CloseEndsStream LeaverIsRemoved
