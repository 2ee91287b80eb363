SPECIFICATION Spec
CONSTANTS
    Clients = {c1, c2}
    ClientBuffer = 1
    RegisterBuffer = 1
    EventBuffer = 2
    MaxEvents = 1
    Stoppable = FALSE
INVARIANT GoneIsForgotten
