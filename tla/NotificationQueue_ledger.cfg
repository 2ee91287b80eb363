SPECIFICATION Spec
CONSTANTS
    Channels = {ch1, ch2}
    Alerts = {a1}
    DeliveryIds = {d1, d2, d3}
    Callers = {c1}
    Workers = {w1, w2}
    QueueSize = 1
    MaxRetries = 2
    Faults = {"list", "create", "update"}
    MaxRestarts = 1
    None = None
SYMMETRY MCSymmetry
CHECK_DEADLOCK FALSE
INVARIANTS TypeOK OneOwner LogIsTrue
PROPERTY LedgerSpec
