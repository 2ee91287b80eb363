SPECIFICATION FairSpec
CONSTANTS
    Channels = {ch1, ch2}
    Alerts = {a1}
    DeliveryIds = {d1, d2}
    Callers = {c1, c2}
    Workers = {w1}
    QueueSize = 1
    MaxRetries = 2
    Faults = {}
    MaxRestarts = 0
    None = None
CHECK_DEADLOCK FALSE
INVARIANT PendingHasOwner
PROPERTY Settles
