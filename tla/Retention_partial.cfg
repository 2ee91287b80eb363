SPECIFICATION Spec
CONSTANTS
    Agents = {a1}
    Values <- MCNumbers
    Malformed = Malformed
    SlotsPerHour = 2
    RetentionSlots = 4
    IntervalSlots = 2
    Lateness = 1
    Faults = {}
    MaxTime = 7
    MaxRestarts = 1
    None = None
CHECK_DEADLOCK FALSE
PROPERTY SummariesOnlyGrow
