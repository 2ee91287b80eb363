SPECIFICATION Spec
CONSTANTS
    Agents = {a1}
    Values <- MCValues
    Malformed = Malformed
    SlotsPerHour = 2
    RetentionSlots = 4
    IntervalSlots = 2
    Lateness = 1
    Faults = {"rollup", "purge"}
    MaxTime = 6
    MaxRestarts = 1
    None = None
CHECK_DEADLOCK FALSE
INVARIANTS TypeOK RetentionEnforced
PROPERTIES PurgedWereSummarised ExactWhileRetained
