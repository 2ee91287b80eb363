SPECIFICATION Spec
CONSTANTS
    s1 = s1  s2 = s2
    root = root  op = op  NoToken = NoToken
    Slots = {s1, s2}
    Tokens = {root, op, t3}
    Addresses = {ip1, ip2}  ip1 = ip1
    Window = 2
    Agents = {a1, a2}  a1 = a1  a2 = a2
    Second = 2
    DefaultHealthy = 1
    DefaultStale = 4
    DefaultLimit = 3
    Retention = 4
    MaxPoints = 2
    Ranges = {2}
    Ahead = 2
    Late = 1
    Faults = TRUE
    Environments <- MCEnvironments
CHECK_DEADLOCK FALSE
INVARIANTS TypeOK RevokedIsRefused AtMostLimit AnnouncedIsStored OfflineInTime OverviewIsPlausible ChartShowsNewest
PROPERTIES LockoutLasts RefusedOnlyAtLimit LastSeenAdvances OnlyASampleHeals StaleBeforeOffline
