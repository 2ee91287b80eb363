SPECIFICATION Spec
CONSTANTS
    cpu = cpu
    Rules = {cpu}
    Agents = {a1}
    AlertIds = {i1, i2}
    Evaluators = {e1, e2}
    Requests = {h1}
    None = None
    Samples <- MCSamples
    RuleConfigs <- MCSwitched
    SeedRules <- SeedImmediate
    Faults = {"rules"}
    MaxAge = 0
    MaxEdits = 1
    MaxRestarts = 1
SYMMETRY MCSymmetry
INVARIANTS TypeOK DuplicatesBounded AnnouncedOnce PublishedOrOwned
PROPERTY LifecycleSpec
PROPERTY LifecycleSpec
