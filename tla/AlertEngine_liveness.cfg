SPECIFICATION FairSpec
CONSTANTS
    cpu = cpu
    Rules = {cpu}
    Agents = {a1}
    AlertIds = {i1, i2}
    Evaluators = {e1, e2}
    Requests = {h1}
    None = None
    Samples <- MCSamples
    RuleConfigs <- MCSustained
    SeedRules <- SeedNone
    Faults = {}
    MaxAge = 1
    MaxEdits = 1
    MaxRestarts = 0
PROPERTIES Recovers SustainedFires
