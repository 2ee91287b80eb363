SPECIFICATION HSpec
CONSTANTS
    cpu = cpu
    mem = mem
    Rules = {cpu}
    Agents = {a1}
    AlertIds = {i1, i2}
    Evaluators = {e1}
    Requests = {}
    None = None
    Samples <- MCSamples
    RuleConfigs <- MCConfigs
    SeedRules <- MCSeedOne
    Faults = {}
    MaxAge = 2
    MaxEdits = 2
    MaxRestarts = 0
INVARIANT FiresOnlySustained
