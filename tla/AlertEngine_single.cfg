SPECIFICATION HSpec
CONSTANTS
    cpu = cpu
    mem = mem
    Rules = {cpu, mem}
    Agents = {a1}
    AlertIds = {i1, i2}
    Evaluators = {e1}
    Requests = {h1}
    None = None
    Samples <- MCSamples
    RuleConfigs <- MCEdits
    SeedRules <- MCSeedShort
    Faults = {"create", "resolve", "ack"}
    MaxAge = 1
    MaxEdits = 1
    MaxRestarts = 1
INVARIANTS OneActivePerKey UneditedFiresOnlySustained
