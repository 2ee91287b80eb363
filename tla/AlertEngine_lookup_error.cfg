SPECIFICATION Spec
CONSTANTS
    cpu = cpu
    Rules = {cpu}
    Agents = {a1}
    AlertIds = {i1, i2}
    Evaluators = {e1}
    Requests = {h1}
    None = None
    Samples <- MCSamples
    RuleConfigs <- MCImmediate
    SeedRules <- SeedImmediate
    Faults = {"lookup"}
    MaxAge = 0
    MaxEdits = 0
    MaxRestarts = 0
INVARIANT OneActivePerKey
