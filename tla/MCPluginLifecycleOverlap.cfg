SPECIFICATION Spec
CONSTANTS
    free = free
    freeEmpty = freeEmpty
    models = models
    modelsEmpty = modelsEmpty
    nil = nil
    rejected = rejected
    c1 = c1
    c2 = c2
    r1 = r1
    r2 = r2
    Snapshots <- MCSnapshots
    ModelBearing <- MCModelBearing
    RuleFree <- MCRuleFree
    NoSnapshot = nil
    Rejected = rejected
    Callers = {c1, c2}
    Requests = {r1}
    MaxAttempts = 1
    Serialized = FALSE
PROPERTY ReconfigureKeepsClass
CHECK_DEADLOCK FALSE
