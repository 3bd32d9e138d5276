SPECIFICATION Spec
CONSTANTS
    free = free
    freeEmpty = freeEmpty
    models = models
    modelsEmpty = modelsEmpty
    nil = nil
    rejected = rejected
    c1 = c1
    c2 = c2
    r1 = r1
    r2 = r2
    Snapshots <- MCSnapshots
    ModelBearing <- MCModelBearing
    RuleFree <- MCRuleFree
    NoSnapshot = nil
    Rejected = rejected
    Callers = {c1}
    Requests = {r1, r2}
    MaxAttempts = 2
    Serialized = TRUE
INVARIANTS
    AtMostOneTransform
    NoPhaseGap
    GateMatchesRules
    AcceptedIsInForce
PROPERTIES
    PhaseClassStable
    FirstValidInstalls
    ImplementsContract
CHECK_DEADLOCK FALSE
