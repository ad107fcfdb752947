CONSTANTS
    r1 = r1
    r2 = r2
    a = a
    Requests = {r1, r2}
    Services = {a}
    Weights <- MCWeights
    Scale = 3
    FallbackWeight = 1
    NoWeights = NoWeights
    TTL = 2
    CallTimeout = 1
    MaxTime = 5
SYMMETRY Symmetry
SPECIFICATION Spec
PROPERTIES
    ConvergesWithinTTL
    DrainedZoneIsAvoided
