CONSTANTS
    r1 = r1
    r2 = r2
    Requests = {r1, r2}
    Services = {1, 2}
    Retries = 2
    MaxRetries = 1
    EjectAfter = 2
    Geo = Geo
    PerZone = 2
    Scenarios <- MCScenarios
    Path <- MCPath
    MaxSent <- MCMaxSent
CHECK_DEADLOCK FALSE
SYMMETRY Symmetry
SPECIFICATION Spec
INVARIANTS
    EveryFailoverIsSeamless
