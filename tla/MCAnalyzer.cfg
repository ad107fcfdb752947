CONSTANTS
    svcA = svcA
    svcB = svcB
    Services = {svcA, svcB}
    Metrics <- MCMetrics
    NoData = NoData
    Latencies = {0, 3, 140}
    Rates = {0, 1, 2, 3, 20}
    Predictions = {3125}
    MLEnabled = TRUE
    None = None
SPECIFICATION Spec
INVARIANTS
    HealthyMeansServing
    ExactWhenQuiet
    SilentZoneIsTriedAgain
    WorseZoneGetsLess
