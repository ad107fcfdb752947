CONSTANTS
    Interval = 30
    CallTimeout = 8
    WorkTimeout = 15
    MaxAge = 75
    Tolerated = 1
    Detected = 3
SPECIFICATION HealthSpec
INVARIANTS
    TransientFailuresTolerated
    OutageDetected
