CONSTANTS
    s1 = s1
    s2 = s2
    w1 = w1
    w2 = w2
    Services = {s1, s2}
    ZoneWeights = {w1, w2}
    NoWeights = NoWeights
    Payloads <- OnePayload
    MaxVersion = 1
    CountCap = 1
    MaxLimbo = 1
SPECIFICATION RecoverySpec
PROPERTY ResumesAfterRecovery
