CONSTANTS
    s1 = s1
    s2 = s2
    w1 = w1
    w2 = w2
    Services = {s1, s2}
    ZoneWeights = {w1, w2}
    NoWeights = NoWeights
    Payloads <- MCPayloads
    MaxVersion = 2
    CountCap = 2
    MaxLimbo = 1
SPECIFICATION FairSpec
INVARIANTS
    TypeOK
    NoPublishAfterClose
    NoDuplicateBroadcast
    QuietMeansDelivered
PROPERTIES
    ChannelOrdered
    ScrapeAccounted
    ShutdownCompletes
