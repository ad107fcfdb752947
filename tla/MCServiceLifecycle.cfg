CONSTANTS
    a1 = a1
    Instances = {a1}
    ReapAfter = 6
    MaxRequests = 2
SPECIFICATION FairSpec
INVARIANTS
    TypeOK
    ClosedIsUnlisted
    SteadyIsListed
    StopEventIsLast
PROPERTIES
    GoneIsForgotten
    StopCompletes
