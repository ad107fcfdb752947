CONSTANTS
    Settings = {a, b}
    a = a
    b = b
    Zones = {z1}
    NoZone = NoZone
    EnvZone = z1
    z1 = z1
    Invalid = Invalid
    Clients = {p, q}
SPECIFICATION FairSpec
INVARIANTS
    TypeOK
    ResendNeverBlocks
    QuietClientIsCurrent
PROPERTIES
    CloseReturns
    ListenersPickUp
