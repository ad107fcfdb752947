CONSTANTS
    h1 = h1
    h2 = h2
    c1 = c1
    c2 = c2
    Hints = {h1, h2}
    NoHint = NoHint
    BadPayload = BadPayload
    Closers = {c1, c2}
    InboxCap = 3
SPECIFICATION FairSpec
INVARIANTS
    QuietConsumerIsCurrent
    CloseIsComplete
PROPERTIES
    CloseReturns
    RegisterSpec
CHECK_DEADLOCK FALSE
