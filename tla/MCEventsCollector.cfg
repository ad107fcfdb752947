CONSTANTS
    c1 = c1
    c2 = c2
    Containers = {c1, c2}
    MaxLines <- MCMaxLines
    Open = Open
CHECK_DEADLOCK FALSE
SPECIFICATION Spec
INVARIANTS
    TypeOK
    LastWordsCounted
PROPERTIES
    FollowedIsRead
    ExitCompletes
