SPECIFICATION FairSpec
CONSTANTS
    loop1 = loop1
    post1 = post1
    h1 = h1
    h2 = h2
    free = free
    none = none
    Loop = loop1
    Callers <- OneCaller
    Handlers <- TwoHandlers
    Free = free
    MaxVersion = 2
    MaxFailures = 2
    NoStatus = none
INVARIANTS
    TypeOK
    NoLostWakeup
PROPERTIES
    NeverGoesBack
    WritesAreRead
    ChangesReachTheNode
