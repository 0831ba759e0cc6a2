SPECIFICATION FairSpec
CONSTANTS
    loop1 = loop1
    post1 = post1
    h1 = h1
    h2 = h2
    free = free
    none = none
    Loop = loop1
    Callers <- OneCaller
    Handlers <- OneHandler
    Free = free
    MaxVersion = 2
    MaxFailures = 1
    NoStatus = none
PROPERTIES
    AutonomousLoop
