SPECIFICATION FairSpec
CONSTANTS
    n1 = n1
    n2 = n2
    t1 = t1
    noURL = noURL
    Nodes <- TwoNodes
    NoURL = noURL
    JoinTokens <- OneToken
    MaxFailovers = 2
    MaxFaults = 1
    MaxJoins = 2
INVARIANTS
    TypeOK
    OneBundle
PROPERTIES
    SettledUntilFailover
    RegistryTruthful
