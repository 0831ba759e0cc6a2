SPECIFICATION Spec
CONSTANTS
    tab1 = tab1
    tok1 = tok1
    tok2 = tok2
    noCookie = noCookie
    noData = noData
    pending = pending
    unauthorized = unauthorized
    failed = failed
    ok = ok
    Tokens <- TwoTokens
    OldCookie = tok1
    NoCookie = noCookie
    Modes <- OpenMode
    Things <- AllThings
    Tabs <- OneTab
    MaxCalls = 2
    MaxChanges = 0
    MaxClicks = 1
    MaxFaults = 0
    NoData = noData
    Pending = pending
    Unauthorized = unauthorized
    Failed = failed
    Ok = ok
INVARIANTS
    OpenModeStaysOpen
