SPECIFICATION FairSpec
CHECK_DEADLOCK FALSE
CONSTANTS
    tab1 = tab1
    tok1 = tok1
    tok2 = tok2
    noCookie = noCookie
    noData = noData
    pending = pending
    unauthorized = unauthorized
    failed = failed
    ok = ok
    Tokens <- TwoTokens
    OldCookie = tok1
    NoCookie = noCookie
    Modes <- BothModes
    Things <- NoSync
    Tabs <- OneTab
    MaxCalls = 2
    MaxChanges = 1
    MaxClicks = 1
    MaxFaults = 1
    NoData = noData
    Pending = pending
    Unauthorized = unauthorized
    Failed = failed
    Ok = ok
INVARIANTS
    TypeOK
    LogoutRevokes
    PageFollowsTotal
    NoCarryOver
    BusyHasCommand
PROPERTIES
    DeadStaysDead
    ReadYourWrites
    DeadSessionLeaves
    ShowsTheTruth
