SPECIFICATION Spec
CONSTANTS
    a = a
    b = b
    x = x
    stamp = stamp
    z = z
    off = off
    bad = bad
    limit = limit
    moment = moment
    daemon = daemon
    cli = cli
    Absent = Absent
    None = None
    Unparsable = Unparsable
    Users <- MCTwoUsers
    Managed <- MCOneManaged
    Exps <- MCSpellings
    Instant <- MCMoments
    Stored <- MCRespelled
    Rfc3339 <- MCRfc3339
    Stamps = {stamp}
    Limits = {limit}
    MinDeletes = 2
    ThresholdPercent = 50
    Syncers = {cli}
    Periodic = {}
    Forced = {cli}
    Shadow = {}
    MaxRetry = 1
    StartTables <- MCEveryStart
    MaxEvents = 0
INVARIANT
    UndisturbedPassSucceeds
PROPERTY
    DiffIsExact
CHECK_DEADLOCK FALSE
