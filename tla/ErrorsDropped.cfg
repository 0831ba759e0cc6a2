SPECIFICATION Spec
CONSTANTS
    a = a
    b = b
    x = x
    stamp = stamp
    z = z
    off = off
    bad = bad
    limit = limit
    moment = moment
    daemon = daemon
    cli = cli
    Absent = Absent
    None = None
    Unparsable = Unparsable
    Users <- MCUsers
    Managed <- MCManaged
    Exps <- MCExps
    Instant <- MCInstant
    Stored <- MCStored
    Rfc3339 <- MCRfc3339
    Stamps = {stamp}
    Limits = {}
    MinDeletes = 2
    ThresholdPercent = 50
    Syncers = {daemon}
    Periodic = {daemon}
    Forced = {}
    Shadow = {}
    MaxRetry = 1
    StartTables <- MCReplace
    MaxEvents = 1
PROPERTY
    ErrorsKept
