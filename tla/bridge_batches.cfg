SPECIFICATION FairSpec
CONSTANTS
    c1 = c1
    c2 = c2
    c3 = c3
    tg1 = tg1
    tg2 = tg2
    d1 = d1
    d2 = d2
    read = read
    logon = logon
    logoff = logoff
    other = other
    xal = xal
    xmb = xmb
    ReadTable = read
    Logon = logon
    Logoff = logoff
    Blank = Blank
    None = None
    Workers = {w1, w2}
    Conns = {c1}
    Targets = {tg1}
    TargetOf <- OneTarget
    DestNames = {d1}
    Hash <- OneHash
    Functions = {read, logon, logoff, other}
    Allowed = {read, logon, logoff}
    Interfaces = {xal}
    Batches <- NamesBatches
INVARIANTS
    TypeOK
    OnlyAllowedRun
    RejectedRanNothing
    NoStrandedSession
PROPERTIES
    SuccessIsComplete
    NothingAfterFailure
    Answered
