SPECIFICATION Spec
CONSTANTS
    c1 = c1
    c2 = c2
    c3 = c3
    tg1 = tg1
    tg2 = tg2
    d1 = d1
    d2 = d2
    read = read
    logon = logon
    logoff = logoff
    other = other
    xal = xal
    xmb = xmb
    ReadTable = read
    Logon = logon
    Logoff = logoff
    Blank = Blank
    None = None
    Workers = {w1, w2, w3}
    Conns = {c1, c2, c3}
    Targets = {tg1, tg2}
    TargetOf <- SharedTarget
    DestNames = {d1, d2}
    Hash <- InjectiveHash
    Functions = {read, logon, logoff}
    Allowed = {}
    Interfaces = {xal}
    Batches <- NoBatch
INVARIANTS
    SameTarget
    StaleOnlyWhileNotifying
SYMMETRY Threads
