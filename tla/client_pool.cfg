SPECIFICATION FairSpec
CONSTANTS
    spool = spool
    lists = lists
    info = info
    tsp01 = tsp01
    tsp02 = tsp02
    hdr = hdr
    tasks = tasks
    sysinfo = sysinfo
    Calls = {spool, lists, info}
    Requests = {tsp01, tsp02, hdr, tasks, sysinfo}
    Stages <- ThreeShapes
    Essential = {tsp01, hdr, sysinfo}
    Workers = {w1, w2}
    MaxHung = 1
    None = None
INVARIANTS
    TypeOK
    OnePlace
PROPERTIES
    KeepsCalls
    EveryRequestServed
CHECK_DEADLOCK FALSE
