SPECIFICATION Spec
CONSTANTS
    Clients = {c1, c2}
    Users = {u1, u2}
    Unknown = Unknown
    Sessions = {s1}
    Codes = {k1, k2}
    Tokens = {t1, t2}
    Slots = {p1, p2}
    Faults = {"write_fails", "torn_crash"}
    None = None
SYMMETRY Ids
INVARIANTS
    TypeOK
    Binding
    OneHeadPerLogin
    EndedStaysEnded
    HeldSurvives
PROPERTIES
    CodeFromLiveSession
