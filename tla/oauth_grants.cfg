SPECIFICATION Spec
CONSTANTS
    Clients = {c1, c2}
    Users = {u1}
    Unknown = Unknown
    Sessions = {s1, s2}
    Codes = {k1, k2}
    Tokens = {t1, t2}
    Slots = {p1}
    Faults = {"torn_crash"}
    None = None
SYMMETRY Ids
PROPERTY KeepsGrants
