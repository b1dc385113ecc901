SPECIFICATION Spec
CONSTANTS
    good = good
    padded = padded
    short = short
    None = None
    Truncated = Truncated
    Garbled = Garbled
    Users = {u1, u2}
    Passwords = {good, padded, short}
    Stripped <- OneBlank
    LongEnough = {good, padded}
    Procs = {m1}
    MaxWriters = 1
    Faults = {"stop"}
SYMMETRY Symmetric
INVARIANTS
    TypeOK
    GrantsAreTrue
    TakesEffect
    RegisteredGetIn
PROPERTIES
    ReportsAreTrue
