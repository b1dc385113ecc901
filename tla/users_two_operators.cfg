SPECIFICATION Spec
CONSTANTS
    good = good
    padded = padded
    short = short
    None = None
    Truncated = Truncated
    Garbled = Garbled
    Users = {u1, u2}
    Passwords = {good, padded, short}
    Stripped <- OneBlank
    LongEnough = {good, padded}
    Procs = {m1, m2}
    MaxWriters = 2
    Faults = {}
SYMMETRY Symmetric
INVARIANTS
    TakesEffect
