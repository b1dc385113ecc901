SPECIFICATION Spec
CONSTANTS
    None = None
    FailedHigh = 1
    StuckHours = 1
    QueuesHigh = 2
    StaleHigh = 2
    HeavyLocks = 2
    KeepHours = 1
    AgedHigh = 1
    OutputsHigh = 2
    NoAge <- Never
    FixedCap = 2
    Parameters <- TwoParameters
    Advice <- TwoAdvices
    Asks <- SmallAsks
    Held <- SmallHeld
INVARIANTS
    TypeOK
    LowIsClear
    AlarmHasCause
    CountIsTrue
