SPECIFICATION Spec
CONSTANTS
    Areas = {a1, a2}
    Outcomes = {"answered", "refused", "failed"}
INVARIANTS
    TypeOK
    FailureIsUnknown
    VerdictIsSeen
    UnknownIsUnread
