SPECIFICATION Spec
CONSTANTS
    Areas = {a1, a2}
    Outcomes = {"answered", "refused", "failed", "timed_out"}
INVARIANTS
    FailureIsUnknown
