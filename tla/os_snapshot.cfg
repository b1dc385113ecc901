SPECIFICATION Spec
CONSTANTS
    used = used
    free = free
    idle = idle
    again = again
    root = root
    cpu = cpu
    Sets <- TwoSets
    Elements <- OneHost
    KindOf <- Kinds
    MetricOf <- Metrics
    MaxMetrics = 3
INVARIANTS
    TypeOK
    LowIsCalm
    HighIsRed
