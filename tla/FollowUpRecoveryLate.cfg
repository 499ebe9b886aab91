SPECIFICATION Spec
CONSTANTS
    Workers = {w1, w2}
    Callers = {c1}
    RetryInterval = 1
    RecoveryDeadline = 3
    MaxAutoRetry = 2
    LegacyPolicies = {}
    MaxTime = 2
    MaxSessions = 1
    MaxRevision = 1
SYMMETRY Symmetry
INVARIANTS
    OperationsReadable
