SPECIFICATION FairSpec
CONSTANTS
    Workers = {w1}
    Callers = {c1}
    RetryInterval = 1
    RecoveryDeadline = 3
    MaxAutoRetry = 2
    LegacyPolicies = {"absent", "foreign"}
    MaxTime = 3
    MaxSessions = 2
    MaxRevision = 3
INVARIANTS
    TypeOK
    OneObligation
    AttemptsAccounted
    ContactWithinPolicy
    DeadlineDecides
PROPERTIES
    ResolutionFinal
    ExpiryHappens
