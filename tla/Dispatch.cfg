SPECIFICATION FairSpec
CONSTANTS
    Callers = {c1, c2}
    Reconcilers = {q1}
    Receivers = {p1}
    NConsents = 1
    Failures <- OneOfEachClass
    MaxAttempts = 2
    MaxRevision = 2
    MaxTroubles = 1
INVARIANTS RoutingBacked ResultTraced
PROPERTIES UnknownNotResent AcceptedReachesClaim
CHECK_DEADLOCK FALSE
