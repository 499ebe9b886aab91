SPECIFICATION FairSpec
CONSTANTS
    Requests = {r1, r2}
    Keys = {k1}
    Results = {"created"}
    RetryableCodes = {"timeout"}
    TerminalCodes = {}
    MaxRevision = 2
    MaxCrashes = 1
PROPERTIES
    PendingSettles
