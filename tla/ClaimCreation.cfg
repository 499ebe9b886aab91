SPECIFICATION Spec
CONSTANTS
    Requests = {r1, r2}
    Keys = {k1}
    Results = {"created", "pending"}
    RetryableCodes = {"timeout"}
    TerminalCodes = {"malformed"}
    MaxRevision = 3
    MaxCrashes = 1
SYMMETRY Symmetry
PROPERTIES
    LodgedOnce
    ResultNeverLost
