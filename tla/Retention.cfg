SPECIFICATION FairSpec
CONSTANTS
    Workers = {w1, w2}
    Staff = {s1}
    Objects = {"photo"}
    Deleted = {}
    Anonymised = {"claim"}
    Retained = {}
    Links = {}
    ClaimRecord = "claim"
    Holds = {h1}
    TargetLimit = 5
    EvidenceLimit = 6
    MaxRevision = 3
    MaxFaults = 1
    MaxCrashes = 1
INVARIANTS EvidenceTruthful BytesBeforeRecords
PROPERTIES HoldStopsCleanup CleanupCompletes
CHECK_DEADLOCK FALSE
