SPECIFICATION CaseSpec
CONSTANTS
    Staff = {s1, s2, s3}
    NoOne = NoOne
    MaxPending = 2
INVARIANTS NeverStranded OneOwner
PROPERTIES LosingOwnershipEndsAccess
SYMMETRY StaffSymmetry
CHECK_DEADLOCK FALSE
