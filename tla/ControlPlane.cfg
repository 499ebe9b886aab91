SPECIFICATION Spec
CONSTANTS
    Admins = {a1, a2}
    Requests = {q1, q2}
    MaxConfigs = 2
    MaxBegun = 4
INVARIANTS RuntimeAvailable LinearHistory ApprovedContent
SYMMETRY Symmetry
CHECK_DEADLOCK FALSE
