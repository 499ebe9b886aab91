SPECIFICATION Spec
CONSTANTS
  Requests = {w1, w2}
  Keys = {k1, k2, k3}
  Messages = {m1, m2}
  Alarms = {m2}
  Rules = {timeout}
  NoRule = NoRule
  NoRecord = NoRecord
  Other = Other
  MaxOthers = 1
  MaxRequests = 3
  MaxCrashes = 1
SYMMETRY Interchangeable
INVARIANTS AnsweredOnce OneTurnPerKey NeverLeftHanging
PROPERTIES AgentStaysOut ConfirmationNotRevived
CHECK_DEADLOCK FALSE
