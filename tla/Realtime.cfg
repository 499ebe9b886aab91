SPECIFICATION FairSpec
CONSTANTS
  Publishers = {p1, p2}
  Claimants = {}
  Staff = {s1}
  Nobody = Nobody
  QueueCapacity = 2
  ReplayLimit = 1
  Kinds = {"shared", "progress"}
  MaxEvents = 3
  MaxFailures = 1
  MaxDrops = 1
INVARIANTS NothingMissed CursorHonest
PROPERTIES EventuallyKnown
CHECK_DEADLOCK FALSE
