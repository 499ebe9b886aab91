SPECIFICATION FairSpec
CONSTANTS
  Workers = {w1, w2}
  Nobody = Nobody
  Contents = {"a", "b"}
  Readable = {"a"}
  Media = {"pdf", "image"}
  MaxVersions = 2
  MaxRetries = 1
  MaxTroubles = 2
INVARIANTS FactsFromCurrentMaterial
PROPERTIES SettledByHolder ProcessingSettles
CHECK_DEADLOCK FALSE
