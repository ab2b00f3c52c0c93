SPECIFICATION FairSpec
CONSTANTS
  MaxId = 1
  Versions = {0, 6, 7, 8}
  Attempts = 1
  MaxFaults = 2
CHECK_DEADLOCK FALSE
INVARIANTS
  CbDataAlive
  FlagMatchesWorker
PROPERTIES
  WorkerEnds
  TrustedIsAnnounced
