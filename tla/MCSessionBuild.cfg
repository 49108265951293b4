SPECIFICATION Spec
CONSTANTS
  Workers <- MCWorkers
  Files <- MCFiles
  Start <- MCStart
  Probed <- MCProbed
  Nominal = 2
  MERGE_GAP_SECONDS = 1
  SEAL_BUFFER_SECONDS = 1
  Window = 2
  MaxTime = 6
  MaxFaults = 1
INVARIANTS
  TypeOK
  OneOpenSession
  EveryFileIsPlaced
  SessionsAreContiguous
\* The clock stops at MaxTime.
CHECK_DEADLOCK FALSE
