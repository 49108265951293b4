SPECIFICATION FairSpec
CONSTANTS
  Workers <- MCOneWorker
  Files <- MCFiles
  Start <- MCStart
  Probed <- MCProbed
  Nominal = 2
  MERGE_GAP_SECONDS = 1
  SEAL_BUFFER_SECONDS = 2
  Window = 6
  MaxTime = 8
  MaxFaults = 1
PROPERTIES
  OpenIsSealed
  SealedIsDispatched
  NewIsFound
\* The clock stops at MaxTime.
CHECK_DEADLOCK FALSE
