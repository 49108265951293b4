SPECIFICATION Spec
CONSTANTS
  w1 = w1
  w2 = w2
  Workers <- MCWorkers
  LastChunk = 2
  MaxRows = 2
  MaxAttempts = 1
  MaxPromptEdits = 1
  MaxFileChanges = 0
  MaxDuplicates = 1
  MaxFaults = 1
SYMMETRY Symmetry
INVARIANTS
  TypeOK
  SuccessIsComplete
PROPERTIES
  PaidWorkIsKept
\* The system may stop when every row is final and MaxRows are used up.
CHECK_DEADLOCK FALSE
