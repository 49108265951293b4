SPECIFICATION FairSpec
CONSTANTS
  w1 = w1
  w2 = w2
  Workers <- MCWorkers
  LastChunk = 1
  MaxRows = 2
  MaxAttempts = 1
  MaxPromptEdits = 0
  MaxFileChanges = 1
  MaxDuplicates = 0
  MaxFaults = 1
PROPERTIES
  AnalysisSettles
\* The system may stop when every row is final and MaxRows are used up.
CHECK_DEADLOCK FALSE
