SPECIFICATION FairSpec
CONSTANTS
  Workers <- MCWorkers
  MaxRows = 2
  MaxDuplicates = 0
  MaxFaults = 1
PROPERTIES
  StopIsHonoured
  TasksSettle
\* The system may stop when every row is final and MaxRows are used up.
CHECK_DEADLOCK FALSE
