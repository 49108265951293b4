SPECIFICATION FairSpec
CONSTANTS
  Workers <- MCWorkers
  MaxRows = 2
  MaxAttempts = 3
  MaxDuplicates = 1
  MaxFaults = 1
INVARIANTS
  TypeOK
  NotifiedOnce
  SummaryIsLatest
  SuccessIsOwn
PROPERTIES
  AttemptsSettle
  SummarySurvivesFailure
  StopIsHonoured
\* The system may stop when every row is final and MaxRows are used up.
CHECK_DEADLOCK FALSE
