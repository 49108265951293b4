SPECIFICATION FairSpec
CONSTANTS
  Workers <- MCWorkers
  Kinds <- MCKinds
  Subjects <- MCSubjects
  RuleLists <- MCRuleLists
  KeyLength <- MCKeyLength
  DEDUPE_KEY_WIDTH = 255
  MaxEvents = 2
  MaxRows = 3
  MaxRetries = 1
  MaxEdits = 1
  MaxFaults = 1
INVARIANTS
  TypeOK
  AttemptsArePaid
  RetriesNeedADuplicate
PROPERTIES
  FittingIsAttempted
\* The system may stop when every row is final and MaxEvents are used up.
CHECK_DEADLOCK FALSE
