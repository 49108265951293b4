SPECIFICATION FairSpec
CONSTANTS
  Events <- MCEvents
  Publishers <- MCPublishers
  BatchSize = 2
  MaxAttempts = 4
  BackoffBase = 1
  BackoffCap = 3
  Horizon = 1
  MaxCrashes = 1
INVARIANTS
  TypeOK
  DuplicatesAreCharged
PROPERTIES
  EnrolledIsSettled
  ImplementsPromise
\* The system may stop when every command is settled and none is enrolled.
CHECK_DEADLOCK FALSE
