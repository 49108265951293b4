SPECIFICATION Spec
CONSTANTS
  Workers <- MCWorkers
  MaxRows = 2
  MaxDuplicates = 1
  MaxFaults = 1
INVARIANTS
  TypeOK
  OverlapIsExplained
PROPERTIES
  ResurrectionNeedsStaleBind
  FullYieldsOnlyToStop
\* The system may stop when every row is final and MaxRows are used up.
CHECK_DEADLOCK FALSE
