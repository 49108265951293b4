SPECIFICATION FairSpec
CONSTANTS
  Clients <- MCClients
  Sessions <- MCSession
  MAX_ATTEMPTS = 1
  MaxConfigs = 2
  Supported = {1}
  MaxBuilds = 1
  MaxRequests = 2
  MaxFaults = 1
INVARIANTS
  TypeOK
  VerdictNeedsOvertaking
PROPERTIES
  HistoryLossNeedsOvertaking
  SilencedRowsEnd
\* The heartbeat never stops, but a source that is gone needs nothing more.
CHECK_DEADLOCK FALSE
