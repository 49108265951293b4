SPECIFICATION FairSpec
CONSTANTS
  Clients <- MCClients
  Sessions <- MCSessions
  MAX_ATTEMPTS = 1
  MaxConfigs = 1
  Supported = {1}
  MaxBuilds = 1
  MaxRequests = 0
  MaxFaults = 0
PROPERTIES
  RecoveredIsRedispatched
\* The heartbeat never stops, but a source that is gone needs nothing more.
CHECK_DEADLOCK FALSE
