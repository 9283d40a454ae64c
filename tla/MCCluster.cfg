SPECIFICATION Spec
CONSTANTS
  Replicas = 2
  Key = {k1}
  Milliseconds <- MCMilliseconds
  MaxActivity = 2
  MaxTrend = 2
  MaxCommands = 2
  MaxTicks = 1
  MaxFaults = 4
INVARIANTS
  TypeOK
  CountersAddUp
  OfflineNotHealthy
PROPERTY FailedStaysOut
