SPECIFICATION HealthSpec
CONSTANTS
  b1 = b1  b2 = b2
  Backends = {b1, b2}
  Proxied = {b1}
  Policies <- MonitorPolicies
  MaxRuns = 2
  MaxChanges = 1
  MaxProbes = 1
  Patience = 2
INVARIANTS HealthTypeOK
PROPERTIES OutAfterFailures WeightsFollow
CHECK_DEADLOCK FALSE
