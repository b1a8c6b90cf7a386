SPECIFICATION ScenarioSpec
CONSTANTS
  p1 = p1  p2 = p2  n1 = n1  h1 = h1
  Profiles = {p1, p2}
  NoProfile = NoProfile
  Nodes = {n1}
  Handlers = {h1}
  IPs = {"ip1", "ip2"}
  Tunings = {"on70", "off70"}
  PanelVersion = 2
  AdminOps = {}
  MaxRev = 2
  MaxNonce = 1
  MaxProbe = 1
  MaxLate = 1
  Leftovers = {"mixture"}
  MaxOps = 3
  MaxCrashes = 1
SYMMETRY Symmetric
INVARIANTS TypeOK UnservedIsFlagged NoUnsupportedApplied RestartsBounded ShownWasServed
PROPERTIES ResetPerformed CleanBeforeForgotten
CHECK_DEADLOCK FALSE
