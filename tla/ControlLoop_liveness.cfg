SPECIFICATION FairSpec
CONSTANTS
  p1 = p1  p2 = p2  n1 = n1  h1 = h1
  Profiles = {p1}
  NoProfile = NoProfile
  Nodes = {n1}
  Handlers = {h1}
  IPs = {"ip1"}
  Tunings = {"on70"}
  PanelVersion = 2
  AdminOps <- LivenessOps
  MaxRev = 2
  MaxNonce = 1
  MaxProbe = 0
  MaxLate = 0
  Leftovers = {"orphans"}
  MaxOps = 2
  MaxCrashes = 1
PROPERTIES Converges DecommissionCompletes
CHECK_DEADLOCK FALSE
