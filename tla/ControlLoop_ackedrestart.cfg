SPECIFICATION Spec
CONSTANTS
  p1 = p1  p2 = p2  n1 = n1  h1 = h1
  Profiles = {p1}
  NoProfile = NoProfile
  Nodes = {n1}
  Handlers = {h1}
  IPs = {"ip1"}
  Tunings = {"on70"}
  PanelVersion = 1
  AdminOps <- RestartOps
  MaxRev = 1
  MaxNonce = 1
  MaxProbe = 0
  MaxLate = 1
  Leftovers = {"mixture"}
  MaxOps = 3
  MaxCrashes = 1
PROPERTY AckedRestartHappens
CHECK_DEADLOCK FALSE
