SPECIFICATION Spec
CONSTANTS
  p1 = p1  p2 = p2  n1 = n1  h1 = h1
  Profiles = {p1, p2}
  NoProfile = NoProfile
  Nodes = {n1}
  Handlers = {h1}
  IPs = {"ip1"}
  Tunings = {"on70"}
  PanelVersion = 2
  AdminOps <- DeliveryOps
  MaxRev = 2
  MaxNonce = 0
  MaxProbe = 0
  MaxLate = 0
  Leftovers = {"mixture"}
  MaxOps = 4
  MaxCrashes = 0
PROPERTY ResetAcknowledged
CHECK_DEADLOCK FALSE
