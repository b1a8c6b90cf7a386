SPECIFICATION StoreSpec
CONSTANTS
  p1 = p1  p2 = p2  n1 = n1  h1 = h1  h2 = h2
  Profiles = {p1, p2}
  NoProfile = NoProfile
  Nodes = {n1}
  Handlers = {h1, h2}
  IPs = {"ip1"}
  Tunings = {"on70"}
  PanelVersion = 2
  AdminOps <- RaceOps
  MaxRev = 2
  MaxNonce = 0
  MaxProbe = 0
INVARIANT LatestDesired
CHECK_DEADLOCK FALSE
