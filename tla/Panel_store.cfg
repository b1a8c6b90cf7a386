SPECIFICATION ScenarioSpec
CONSTANTS
  p1 = p1  p2 = p2  n1 = n1  h1 = h1  h2 = h2
  Profiles = {p1, p2}
  NoProfile = NoProfile
  Nodes = {n1}
  Handlers = {h1, h2}
  IPs = {"ip1"}
  Tunings = {"on70"}
  PanelVersion = 2
  AdminOps = {}
  MaxRev = 2
  MaxNonce = 1
  MaxProbe = 1
SYMMETRY Symmetric
INVARIANTS StoreTypeOK DesiredExists ResetMarksDesired RequestsStayValid
PROPERTIES DisabledNeverOnline OnlyDeletingRemoved
CHECK_DEADLOCK FALSE
