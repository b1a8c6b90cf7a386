SPECIFICATION Spec
CONSTANTS
  a = a  b = b  c = c  e = e  s1 = s1  s2 = s2  d1 = d1  d2 = d2  t1 = t1  t2 = t2
  Confs = {a, b, c, e}
  Nothing = Nothing
  Broken = Broken
  NoTCP = NoTCP
  Content <- Contents
  Ports <- TCPPorts
  Foreign <- HostItems
  MaxCalls = 3
  MaxFaults = 1
  MaxCrashes = 0
PROPERTY LeavingHiddenRemovesInput
CHECK_DEADLOCK FALSE
