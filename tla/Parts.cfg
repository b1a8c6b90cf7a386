SPECIFICATION PartSpec
CONSTANTS
  a = a  b = b  c = c  e = e  s1 = s1  s2 = s2  d1 = d1  d2 = d2  t1 = t1  t2 = t2
  Confs = {a, b, c, e}
  Nothing = Nothing
  Broken = Broken
  NoTCP = NoTCP
  Content <- Contents
  Ports <- TCPPorts
  Foreign <- HostItems
  MaxCalls = 4
  MaxFaults = 2
  MaxCrashes = 2
  RAMs = {1, 2}
  Available = {0, 130}
  Used = {0, 60}
  Requests = {0, 95}
  Manual <- ManualValues
  MinReserve = 20
  MaxTunings = 2
  MaxOutside = 2
  ListenerIds = {1, 2, 3}
  Hash <- HashOf
  RateSlots = 3
  Profiled <- LimitedProfiles
  Devices = {"eth0", "eth1"}
  MaxApplies = 2
  MaxRefusals = 1
  MaxMoves = 1
  SSHPorts = {{"22"}, {"2222"}}
  RecordPorts = {{}, {"443"}}
  MaxPublished = 3
  MaxBroken = 2
  MaxHost = 2
  Calendar <- Months
  ResetDays = {3}
  MaxBytes = 2
  MaxReloads = 1
  MaxEdits = 1
  MaxTorn = 1
  Records <- ProfileRecords
  Names <- ClientNames
  Paths <- ClientPaths
  Ingress = "ip1"
  MaxRecords = 3
INVARIANTS
  TypeOK ForwardedIsAccepted NoGap CleanReconcileFits
  TunerTypeOK AdaptiveFits ReserveKept
  LimitsExact LimitKept
  HiddenIsReachable PlainIsOpen
  TrafficTypeOK CountedOnce RecordsAddUp ResetsWhenOwed
  ServicesDistinct RouteIsUnique MostSpecificWins EveryRouteIsReached
  InputAdmitsServices
PROPERTIES Contract ManualKept
CHECK_DEADLOCK FALSE
