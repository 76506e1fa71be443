SPECIFICATION Spec
CONSTANTS
  c1 = c1
  c2 = c2
  o1 = o1
  o2 = o2
  Nobody = Nobody
  None = None
  Client = {c1, c2}
  AkaCaller = {aka}
  MaxChannel = 2
  MaxStarts = 1
  MaxFaults = 1
  Op = {o1, o2}
  Aka = Aka
  MaxTokens = 2
  Profile = {p1}
  MaxSeq = 4
  Auth = {a1}
  ESIM = {e1}
  MaxLogicalChannel = 2
  Directory <- MCDirectory
  MaxFailures = 1
  NoUser = NoUser
  MaxRecord = 5
SYMMETRY Clients
INVARIANTS
  OverlapNeedsTwoFailures
  ReachesOwnApplication
  ChannelsReturned
  SwitchToldOnce
  QuietWhileSwitching
  ReportsTrue
  SessionsApart
  RecordsRead
  CardRead
PROPERTIES
  RemovedOnlyDelivered
  
CHECK_DEADLOCK FALSE
